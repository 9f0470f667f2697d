------------------------------- MODULE S2Boot -------------------------------
(***************************************************************************)
(* Stage 2 from its entry to the jump to stage 4 (stage2/main.c), with the *)
(* file system menu, the mount and the kernel snapshot, and then stage 3   *)
(* and the boot manager of stage 5.  The power may fail at any step: the   *)
(* memory is lost, the disk stays as it is.                                *)
(*                                                                         *)
(* The snapshot goes through the VFS.  brainvfs_mount passes no operations *)
(* today, so nothing is stored; sb_ops tells that build from one whose     *)
(* mount passes them, the case the snapshot code is written for.           *)
(***************************************************************************)
EXTENDS Integers, Sequences, FiniteSets, SequencesExt

CONSTANTS
  SB_SECTORS,     \* KERNEL_MAX_SECTORS; a sector is also a chunk of the snapshot
  SB_BATCH,       \* sectors per read command
  SB_S4_SECTORS,  \* STAGE4_MAX_SECTORS
  SB_BYTE,        \* values of a byte-wide register
  SB_KERNEL_LBA, SB_STAGE4_LBA,
  SB_IMAGES,      \* versions of the disk's contents, 0 the blank disk
  SB_CONFIGS,     \* contents of boot.cfg: sequences of lines, or <<>> for no file
  SB_DIGITS,      \* digit keys pressed in the menu
  SB_WIDTHS,      \* numbers typed there, digit by digit
  SB_STAGES,      \* the last stage of the boot manager, at least 5
  SB_PAGE,        \* stages on a page of its menu
  SB_BOOTS        \* bound: how often the power comes on

VARIABLES sb_pc, sb_ops, sb_disk, sb_snap, sb_cfg, sb_fs, sb_menu, sb_kern, sb_from,
          sb_valid, sb_done, sb_page, sb_boots, sb_saved
sbDiskVars == <<sb_ops, sb_disk, sb_snap, sb_boots, sb_saved>>
sbRamVars == <<sb_pc, sb_cfg, sb_fs, sb_menu, sb_kern, sb_from, sb_valid, sb_done, sb_page>>
sbVars == <<sbDiskVars, sbRamVars>>

Preset == <<0, 1, 2, 4, 8, 12, 16, 32, 64, 128>>
SupportedWidths == {1, 2, 4, 8, 12, 16, 32, 64, 128}
NoFile == [hdr |-> FALSE, size |-> 0, crc |-> <<>>, data |-> <<>>]
BlankSector == <<0, 0>>
Unread == [i \in 1..SB_SECTORS |-> BlankSector]

\* The early phases in their order; the machine halts when a fatal one fails.
Phases == <<"a20", "pmm", "pre_init", "security", "nic", "wifi", "tor", "ata", "pci", "vmm", "ring0", "brainfs">>
FatalPhases == {"pmm", "vmm"}
MayFail == {"pmm", "nic", "wifi", "tor", "vmm"}

----------------------------------------------------------------------------
(* boot.cfg: sections, pairs and comments; only a known key of a known      *)
(* section changes the configuration.                                       *)

CfgDefaults == [section |-> "", snapshot |-> 0, timeout_ms |-> 5000]

cfg_parse_kv(c, key, value) ==
  CASE c.section = "boot" /\ key = "timeout_ms" -> [c EXCEPT !.timeout_ms = value]
    [] c.section = "kernel" /\ key = "snapshot" -> [c EXCEPT !.snapshot = value]
    [] OTHER -> c

ConfigLine(c, line) ==
  CASE line[1] = "section" -> [c EXCEPT !.section = line[2]]
    [] line[1] = "pair" -> cfg_parse_kv(c, line[2], line[3])
    [] OTHER -> c

\* Without operations the open for reading fails, and so does the second try.
boot_args_parse(file) == IF sb_ops THEN FoldLeft(ConfigLine, CfgDefaults, file) ELSE CfgDefaults

----------------------------------------------------------------------------
(* disk_read_sectors writes the count to register 1, the address from       *)
(* register 2 on and the command.  The drive takes the count from register  *)
(* 2 (0 stands for all values of a byte) and the address from 3, 4 and 5.   *)

Digit(lba, i) == (lba \div SB_BYTE ^ i) % SB_BYTE
TaskFile(count, lba) ==
  [r \in 1..5 |-> CASE r = 1 -> count % SB_BYTE [] r \in 2..4 -> Digit(lba, r - 2) [] OTHER -> 0]
DriveCount(regs) == IF regs[2] = 0 THEN SB_BYTE ELSE regs[2]
DriveLba(regs) == regs[3] + SB_BYTE * regs[4] + SB_BYTE ^ 2 * regs[5]

\* What arrives of `count` sectors when the drive delivers `good` of them and
\* then reports an error or stalls; it also stalls after its own count.
disk_read_sectors(lba, count, good) ==
  LET regs == TaskFile(count, lba)
      n == IF good < DriveCount(regs) THEN good ELSE DriveCount(regs)
  IN [i \in 1..(IF n < count THEN n ELSE count) |-> <<sb_disk, DriveLba(regs) + i - 1>>]

\* The batches of load_kernel and load_stage4, one after the other, until one
\* is short: the drive delivers `good` sectors in all.
BatchLoad(lba, sectors, good) ==
  LET Batch(acc, b) ==
        LET want == IF sectors - b < SB_BATCH THEN sectors - b ELSE SB_BATCH
            got == disk_read_sectors(lba + b, want, good - Len(acc.data))
        IN IF ~acc.ok THEN acc
           ELSE [ok |-> Len(got) = want, data |-> acc.data \o got]
      starts == [k \in 1..((sectors + SB_BATCH - 1) \div SB_BATCH) |-> (k - 1) * SB_BATCH]
  IN FoldLeft(Batch, [ok |-> TRUE, data |-> <<>>], starts)

\* The buffer after a sequence of sectors was read into its beginning.
Filled(buf, data) == [i \in DOMAIN buf |-> IF i <= Len(data) THEN data[i] ELSE buf[i]]

----------------------------------------------------------------------------
(* The phases before the menu.                                              *)

\* The bss goes from behind the image of stage 2 to about 14 MB, so that the place
\* of the kernel is zeroed too; sb_from says where what is there comes from.
zero_bss ==
  /\ sb_cfg' = CfgDefaults /\ sb_fs' = [width |-> 0, mode |-> "none", encfs |-> FALSE]
  /\ sb_menu' = [selected |-> 7, typed |-> <<>>, width |-> 0]
  /\ sb_kern' = Unread /\ sb_from' = "none" /\ sb_valid' = FALSE /\ sb_done' = 0 /\ sb_page' = 0

\* After a cold start, or a reset by stage 5 that keeps the memory.
stage2_entry ==
  /\ sb_pc = "off" /\ sb_boots < SB_BOOTS
  /\ sb_pc' = "a20" /\ sb_boots' = sb_boots + 1
  /\ zero_bss
  /\ UNCHANGED <<sb_ops, sb_disk, sb_snap, sb_saved>>

Phase ==
  \E i \in 1..Len(Phases) : \E ok \in BOOLEAN :
    /\ sb_pc = Phases[i] /\ (ok \/ Phases[i] \in MayFail)
    /\ sb_pc' = IF ~ok /\ Phases[i] \in FatalPhases THEN "halt"
                ELSE IF i < Len(Phases) THEN Phases[i + 1] ELSE "config"
    /\ UNCHANGED <<sb_cfg, sb_fs, sb_menu, sb_kern, sb_from, sb_valid, sb_done, sb_page, sbDiskVars>>

Config ==
  /\ sb_pc = "config"
  /\ \E file \in SB_CONFIGS : sb_cfg' = boot_args_parse(file)
  /\ sb_menu' = [selected |-> 7, typed |-> <<>>, width |-> 0]
  /\ sb_pc' = "fs_menu"
  /\ UNCHANGED <<sb_fs, sb_kern, sb_from, sb_valid, sb_done, sb_page, sbDiskVars>>

----------------------------------------------------------------------------
(* fs_menu_show: a key, a typed width, or no key before the timeout.  ESC   *)
(* leaves with the default: the code that follows it for the arrow keys is  *)
(* never reached.                                                           *)

MenuRest == UNCHANGED <<sb_cfg, sb_fs, sb_kern, sb_from, sb_valid, sb_done, sb_page, sbDiskVars>>

fs_menu_show ==
  /\ sb_pc = "fs_menu"
  /\ \/ sb_pc' = "mount" /\ UNCHANGED sb_menu                        \* Enter or timeout
     \/ sb_pc' = "mount" /\ sb_menu' = [sb_menu EXCEPT !.selected = 7]
     \/ sb_pc' = "custom" /\ sb_menu' = [sb_menu EXCEPT !.typed = <<>>]
     \/ \E d \in SB_DIGITS : sb_menu' = [sb_menu EXCEPT !.selected = d] /\ UNCHANGED sb_pc
  /\ MenuRest

TypedValue(s) == FoldLeft(LAMBDA v, d : 10 * v + d, 0, s)

\* At most three digits; 0 and values above 128 are asked again.
read_custom_input ==
  /\ sb_pc = "custom"
  /\ \/ sb_pc' = "fs_menu" /\ UNCHANGED sb_menu                      \* ESC or timeout
     \/ /\ sb_menu.typed = <<>>
        /\ \E w \in SB_WIDTHS : sb_menu' = [sb_menu EXCEPT !.typed = w]
        /\ UNCHANGED sb_pc
     \/ /\ sb_menu.typed # <<>>
        /\ sb_menu' = [sb_menu EXCEPT !.typed = Front(@)] /\ UNCHANGED sb_pc
     \/ /\ sb_menu.typed # <<>> /\ TypedValue(sb_menu.typed) \notin 1..128
        /\ sb_menu' = [sb_menu EXCEPT !.typed = <<>>] /\ UNCHANGED sb_pc
     \/ /\ sb_menu.typed # <<>> /\ TypedValue(sb_menu.typed) \in 1..128
        /\ sb_menu' = [sb_menu EXCEPT !.width = TypedValue(sb_menu.typed)] /\ sb_pc' = "mount"
  /\ MenuRest

SelectedWidth == IF sb_menu.width > 0 THEN sb_menu.width ELSE Preset[sb_menu.selected + 1]

\* Any width the FAT does not have is refused; brainfs_mount may fail; the root
\* is already mounted, so the VFS refuses the second mount and the result is an
\* error although encfs counts as mounted.
encfs_mount(w, brainfs_ok) ==
  [mounted |-> w \in SupportedWidths /\ brainfs_ok, rc |-> -1]

Mount ==
  /\ sb_pc = "mount"
  /\ \E ok \in BOOLEAN :
       sb_fs' = IF SelectedWidth = 0 THEN [width |-> 0, mode |-> "none", encfs |-> FALSE]
                ELSE LET e == encfs_mount(SelectedWidth, ok)
                     IN [width |-> SelectedWidth, mode |-> IF e.rc = 0 THEN "encfs" ELSE "brainfs", encfs |-> e.mounted]
  /\ sb_pc' = "session" /\ sb_menu' = [selected |-> 7, typed |-> <<>>, width |-> 0]
  /\ UNCHANGED <<sb_cfg, sb_kern, sb_from, sb_valid, sb_done, sb_page, sbDiskVars>>

\* The key G starts the desktop, which falls back to the shell when it cannot
\* start; either way the session ends and the kernel is loaded.
Session ==
  /\ sb_pc = "session"
  /\ sb_pc' = IF sb_cfg.snapshot # 0 THEN "restore" ELSE "load"
  /\ UNCHANGED <<sb_cfg, sb_fs, sb_menu, sb_kern, sb_from, sb_valid, sb_done, sb_page, sbDiskVars>>

----------------------------------------------------------------------------
(* The snapshot.  The checksum is taken for what it stands for: it tells    *)
(* every two images apart.                                                  *)

snapshot_crc32(image) == image

\* The first sector decides whether the kernel looks empty.
LooksEmpty == sb_kern[1] = BlankSector \/ sb_kern[1][1] = 0

\* `good` chunks can be read before the file ends or a read fails.  On any
\* failure the chunks read so far stay in the kernel's place.
kernel_snapshot_restore_trusting ==
  /\ sb_pc = "restore"
  /\ \E good \in 0..SB_SECTORS :
       LET n == IF good < Len(sb_snap.data) THEN good ELSE Len(sb_snap.data)
           header == sb_ops /\ sb_snap.hdr /\ sb_snap.size \in 1..SB_SECTORS
           image == Filled(sb_kern, SubSeq(sb_snap.data, 1, n))
           ok == header /\ n = sb_snap.size
       IN /\ sb_kern' = IF header THEN image ELSE sb_kern
          /\ sb_valid' = (sb_valid \/ ok)
          /\ sb_from' = IF ok THEN "snapshot" ELSE sb_from
          /\ sb_pc' = IF ok THEN "stage4" ELSE "load"
  /\ UNCHANGED <<sb_cfg, sb_fs, sb_menu, sb_done, sb_page, sbDiskVars>>

kernel_snapshot_restore ==
  /\ sb_pc = "restore"
  /\ \E good \in 0..SB_SECTORS :
       LET n == IF good < Len(sb_snap.data) THEN good ELSE Len(sb_snap.data)
           header == sb_ops /\ sb_snap.hdr /\ sb_snap.size \in 1..SB_SECTORS
           image == Filled(sb_kern, SubSeq(sb_snap.data, 1, n))
           ok == header /\ n = sb_snap.size /\ snapshot_crc32(image) = sb_snap.crc
       IN /\ sb_kern' = IF header THEN image ELSE sb_kern
          /\ sb_valid' = (sb_valid \/ ok)
          /\ sb_from' = IF ok THEN "snapshot" ELSE sb_from
          /\ sb_pc' = IF ok THEN "stage4" ELSE "load"
  /\ UNCHANGED <<sb_cfg, sb_fs, sb_menu, sb_done, sb_page, sbDiskVars>>

load_kernel ==
  /\ sb_pc = "load"
  /\ \E good \in 0..SB_SECTORS :
       LET r == BatchLoad(SB_KERNEL_LBA, SB_SECTORS, good)
       IN /\ sb_kern' = Filled(sb_kern, r.data)
          /\ sb_from' = IF r.ok THEN "sectors" ELSE sb_from
          /\ sb_pc' = IF ~r.ok THEN "halt" ELSE IF sb_cfg.snapshot # 0 THEN "save" ELSE "stage4"
  /\ UNCHANGED <<sb_cfg, sb_fs, sb_menu, sb_valid, sb_done, sb_page, sbDiskVars>>

\* The old file is removed and the header, with size and checksum, is written
\* before the chunks; a refused write gives up and the boot goes on.  With no
\* operations every write claims to succeed.
kernel_snapshot_save ==
  /\ sb_pc = "save"
  /\ \/ LooksEmpty /\ sb_pc' = "stage4" /\ UNCHANGED <<sb_snap, sb_saved, sb_done>>
     \/ ~LooksEmpty /\ sb_ops /\ sb_snap' = NoFile /\ sb_pc' = "stage4" /\ UNCHANGED <<sb_saved, sb_done>>
     \/ /\ ~LooksEmpty
        /\ sb_snap' = IF sb_ops THEN [hdr |-> TRUE, size |-> SB_SECTORS, crc |-> snapshot_crc32(sb_kern), data |-> <<>>]
                      ELSE sb_snap
        /\ sb_saved' = sb_saved \cup {sb_kern}
        /\ sb_done' = 0 /\ sb_pc' = "saving"
  /\ UNCHANGED <<sb_cfg, sb_fs, sb_menu, sb_kern, sb_from, sb_valid, sb_page, sb_ops, sb_disk, sb_boots>>

SaveChunk ==
  /\ sb_pc = "saving"
  /\ \/ /\ sb_done < SB_SECTORS
        /\ sb_snap' = IF sb_ops THEN [sb_snap EXCEPT !.data = Append(@, sb_kern[sb_done + 1])] ELSE sb_snap
        /\ sb_done' = sb_done + 1 /\ UNCHANGED <<sb_pc, sb_valid>>
     \/ sb_done < SB_SECTORS /\ sb_ops /\ sb_pc' = "stage4" /\ UNCHANGED <<sb_snap, sb_done, sb_valid>>
     \/ sb_done = SB_SECTORS /\ sb_valid' = TRUE /\ sb_pc' = "stage4" /\ UNCHANGED <<sb_snap, sb_done>>
  /\ UNCHANGED <<sb_cfg, sb_fs, sb_menu, sb_kern, sb_from, sb_page, sb_ops, sb_disk, sb_boots, sb_saved>>

\* A failed load of stage 4 is only reported: the jump follows anyway.
load_stage4 ==
  /\ sb_pc = "stage4"
  /\ \E good \in 0..SB_S4_SECTORS :
       sb_done' = Len(BatchLoad(SB_STAGE4_LBA, SB_S4_SECTORS, good).data)
  /\ sb_pc' = "stage3"
  /\ UNCHANGED <<sb_cfg, sb_fs, sb_menu, sb_kern, sb_from, sb_valid, sb_page, sbDiskVars>>

----------------------------------------------------------------------------
(* Stage 3: stage 4 jumps to it.  It looks for an ELF header in memory,     *)
(* copies the segments, reads the modules and offers the boot manager.      *)

\* Whether one of the four places it looks at holds a header is an input; so is
\* what the module directory and its sectors give, which is only counted.
stage3_entry ==
  /\ sb_pc = "stage3"
  /\ sb_pc' \in {"halt", "prompt"}
  /\ UNCHANGED <<sb_cfg, sb_fs, sb_menu, sb_kern, sb_from, sb_valid, sb_done, sb_page, sbDiskVars>>

\* A key loads the stages and starts stage 5, none jumps to the kernel.
boot_prompt ==
  /\ sb_pc = "prompt"
  /\ \/ sb_pc' = "manager" /\ sb_page' = 0
     \/ sb_pc' = "kernel" /\ UNCHANGED sb_page
  /\ UNCHANGED <<sb_cfg, sb_fs, sb_menu, sb_kern, sb_from, sb_valid, sb_done, sbDiskVars>>

SBTotalPages == (SB_STAGES - 5 + 1 + SB_PAGE - 1) \div SB_PAGE
PageStages(p) == {5 + p * SB_PAGE + i : i \in 0..SB_PAGE - 1} \cap 5..SB_STAGES

\* A stage is called and returns; K jumps to the kernel, H halts, R restarts.
stage5_entry ==
  /\ sb_pc = "manager"
  /\ \/ \E n \in PageStages(sb_page) : UNCHANGED <<sb_pc, sb_page>>
     \/ sb_pc' \in {"kernel", "halt", "off"} /\ UNCHANGED sb_page
     \/ sb_page' = (IF sb_page + 1 >= SBTotalPages THEN 0 ELSE sb_page + 1) /\ UNCHANGED sb_pc
     \/ sb_page' = (IF sb_page = 0 THEN SBTotalPages - 1 ELSE sb_page - 1) /\ UNCHANGED sb_pc
  /\ UNCHANGED <<sb_cfg, sb_fs, sb_menu, sb_kern, sb_from, sb_valid, sb_done, sbDiskVars>>

----------------------------------------------------------------------------
(* Between two steps the power may fail, and while it is off another kernel *)
(* may be installed or a stored chunk may decay.                            *)

LostRam == sb_pc' = "off" /\ zero_bss

PowerLoss == sb_pc # "off" /\ LostRam /\ UNCHANGED sbDiskVars

Offline ==
  /\ sb_pc = "off"
  /\ \/ \E v \in SB_IMAGES : sb_disk' = v /\ UNCHANGED sb_snap
     \/ \E i \in DOMAIN sb_snap.data :
          sb_snap' = [sb_snap EXCEPT !.data[i] = BlankSector] /\ UNCHANGED sb_disk
  /\ UNCHANGED <<sbRamVars, sb_ops, sb_boots, sb_saved>>

SBInit ==
  /\ sb_pc = "off" /\ sb_ops \in BOOLEAN /\ sb_disk \in SB_IMAGES /\ sb_snap = NoFile
  /\ sb_cfg = CfgDefaults /\ sb_fs = [width |-> 0, mode |-> "none", encfs |-> FALSE]
  /\ sb_menu = [selected |-> 7, typed |-> <<>>, width |-> 0]
  /\ sb_kern = Unread /\ sb_from = "none" /\ sb_valid = FALSE /\ sb_done = 0 /\ sb_page = 0
  /\ sb_boots = 0 /\ sb_saved = {}

SBNext ==
  \/ stage2_entry \/ Phase \/ Config \/ fs_menu_show \/ read_custom_input \/ Mount \/ Session
  \/ kernel_snapshot_restore \/ load_kernel \/ kernel_snapshot_save \/ SaveChunk \/ load_stage4
  \/ stage3_entry \/ boot_prompt \/ stage5_entry \/ PowerLoss \/ Offline

SBSpec == SBInit /\ [][SBNext]_sbVars

----------------------------------------------------------------------------
\* A kernel that came from the snapshot is, sector for sector, one that an
\* earlier boot had loaded completely and began to save: never one cut short by
\* a power failure, and never one of which a chunk decayed on the disk.
SnapshotSound == sb_from = "snapshot" => sb_kern \in sb_saved
=============================================================================
