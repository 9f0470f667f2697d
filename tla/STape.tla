------------------------------- MODULE STape --------------------------------
(***************************************************************************)
(* The disks of stage 2 (tape/ata.c): which drives are found on the two    *)
(* channels, and how reads and writes of several sectors reach them.       *)
(*                                                                         *)
(* A register holds a digit of base TP_BYTE.  A drive answers a command,   *)
(* answers with an error because it has no such sector, or does not answer *)
(* in time, at any sector of a transfer.  What is in its sectors once a    *)
(* transfer was answered stays there.                                      *)
(***************************************************************************)
EXTENDS Integers, Sequences, FiniteSets

CONSTANTS TP_BYTE, TP_HEAD,   \* values of a register and of the low bits of DRIVE_HEAD
          TP_DRIVES,          \* what is at <<channel, position>>: none, atapi, lba28 or lba48; position 0 is the master
          TP_CAP,             \* sectors of a drive
          TP_LBAS, TP_COUNT,  \* first sectors, and most sectors of a call
          TP_DATA, TP_CALLS

\* Two channels with two positions each.
ASSUME TPAssumption ==
  /\ TP_BYTE \in Nat \ {0} /\ TP_HEAD \in Nat \ {0} /\ TP_CAP \in Nat
  /\ TP_LBAS \subseteq Nat /\ TP_COUNT \in Nat
  /\ TP_DRIVES \in [{0, 1} \X {0, 1} -> {"none", "atapi", "lba28", "lba48"}]

VARIABLES tp_table,   \* g_drives up to g_drive_count: channel, position, lba48
          tp_sel,     \* position selected on each channel
          tp_disk,    \* sectors of each drive
          tp_want,    \* what callers last wrote to each sector number
          tp_far,     \* a sector number did not fit the registers
          tp_read,    \* of the last read: drive, first sector, what the buffer holds and should hold
          tp_calls
tpVars == <<tp_table, tp_sel, tp_disk, tp_want, tp_far, tp_read, tp_calls>>

RegDigit(l, k) == (l \div (TP_BYTE ^ k)) % TP_BYTE
\* What three registers tell apart.
Low3s == TP_BYTE * TP_BYTE * TP_BYTE
Low3(l) == l % Low3s

----------------------------------------------------------------------------
\* ata_wait_bsy, ata_wait_drq: a drive may be late, or be in error.
ata_wait(late, error) == IF late THEN -1 ELSE IF error THEN -2 ELSE 0

\* ata_detect: no drive, or one that is late; a packet device answers IDENTIFY
\* with an error and is not taken.
ata_detect(chan, pos, late) ==
  IF TP_DRIVES[<<chan, pos>>] = "none" \/ ata_wait(late, TP_DRIVES[<<chan, pos>>] = "atapi") < 0 THEN <<>>
  ELSE << [chan |-> chan, pos |-> pos, lba48 |-> TP_DRIVES[<<chan, pos>>] = "lba48"] >>
\* tape_ata_init: masters before slaves; the slaves stay selected.
tape_ata_init ==
  /\ \E late \in SUBSET DOMAIN TP_DRIVES :
       tp_table' = ata_detect(0, 0, <<0, 0>> \in late) \o ata_detect(0, 1, <<0, 1>> \in late)
                   \o ata_detect(1, 0, <<1, 0>> \in late) \o ata_detect(1, 1, <<1, 1>> \in late)
  /\ tp_sel' = [c \in {0, 1} |-> 1]
  /\ UNCHANGED <<tp_disk, tp_want, tp_far, tp_read>>

\* tape_read, tape_write: the drive of a channel and position.
FindDrive(chan, pos) == LET S == {i \in DOMAIN tp_table : tp_table[i].chan = chan /\ tp_table[i].pos = pos} IN
                        IF S = {} THEN {} ELSE {tp_table[CHOOSE i \in S : \A j \in S : i <= j]}

\* The sector the registers name: LBA28 has its fourth digit in DRIVE_HEAD.
Sector28(l) == Low3(l) + Low3s * ((l \div Low3s) % TP_HEAD)
\* LBA48: the fourth digit is written to the sector count, and those after it one
\* register too low.
Sector48(l) == Low3(l) + Low3s * RegDigit(l, 4) + (TP_BYTE ^ 4) * RegDigit(l, 5)
SectorOf(e, l) == IF e.lba48 THEN Sector48(l) ELSE Sector28(l)
\* Sectors a transfer may have done when it ends: all, or those before a sector the
\* drive does not have, or before one it was late for.
Done(e, l, n) == {k \in 0 .. n : \A i \in 0 .. k - 1 : SectorOf(e, l + i) < TP_CAP}
DriveAt(e) == <<e.chan, e.pos>>
\* Mutant: the bit that selects the slave is left out.
Select_master(e) == tp_sel' = [tp_sel EXCEPT ![e.chan] = 0]
\* A channel that is busy before that ends the call, which then did nothing.
Select(e) == tp_sel' = [tp_sel EXCEPT ![e.chan] = e.pos]
FarCall(e, l, k) == tp_far' = (tp_far \/ \E i \in 0 .. k - 1 : SectorOf(e, l + i) # l + i)

\* Sectors are read from whichever drive is selected.
ReadTransfer(e, l, n) ==
  /\ Select(e)
  /\ \E k \in Done(e, l, n) :
       /\ tp_read' = [drive |-> DriveAt(e), lba |-> l, got |-> [i \in 1 .. k |-> tp_disk[<<e.chan, tp_sel'[e.chan]>>][SectorOf(e, l + i - 1)]],
                    due |-> [i \in 1 .. k |-> IF l + i - 1 < TP_CAP THEN tp_want[DriveAt(e)][l + i - 1] ELSE 0]]
       /\ FarCall(e, l, k)
  /\ UNCHANGED <<tp_table, tp_disk, tp_want>>
tape_ata_read_sectors(e, l, n) == ~e.lba48 /\ ReadTransfer(e, l, n)
tape_ata_read_sectors_lba48(e, l, n) == e.lba48 /\ ReadTransfer(e, l, n)
\* One sector for each command, in order; a flush that is late changes nothing.
WriteTransfer(e, l, n, data) ==
  /\ Select(e)
  /\ \E k \in Done(e, l, n) :
       /\ tp_disk' = [tp_disk EXCEPT ![<<e.chan, tp_sel'[e.chan]>>] =
            [a \in DOMAIN @ |-> IF \E i \in 0 .. k - 1 : SectorOf(e, l + i) = a
                                THEN data[1 + CHOOSE i \in 0 .. k - 1 : SectorOf(e, l + i) = a /\ \A j \in i + 1 .. k - 1 : SectorOf(e, l + j) # a] ELSE @[a]]]
       /\ tp_want' = [tp_want EXCEPT ![DriveAt(e)] = [a \in DOMAIN @ |-> IF a \in l .. l + k - 1 THEN data[a - l + 1] ELSE @[a]]]
       /\ FarCall(e, l, k)
  /\ UNCHANGED <<tp_table, tp_read>>
tape_ata_write_sectors(e, l, n, data) == ~e.lba48 /\ WriteTransfer(e, l, n, data)
tape_ata_write_sectors_lba48(e, l, n, data) == e.lba48 /\ WriteTransfer(e, l, n, data)
\* tape_ata_identify: the drive that happens to be selected on the channel.
tape_ata_identify(e) == TP_DRIVES[<<e.chan, tp_sel[e.chan]>>]

tape_read(e, l, n) == tape_ata_read_sectors(e, l, n) \/ tape_ata_read_sectors_lba48(e, l, n)
tape_write(e, l, n, data) == tape_ata_write_sectors(e, l, n, data) \/ tape_ata_write_sectors_lba48(e, l, n, data)
tape_call ==
  \E d \in DOMAIN TP_DRIVES, l \in TP_LBAS, n \in 1 .. TP_COUNT : \E e \in FindDrive(d[1], d[2]) :
    \/ tape_read(e, l, n)
    \/ \E data \in [1 .. n -> TP_DATA] : tape_write(e, l, n, data)

TPInit ==
  /\ tp_table = <<>> /\ tp_sel = [c \in {0, 1} |-> 0] /\ tp_far = FALSE /\ tp_calls = 0
  /\ tp_disk = [d \in DOMAIN TP_DRIVES |-> [a \in 0 .. TP_CAP - 1 |-> 0]]
  /\ tp_want = tp_disk
  /\ tp_read = [drive |-> <<0, 0>>, lba |-> 0, got |-> <<>>, due |-> <<>>]
TPNext == tp_calls < TP_CALLS /\ tp_calls' = tp_calls + 1 /\ (tape_ata_init \/ tape_call)
TPSpec == TPInit /\ [][TPNext]_tpVars

----------------------------------------------------------------------------
\* Every entry of the table is one drive that is there and takes sector commands;
\* the sectors of every drive hold what was last written to their numbers by calls
\* for that drive, of which a failed one may have done a part; and a read gives the
\* caller those, also after the other drive of the channel was used: as long as
\* the numbers fit the registers.
SectorsKept ==
  /\ \A i \in DOMAIN tp_table :
       /\ TP_DRIVES[DriveAt(tp_table[i])] = IF tp_table[i].lba48 THEN "lba48" ELSE "lba28"
       /\ \A j \in DOMAIN tp_table : DriveAt(tp_table[i]) = DriveAt(tp_table[j]) => i = j
       /\ tp_sel[tp_table[i].chan] = tp_table[i].pos => tape_ata_identify(tp_table[i]) = TP_DRIVES[DriveAt(tp_table[i])]
  /\ ~tp_far => tp_disk = tp_want /\ tp_read.got = tp_read.due
  /\ \A i \in DOMAIN tp_table : ~tp_table[i].lba48 => \A l \in TP_LBAS : l < TP_HEAD * Low3s => SectorOf(tp_table[i], l) = l
=============================================================================
