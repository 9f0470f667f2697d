--------------------------- MODULE Stage2IoProofs ---------------------------
(***************************************************************************)
(* Proofs about what stage 2 stores, sends and is typed: sectors, files,   *)
(* keys and the fish shell, for every size of the tables.                  *)
(***************************************************************************)
EXTENDS STape, SBrain, SLink, SFish, FiniteSetTheorems, SequenceTheorems, WellFoundedInduction, TLAPS

(* A set of numbers that is not empty has a smallest one. *)
LEMMA SmallestOf ==
  ASSUME NEW T, T \subseteq Nat, T # {}
  PROVE  \E x \in T : \A y \in T : x <= y
  <1> DEFINE Lt == OpToRel(<, Nat)
  <1>1. IsWellFoundedOn(Lt, Nat)
    BY NatLessThanWellFounded
  <1>2. \A x, y \in Nat : x < y => <<x, y>> \in Lt
    BY DEF OpToRel
  <1> HIDE DEF Lt
  <1>3. PICK x \in T : \A y \in T : ~(<<y, x>> \in Lt)
    BY <1>1, WFMin
  <1>4. ASSUME NEW y \in T PROVE x <= y
    <2>1. x \in Nat /\ y \in Nat
      OBVIOUS
    <2>2. ~(y < x)
      BY <2>1, <1>2, <1>3, Zenon
    <2> QED BY <2>1, <2>2
  <1> QED BY <1>4

(* A number below a product, as digits. *)
LEMMA QuotientBelow ==
  ASSUME NEW a \in Nat, NEW d \in Nat \ {0}, NEW n \in Nat, a < d * n
  PROVE  a \div d \in 0 .. n - 1 /\ a % d \in 0 .. d - 1 /\ a = d * (a \div d) + (a % d)
  <1> DEFINE q == a \div d
             m == a % d
  <1>1. q \in Nat /\ m \in 0 .. d - 1 /\ a = d * q + m
    OBVIOUS
  <1> HIDE DEF q, m
  <1>2. q < n
    <2> SUFFICES ASSUME q >= n PROVE FALSE
      BY <1>1
    <2>1. PICK k \in Nat : q = n + k
      <3>1. q - n \in Nat /\ q = n + (q - n)
        BY <1>1
      <3> QED BY <3>1
    <2>2. d * q = d * n + d * k /\ d * k \in Nat /\ d * n \in Nat
      BY <2>1
    <2> QED BY <1>1, <2>2
  <1> QED BY <1>1, <1>2 DEF q, m

-----------------------------------------------------------------------------
(***************************************************************************)
(* The disks.  SectorsKept is not inductive: the sectors a transfer        *)
(* reaches are those it should because the first sector of each command    *)
(* fits the registers and because the drive is selected before.            *)
(***************************************************************************)
Channels == {0, 1} \X {0, 1}
DriveEntry == [chan : {0, 1}, pos : {0, 1}, lba48 : BOOLEAN]
Fits(e) == TP_DRIVES[DriveAt(e)] = IF e.lba48 THEN "lba48" ELSE "lba28"

\* A table of drives at places in D, each once.
Listed(t, D) ==
  /\ t \in Seq(DriveEntry)
  /\ \A i \in DOMAIN t : Fits(t[i]) /\ DriveAt(t[i]) \in D
  /\ \A i, j \in DOMAIN t : DriveAt(t[i]) = DriveAt(t[j]) => i = j

Media == [Channels -> [0 .. TP_CAP - 1 -> TP_DATA \cup {0}]]
TapeInv ==
  /\ Listed(tp_table, Channels)
  /\ tp_sel \in [{0, 1} -> {0, 1}]
  /\ ~tp_far => tp_disk = tp_want /\ tp_disk \in Media /\ tp_read.got = tp_read.due

\* What is found at one place, and what is found at several.
LEMMA OneDetected ==
  ASSUME NEW c \in {0, 1}, NEW p \in {0, 1}, NEW late
  PROVE  Listed(ata_detect(c, p, late), {<<c, p>>})
  <1> DEFINE k == TP_DRIVES[<<c, p>>]
             e == [chan |-> c, pos |-> p, lba48 |-> k = "lba48"]
  <1>1. CASE ata_detect(c, p, late) = <<>>
    BY <1>1 DEF Listed
  <1>2. CASE ata_detect(c, p, late) # <<>>
    <2>1. k # "none" /\ k # "atapi" /\ ata_detect(c, p, late) = <<e>>
      <3>1. ata_wait(late, TRUE) < 0
        BY DEF ata_wait
      <3> QED BY <1>2, <3>1 DEF ata_detect
    <2>2. k \in {"none", "atapi", "lba28", "lba48"}
      BY TPAssumption
    <2>3. e \in DriveEntry /\ DriveAt(e) = <<c, p>> /\ Fits(e)
      BY <2>1, <2>2 DEF DriveEntry, DriveAt, Fits
    <2> HIDE DEF e
    <2>4. <<e>> \in Seq(DriveEntry) /\ DOMAIN <<e>> = {1} /\ <<e>>[1] = e
      BY <2>3
    <2> QED BY <2>1, <2>3, <2>4 DEF Listed
  <1> QED BY <1>1, <1>2

LEMMA BothListed ==
  ASSUME NEW s, NEW t, NEW C, NEW D, Listed(s, C), Listed(t, D), C \cap D = {}
  PROVE  Listed(s \o t, C \cup D)
  <1>1. s \in Seq(DriveEntry) /\ t \in Seq(DriveEntry)
    BY DEF Listed
  <1> DEFINE n == Len(s)
             r == s \o t
  <1>2. /\ r \in Seq(DriveEntry) /\ n \in Nat
        /\ \A i \in DOMAIN r : \/ i \in DOMAIN s /\ r[i] = s[i]
                               \/ i - n \in DOMAIN t /\ r[i] = t[i - n] /\ i \in Nat
    BY <1>1
  <1> HIDE DEF r
  <1>3. \A i \in DOMAIN r : Fits(r[i]) /\ DriveAt(r[i]) \in C \cup D
    BY <1>2 DEF Listed
  <1>4. ASSUME NEW i \in DOMAIN r, NEW j \in DOMAIN r, DriveAt(r[i]) = DriveAt(r[j]) PROVE i = j
    <2>1. CASE i \in DOMAIN s /\ r[i] = s[i] /\ j \in DOMAIN s /\ r[j] = s[j]
      BY <1>4, <2>1 DEF Listed
    <2>2. CASE i - n \in DOMAIN t /\ r[i] = t[i - n] /\ i \in Nat /\ j - n \in DOMAIN t /\ r[j] = t[j - n] /\ j \in Nat
      <3>1. i - n = j - n
        BY <1>4, <2>2 DEF Listed
      <3> QED BY <1>2, <2>2, <3>1
    <2>3. CASE i \in DOMAIN s /\ r[i] = s[i] /\ j - n \in DOMAIN t /\ r[j] = t[j - n]
      BY <1>4, <2>3 DEF Listed
    <2>4. CASE i - n \in DOMAIN t /\ r[i] = t[i - n] /\ j \in DOMAIN s /\ r[j] = s[j]
      BY <1>4, <2>4 DEF Listed
    <2> QED BY <1>2, <2>1, <2>2, <2>3, <2>4
  <1>5. Listed(r, C \cup D)
    BY <1>2, <1>3, <1>4 DEF Listed
  <1> QED BY <1>5 DEF r

LEMMA DrivesDetected == TapeInv /\ tape_ata_init => TapeInv'
  <1> SUFFICES ASSUME TapeInv, tape_ata_init PROVE TapeInv'
    OBVIOUS
  <1>1. PICK late : tp_table' = ata_detect(0, 0, <<0, 0>> \in late) \o ata_detect(0, 1, <<0, 1>> \in late)
                       \o ata_detect(1, 0, <<1, 0>> \in late) \o ata_detect(1, 1, <<1, 1>> \in late)
    BY DEF tape_ata_init
  <1> DEFINE d(c, p) == ata_detect(c, p, <<c, p>> \in late)
  <1>2. \A c, p \in {0, 1} : Listed(d(c, p), {<<c, p>>})
    BY OneDetected
  <1> HIDE DEF d
  <1>3. Listed(d(0, 0) \o d(0, 1), {<<0, 0>>, <<0, 1>>})
    <2>1. Listed(d(0, 0) \o d(0, 1), {<<0, 0>>} \cup {<<0, 1>>})
      BY <1>2, BothListed
    <2>2. {<<0, 0>>} \cup {<<0, 1>>} = {<<0, 0>>, <<0, 1>>}
      OBVIOUS
    <2> QED BY <2>1, <2>2
  <1>4. Listed(d(0, 0) \o d(0, 1) \o d(1, 0), {<<0, 0>>, <<0, 1>>} \cup {<<1, 0>>})
    BY <1>2, <1>3, BothListed
  <1>5. Listed(d(0, 0) \o d(0, 1) \o d(1, 0) \o d(1, 1), ({<<0, 0>>, <<0, 1>>} \cup {<<1, 0>>}) \cup {<<1, 1>>})
    <2>1. ({<<0, 0>>, <<0, 1>>} \cup {<<1, 0>>}) \cap {<<1, 1>>} = {}
      OBVIOUS
    <2> QED BY <1>2, <1>4, <2>1, BothListed
  <1>6. ({<<0, 0>>, <<0, 1>>} \cup {<<1, 0>>}) \cup {<<1, 1>>} = Channels
    BY DEF Channels
  <1>7. Listed(tp_table', Channels)
    BY <1>1, <1>5, <1>6 DEF d
  <1>8. tp_sel' \in [{0, 1} -> {0, 1}] /\ UNCHANGED <<tp_disk, tp_want, tp_far, tp_read>>
    BY DEF tape_ata_init
  <1>9. Listed(tp_table, Channels)'
    BY <1>7 DEF Listed, Fits, DriveAt, DriveEntry, Channels
  <1>10. Media' = Media
    OBVIOUS
  <1> HIDE DEF Listed, Media
  <1> QED BY <1>8, <1>9, <1>10 DEF TapeInv

\* The drive a call finds.
LEMMA DriveFound ==
  ASSUME TapeInv, NEW d \in Channels, NEW e \in FindDrive(d[1], d[2])
  PROVE  e \in DriveEntry /\ DriveAt(e) = d /\ Fits(e)
  <1> DEFINE S == {i \in DOMAIN tp_table : tp_table[i].chan = d[1] /\ tp_table[i].pos = d[2]}
  <1>1. tp_table \in Seq(DriveEntry) /\ \A i \in DOMAIN tp_table : Fits(tp_table[i])
    BY DEF TapeInv, Listed
  <1>2. S # {} /\ e = tp_table[CHOOSE i \in S : \A j \in S : i <= j]
    BY DEF FindDrive
  <1>3. S \subseteq Nat
    BY <1>1
  <1>4. PICK i \in S : e = tp_table[i]
    <2> HIDE DEF S
    <2> QED BY <1>2, <1>3, SmallestOf
  <1>5. e \in DriveEntry /\ Fits(e) /\ e.chan = d[1] /\ e.pos = d[2]
    BY <1>1, <1>4
  <1> QED BY <1>5 DEF DriveAt, Channels

\* The sectors a transfer did, when their numbers fit.
LEMMA SectorsDone ==
  ASSUME NEW e, NEW l \in Nat, NEW n \in Nat, NEW k \in Done(e, l, n), FarCall(e, l, k), ~tp_far'
  PROVE  /\ ~tp_far /\ k \in Nat
         /\ \A i \in 0 .. k - 1 : SectorOf(e, l + i) = l + i /\ l + i \in 0 .. TP_CAP - 1
  <1>1. ~tp_far /\ \A i \in 0 .. k - 1 : SectorOf(e, l + i) = l + i
    BY DEF FarCall
  <1>2. k \in 0 .. n /\ \A i \in 0 .. k - 1 : SectorOf(e, l + i) < TP_CAP
    <2>1. k \in 0 .. n /\ \A i \in 0 .. k - 1 : SectorOf(e, l + i) < TP_CAP
      BY DEF Done
    <2> QED BY <2>1
  <1>3. TP_CAP \in Nat
    BY TPAssumption
  <1> HIDE DEF SectorOf
  <1> QED BY <1>1, <1>2, <1>3

LEMMA ReadKept ==
  ASSUME TapeInv, NEW d \in Channels, NEW e \in FindDrive(d[1], d[2]), NEW l \in Nat, NEW n \in Nat, ReadTransfer(e, l, n)
  PROVE  TapeInv'
  <1>1. e \in DriveEntry /\ DriveAt(e) = <<e.chan, e.pos>> /\ DriveAt(e) \in Channels
    BY DriveFound DEF DriveAt
  <1>2. /\ tp_sel' = [tp_sel EXCEPT ![e.chan] = e.pos] /\ tp_sel \in [{0, 1} -> {0, 1}]
        /\ UNCHANGED <<tp_table, tp_disk, tp_want>>
    BY DEF ReadTransfer, Select, TapeInv
  <1>3. tp_sel' \in [{0, 1} -> {0, 1}] /\ tp_sel'[e.chan] = e.pos
    BY <1>1, <1>2 DEF DriveEntry
  <1> DEFINE got(k) == [i \in 1 .. k |-> tp_disk[<<e.chan, tp_sel'[e.chan]>>][SectorOf(e, l + i - 1)]]
             due(k) == [i \in 1 .. k |-> IF l + i - 1 < TP_CAP THEN tp_want[DriveAt(e)][l + i - 1] ELSE 0]
  <1>4. PICK k \in Done(e, l, n) : tp_read' = [drive |-> DriveAt(e), lba |-> l, got |-> got(k), due |-> due(k)] /\ FarCall(e, l, k)
    BY DEF ReadTransfer
  <1>5. ASSUME ~tp_far' PROVE tp_disk = tp_want /\ tp_disk \in Media /\ got(k) = due(k)
    <2>1. /\ ~tp_far /\ k \in Nat
          /\ \A i \in 0 .. k - 1 : SectorOf(e, l + i) = l + i /\ l + i \in 0 .. TP_CAP - 1
      BY <1>4, <1>5, SectorsDone
    <2>2. tp_disk = tp_want /\ tp_disk \in Media
      BY <2>1 DEF TapeInv
    <2>3. ASSUME NEW i \in 1 .. k
          PROVE  tp_disk[<<e.chan, tp_sel'[e.chan]>>][SectorOf(e, l + i - 1)] = IF l + i - 1 < TP_CAP THEN tp_want[DriveAt(e)][l + i - 1] ELSE 0
      <3>1. i - 1 \in 0 .. k - 1 /\ l + (i - 1) = l + i - 1
        BY <2>1
      <3>2. SectorOf(e, l + i - 1) = l + i - 1 /\ l + i - 1 < TP_CAP
        <4>1. SectorOf(e, l + (i - 1)) = l + (i - 1) /\ l + (i - 1) \in 0 .. TP_CAP - 1
          BY <2>1, <3>1
        <4>2. TP_CAP \in Nat
          BY TPAssumption
        <4> HIDE DEF SectorOf
        <4> QED BY <3>1, <4>1, <4>2
      <3> QED BY <1>1, <1>3, <2>2, <3>2
    <2> QED BY <2>2, <2>3
  <1> HIDE DEF got, due
  <1>6. tp_read'.got = got(k) /\ tp_read'.due = due(k)
    BY <1>4
  <1>7. Listed(tp_table, Channels)' /\ Media' = Media
    <2>1. Listed(tp_table, Channels)
      BY DEF TapeInv
    <2> QED BY <1>2, <2>1
  <1> HIDE DEF Media, Listed
  <1> QED BY <1>2, <1>3, <1>5, <1>6, <1>7 DEF TapeInv

LEMMA WriteKept ==
  ASSUME TapeInv, NEW d \in Channels, NEW e \in FindDrive(d[1], d[2]), NEW l \in Nat, NEW n \in Nat,
         NEW data \in [1 .. n -> TP_DATA], WriteTransfer(e, l, n, data)
  PROVE  TapeInv'
  <1>1. e \in DriveEntry /\ DriveAt(e) = <<e.chan, e.pos>> /\ DriveAt(e) \in Channels
    BY DriveFound DEF DriveAt
  <1>2. /\ tp_sel' = [tp_sel EXCEPT ![e.chan] = e.pos] /\ tp_sel \in [{0, 1} -> {0, 1}]
        /\ UNCHANGED <<tp_table, tp_read>>
    BY DEF WriteTransfer, Select, TapeInv
  <1>3. tp_sel' \in [{0, 1} -> {0, 1}] /\ tp_sel'[e.chan] = e.pos
    BY <1>1, <1>2 DEF DriveEntry
  <1> DEFINE p == DriveAt(e)
             hit(k, a) == \E i \in 0 .. k - 1 : SectorOf(e, l + i) = a
             at(k, a) == 1 + CHOOSE i \in 0 .. k - 1 : SectorOf(e, l + i) = a /\ \A j \in i + 1 .. k - 1 : SectorOf(e, l + j) # a
             q == <<e.chan, tp_sel'[e.chan]>>
             old == tp_disk[q]
             new(k) == [a \in DOMAIN old |-> IF hit(k, a) THEN data[at(k, a)] ELSE old[a]]
             was == tp_want[p]
             due(k) == [a \in DOMAIN was |-> IF a \in l .. l + k - 1 THEN data[a - l + 1] ELSE was[a]]
  <1>4. PICK k \in Done(e, l, n) : /\ tp_disk' = [tp_disk EXCEPT ![q] = new(k)]
                                   /\ tp_want' = [tp_want EXCEPT ![p] = due(k)]
                                   /\ FarCall(e, l, k)
    BY DEF WriteTransfer
  <1>8. q = p
    BY <1>1, <1>3
  <1>5. ASSUME ~tp_far' PROVE tp_disk' = tp_want' /\ tp_disk' \in Media /\ ~tp_far
    <2>1. /\ ~tp_far /\ k \in Nat
          /\ \A i \in 0 .. k - 1 : SectorOf(e, l + i) = l + i /\ l + i \in 0 .. TP_CAP - 1
      BY <1>4, <1>5, SectorsDone
    <2>2. tp_disk = tp_want /\ tp_disk \in Media
      BY <2>1 DEF TapeInv
    <2>3. k \in 0 .. n
      BY DEF Done
    <2>4. old = was /\ old \in [0 .. TP_CAP - 1 -> TP_DATA \cup {0}] /\ p \in Channels
      BY <1>1, <1>8, <2>2 DEF Media
    <2>5. ASSUME NEW a \in 0 .. TP_CAP - 1
          PROVE  /\ hit(k, a) <=> a \in l .. l + k - 1
                 /\ hit(k, a) => at(k, a) = a - l + 1 /\ data[a - l + 1] \in TP_DATA
      <3>1. a \in Nat
        BY TPAssumption
      <3>2. ASSUME a \in l .. l + k - 1 PROVE a - l \in 0 .. k - 1 /\ SectorOf(e, l + (a - l)) = a
        <4>1. a - l \in 0 .. k - 1 /\ l + (a - l) = a
          BY <2>1, <3>1, <3>2
        <4> HIDE DEF SectorOf
        <4> QED BY <2>1, <4>1
      <3>3. \A i \in 0 .. k - 1 : SectorOf(e, l + i) = a => i = a - l /\ a \in l .. l + k - 1
        <4> HIDE DEF SectorOf
        <4> QED BY <2>1, <3>1
      <3>4. hit(k, a) <=> a \in l .. l + k - 1
        BY <3>2, <3>3
      <3>5. ASSUME hit(k, a) PROVE at(k, a) = a - l + 1 /\ data[a - l + 1] \in TP_DATA
        <4> DEFINE Q(i) == SectorOf(e, l + i) = a /\ \A j \in i + 1 .. k - 1 : SectorOf(e, l + j) # a
        <4>1. a - l \in 0 .. k - 1 /\ SectorOf(e, l + (a - l)) = a
          BY <3>2, <3>4, <3>5
        <4>2. \A j \in (a - l) + 1 .. k - 1 : SectorOf(e, l + j) # a
          <5>1. \A j \in (a - l) + 1 .. k - 1 : j \in 0 .. k - 1 /\ j # a - l
            BY <2>1, <4>1
          <5> QED BY <3>3, <5>1
        <4>3. Q(a - l) /\ \A i \in 0 .. k - 1 : Q(i) => i = a - l
          BY <3>3, <4>1, <4>2
        <4> HIDE DEF Q
        <4>4. (CHOOSE i \in 0 .. k - 1 : Q(i)) = a - l
          BY <4>1, <4>3
        <4>5. at(k, a) = 1 + (a - l)
          BY <4>4 DEF Q
        <4>6. a - l + 1 \in 1 .. n
          BY <2>1, <2>3, <3>1, <4>1
        <4> QED BY <2>1, <3>1, <4>1, <4>5, <4>6
      <3> QED BY <3>4, <3>5
    <2>6. new(k) = due(k) /\ new(k) \in [0 .. TP_CAP - 1 -> TP_DATA \cup {0}]
      <3> HIDE DEF hit, at, old, was
      <3>1. DOMAIN old = 0 .. TP_CAP - 1
        BY <2>4
      <3>2. \A a \in 0 .. TP_CAP - 1 :
              /\ (IF hit(k, a) THEN data[at(k, a)] ELSE old[a]) = IF a \in l .. l + k - 1 THEN data[a - l + 1] ELSE was[a]
              /\ (IF hit(k, a) THEN data[at(k, a)] ELSE old[a]) \in TP_DATA \cup {0}
        BY <2>4, <2>5
      <3> QED BY <2>4, <3>1, <3>2
    <2> HIDE DEF new, due, p, q
    <2> QED BY <1>4, <1>8, <2>1, <2>2, <2>4, <2>6 DEF Media
  <1>6. Listed(tp_table, Channels)' /\ Media' = Media
    <2>1. Listed(tp_table, Channels)
      BY DEF TapeInv
    <2> QED BY <1>2, <2>1
  <1>7. ~tp_far' => tp_read'.got = tp_read'.due
    BY <1>2, <1>5 DEF TapeInv
  <1> HIDE DEF Media, Listed
  <1> QED BY <1>3, <1>5, <1>6, <1>7 DEF TapeInv

LEMMA TapeInductive == TapeInv /\ [TPNext]_tpVars => TapeInv'
  <1> SUFFICES ASSUME TapeInv, [TPNext]_tpVars PROVE TapeInv'
    OBVIOUS
  <1>1. CASE tape_ata_init
    BY <1>1, DrivesDetected
  <1>2. CASE tape_call
    <2>1. DOMAIN TP_DRIVES = Channels /\ TP_LBAS \subseteq Nat /\ TP_COUNT \in Nat
      BY TPAssumption DEF Channels
    <2>2. PICK d \in Channels, l \in TP_LBAS, n \in 1 .. TP_COUNT : \E e \in FindDrive(d[1], d[2]) :
            tape_read(e, l, n) \/ \E data \in [1 .. n -> TP_DATA] : tape_write(e, l, n, data)
      BY <1>2, <2>1 DEF tape_call
    <2>3. PICK e \in FindDrive(d[1], d[2]) :
            tape_read(e, l, n) \/ \E data \in [1 .. n -> TP_DATA] : tape_write(e, l, n, data)
      BY <2>2
    <2>4. l \in Nat /\ n \in Nat
      BY <2>1
    <2>5. CASE tape_read(e, l, n)
      <3>1. ReadTransfer(e, l, n)
        BY <2>5 DEF tape_read, tape_ata_read_sectors, tape_ata_read_sectors_lba48
      <3> QED BY <2>4, <3>1, ReadKept
    <2>6. CASE \E data \in [1 .. n -> TP_DATA] : tape_write(e, l, n, data)
      <3>1. PICK data \in [1 .. n -> TP_DATA] : WriteTransfer(e, l, n, data)
        BY <2>6 DEF tape_write, tape_ata_write_sectors, tape_ata_write_sectors_lba48
      <3> QED BY <2>4, <3>1, WriteKept
    <2> QED BY <2>3, <2>5, <2>6
  <1>3. CASE UNCHANGED tpVars
    BY <1>3 DEF tpVars, TapeInv, Media, Listed, Fits, DriveAt, DriveEntry, Channels
  <1> QED BY <1>1, <1>2, <1>3 DEF TPNext

LEMMA TapeStarts == TPInit => TapeInv
  <1> SUFFICES ASSUME TPInit PROVE TapeInv
    OBVIOUS
  <1>1. Listed(<<>>, Channels)
    BY DEF Listed
  <1>2. DOMAIN TP_DRIVES = Channels
    BY TPAssumption DEF Channels
  <1>3. tp_disk \in Media
    BY <1>2 DEF TPInit, Media
  <1>4. tp_sel \in [{0, 1} -> {0, 1}]
    BY DEF TPInit
  <1> QED BY <1>1, <1>3, <1>4 DEF TPInit, TapeInv

\* A sector number below the limit fits the registers of LBA28.
LEMMA LowSectors ==
  ASSUME NEW l \in Nat, l < TP_HEAD * Low3s
  PROVE  Sector28(l) = l
  <1> DEFINE b == Low3s
             h == TP_HEAD
  <1>1. b \in Nat \ {0} /\ h \in Nat \ {0}
    <2>1. \A x, y \in Nat \ {0} : x * y \in Nat \ {0}
      OBVIOUS
    <2> QED BY <2>1, TPAssumption DEF Low3s
  <1> HIDE DEF b, h
  <1>2. l < b * h
    <2>1. b * h = h * b
      BY <1>1
    <2> QED BY <2>1 DEF b, h
  <1> DEFINE q == l \div b
             r == l % b
  <1>3. q \in 0 .. h - 1 /\ l = b * q + r
    BY <1>1, <1>2, QuotientBelow
  <1>4. r \in Nat
    BY <1>1
  <1>7. Sector28(l) = r + b * (q % h)
    BY DEF Sector28, Low3, b, h
  <1> HIDE DEF q, r
  <1>5. q % h = q
    BY <1>1, <1>3
  <1>6. b * q \in Nat
    BY <1>1, <1>3
  <1> QED BY <1>3, <1>4, <1>5, <1>6, <1>7

LEMMA TapeSound == TapeInv => SectorsKept
  <1> SUFFICES ASSUME TapeInv PROVE SectorsKept
    OBVIOUS
  <1>1. \A i \in DOMAIN tp_table : Fits(tp_table[i])
    BY DEF TapeInv, Listed
  <1>2. \A i, j \in DOMAIN tp_table : DriveAt(tp_table[i]) = DriveAt(tp_table[j]) => i = j
    BY DEF TapeInv, Listed
  <1>3. \A i \in DOMAIN tp_table : tp_sel[tp_table[i].chan] = tp_table[i].pos => tape_ata_identify(tp_table[i]) = TP_DRIVES[DriveAt(tp_table[i])]
    BY DEF tape_ata_identify, DriveAt
  <1>4. \A i \in DOMAIN tp_table : ~tp_table[i].lba48 => \A l \in TP_LBAS : l < TP_HEAD * Low3s => SectorOf(tp_table[i], l) = l
    BY LowSectors, TPAssumption DEF SectorOf
  <1> QED BY <1>1, <1>2, <1>3, <1>4 DEF SectorsKept, TapeInv, Fits

(***************************************************************************)
(* SectorsKept for every set of drives, size of the registers and order of *)
(* detections and transfers, whichever of them a drive ends half way.      *)
(***************************************************************************)
THEOREM SectorsHoldWrites == TPSpec => []SectorsKept
  BY TapeStarts, TapeSound, TapeInductive, PTL DEF TPSpec

-----------------------------------------------------------------------------
(***************************************************************************)
(* BrainVFS and the tables of BrainFS.  FilesKept is not inductive: a      *)
(* handle stays with one descriptor because a file system answers with one *)
(* that is free and because, as long as mounts go from the last, the slot  *)
(* a mount is put in is no descriptor's; and an entry keeps its value      *)
(* because entry c of a table of width w is the bits from w * c, at every  *)
(* width.                                                                  *)
(***************************************************************************)
MountSlot == [active : BOOLEAN, path : Seq(STRING), ops : Nat]
FdSlot == [used : BOOLEAN, id : Nat, read : BOOLEAN, write : BOOLEAN, pos : Nat, mount : 1 .. SV_MOUNTS, handle : Int]
UsedFds == {f \in DOMAIN sv_fds : sv_fds[f].used}
OpenFds == {f \in UsedFds : sv_fds[f].handle >= 0}
HandleOf(f) == <<sv_mounts[sv_fds[f].mount].ops, sv_fds[f].handle>>
OwnHandles ==
  /\ sv_open = {HandleOf(f) : f \in OpenFds}
  /\ \A f \in OpenFds, g \in UsedFds : f # g => HandleOf(f) # HandleOf(g)

VfsTypes ==
  /\ sv_mounts \in [1 .. SV_MOUNTS -> MountSlot] /\ sv_count \in 0 .. SV_MOUNTS
  /\ sv_fds \in [1 .. SV_FDS -> FdSlot] /\ sv_next \in Nat
  /\ sv_gap \in BOOLEAN /\ IsFiniteSet(sv_open)
VfsFds ==
  /\ sv_fdcount = Cardinality(UsedFds)
  /\ \A f \in UsedFds : sv_fds[f].id < sv_next /\ sv_mounts[sv_fds[f].mount].active
  /\ \A f, g \in UsedFds : sv_fds[f].id = sv_fds[g].id => f = g
VfsOrder == ~sv_gap => (\A i \in 1 .. SV_MOUNTS : sv_mounts[i].active <=> i <= sv_count) /\ OwnHandles
VfsInv == VfsTypes /\ VfsFds /\ VfsOrder

LEMMA LargestOf ==
  ASSUME NEW T, T \subseteq Nat, T # {}, NEW b \in Nat, \A y \in T : y <= b
  PROVE  \E x \in T : \A y \in T : y <= x
  <1> DEFINE R == {b - y : y \in T}
  <1>1. R \subseteq Nat /\ R # {}
    <2>1. \A y \in T : b - y \in Nat
      OBVIOUS
    <2> QED BY <2>1
  <1>2. PICK r \in R : \A z \in R : r <= z
    <2> HIDE DEF R
    <2> QED BY <1>1, SmallestOf
  <1>3. PICK x \in T : r = b - x
    OBVIOUS
  <1>4. \A y \in T : b - x <= b - y
    BY <1>2, <1>3
  <1>5. \A y \in T : y <= x
    BY <1>3, <1>4
  <1> QED BY <1>5

LEMMA DepthBounded ==
  ASSUME NEW p \in Seq(STRING)
  PROVE  vfs_path_depth(p) \in Nat /\ vfs_path_depth(p) <= Len(p)
  <1> DEFINE S == {i \in DOMAIN p : p[i] = "/"}
  <1>1. S \subseteq 1 .. Len(p) /\ Len(p) \in Nat
    OBVIOUS
  <1>2. IsFiniteSet(1 .. Len(p)) /\ Cardinality(1 .. Len(p)) = Len(p)
    BY <1>1, FS_Interval
  <1> HIDE DEF S
  <1>3. IsFiniteSet(S) /\ Cardinality(S) <= Len(p)
    BY <1>1, <1>2, FS_Subset
  <1>4. Cardinality(S) \in Nat
    BY <1>3, FS_CardinalityType
  <1> QED BY <1>3, <1>4 DEF S, vfs_path_depth

\* The mount a path leads to.
LEMMA MountFound ==
  ASSUME VfsTypes, NEW p \in Seq(STRING), vfs_get_mount(p) # 0
  PROVE  /\ vfs_get_mount(p) \in 1 .. sv_count /\ vfs_get_mount(p) \in 1 .. SV_MOUNTS
         /\ sv_mounts[vfs_get_mount(p)].active /\ SvStarts(p, sv_mounts[vfs_get_mount(p)].path)
  <1> DEFINE depth(i) == vfs_path_depth(sv_mounts[i].path)
             S == {i \in 1 .. sv_count : sv_mounts[i].active /\ SvStarts(p, sv_mounts[i].path)}
             D == {i \in S : \A j \in S : depth(j) <= depth(i)}
             T == {depth(i) : i \in S}
  <1>1. S # {} /\ vfs_get_mount(p) = CHOOSE i \in D : \A j \in D : j <= i
    BY DEF vfs_get_mount
  <1>2. S \subseteq 1 .. sv_count /\ sv_count \in Nat /\ 1 .. sv_count \subseteq 1 .. SV_MOUNTS
    BY SVAssumption DEF VfsTypes
  <1>3. \A i \in S : depth(i) \in Nat /\ depth(i) <= Len(p)
    <2> SUFFICES ASSUME NEW i \in S PROVE depth(i) \in Nat /\ depth(i) <= Len(p)
      OBVIOUS
    <2>1. sv_mounts[i].path \in Seq(STRING)
      BY <1>2 DEF VfsTypes, MountSlot
    <2>2. Len(sv_mounts[i].path) <= Len(p) /\ Len(p) \in Nat /\ Len(sv_mounts[i].path) \in Nat
      BY <2>1 DEF SvStarts
    <2>3. depth(i) \in Nat /\ depth(i) <= Len(sv_mounts[i].path)
      BY <2>1, DepthBounded
    <2> QED BY <2>2, <2>3
  <1> HIDE DEF depth, S
  <1>4. PICK x \in T : \A y \in T : y <= x
    <2>1. T \subseteq Nat /\ T # {} /\ Len(p) \in Nat /\ \A y \in T : y <= Len(p)
      BY <1>1, <1>3
    <2> HIDE DEF T
    <2> QED BY <2>1, LargestOf
  <1>5. D # {} /\ D \subseteq Nat /\ \A i \in D : i <= sv_count
    <2>1. PICK i \in S : x = depth(i)
      OBVIOUS
    <2>2. \A j \in S : depth(j) \in T
      OBVIOUS
    <2>3. i \in D
      BY <1>4, <2>1, <2>2
    <2>4. D \subseteq S
      OBVIOUS
    <2> HIDE DEF D
    <2> QED BY <1>2, <2>3, <2>4
  <1>6. vfs_get_mount(p) \in D
    <2> HIDE DEF D
    <2>1. \E i \in D : \A j \in D : j <= i
      BY <1>2, <1>5, LargestOf
    <2> QED BY <1>1, <2>1
  <1>7. vfs_get_mount(p) \in S
    BY <1>6
  <1> QED BY <1>2, <1>7 DEF S

\* What a file system is given of a path.
LEMMA RestOfPath ==
  ASSUME NEW p \in Seq(STRING), NEW path \in Seq(STRING), SvStarts(p, path), sv_mounts[vfs_get_mount(p)].path = path,
         Len(p) < SV_PATH_MAX, Len(p) > Len(path), p[Len(path) + 1] = "/"
  PROVE  path \o <<"/">> \o vfs_resolve_path(p) = p
  <1> DEFINE m == Len(path)
             n == Len(p)
             rest == SubSeq(p, m + 1, n)
  <1>1. m \in Nat /\ n \in Nat /\ m < n /\ n < SV_PATH_MAX /\ SV_PATH_MAX \in Nat
    BY SVAssumption
  <1>2. rest \in Seq(STRING) /\ Len(rest) = n - m /\ \A i \in 1 .. n - m : rest[i] = p[m + i]
    BY <1>1
  <1>3. SubSeq(rest, 1, Len(rest)) = rest
    BY <1>2
  <1>4. rest # <<>> /\ rest[1] = "/"
    <2> HIDE DEF rest
    <2>1. 1 \in 1 .. n - m /\ Len(rest) # 0
      BY <1>1, <1>2
    <2> QED BY <1>1, <1>2, <2>1
  <1>5. vfs_resolve_path(p) = Tail(rest)
    BY <1>1, <1>2, <1>3, <1>4 DEF vfs_resolve_path
  <1>6. SubSeq(p, 1, m) = path
    BY DEF SvStarts
  <1>7. \A i \in 1 .. m : path[i] = p[i]
    BY <1>1, <1>6
  <1> DEFINE t == Tail(rest)
  <1>8. t \in Seq(STRING) /\ Len(t) = n - m - 1 /\ \A i \in 1 .. n - m - 1 : t[i] = p[m + i + 1]
    <2> HIDE DEF rest
    <2>1. t \in Seq(STRING) /\ Len(t) = n - m - 1 /\ \A i \in 1 .. n - m - 1 : t[i] = rest[i + 1]
      BY <1>1, <1>2, <1>4
    <2> QED BY <1>1, <1>2, <2>1
  <1> HIDE DEF t
  <1> DEFINE q == path \o <<"/">>
  <1>11. q \in Seq(STRING) /\ Len(q) = m + 1 /\ q[m + 1] = "/" /\ \A i \in 1 .. m : q[i] = path[i]
    BY <1>1
  <1> HIDE DEF q
  <1> HIDE DEF rest
  <1>12. q \o t \in Seq(STRING) /\ Len(q \o t) = n /\ \A i \in 1 .. n : (q \o t)[i] = IF i <= m + 1 THEN q[i] ELSE t[i - (m + 1)]
    <2>1. Len(q) + Len(t) = n
      BY <1>1, <1>8, <1>11
    <2> QED BY <1>8, <1>11, <2>1, ConcatProperties
  <1> HIDE DEF m, n
  <1>13. ASSUME NEW i \in 1 .. n PROVE (q \o t)[i] = p[i]
    <2>0. (q \o t)[i] = IF i <= m + 1 THEN q[i] ELSE t[i - (m + 1)]
      BY <1>12
    <2>1. CASE i <= m
      BY <1>1, <1>7, <1>11, <2>0, <2>1
    <2>2. CASE i = m + 1
      <3>1. p[m + 1] = "/"
        BY DEF m
      <3> QED BY <1>1, <1>11, <2>0, <2>2, <3>1
    <2>3. CASE i > m + 1
      <3>1. i - (m + 1) \in 1 .. n - m - 1 /\ m + (i - (m + 1)) + 1 = i /\ ~(i <= m + 1)
        BY <1>1, <2>3
      <3>2. t[i - (m + 1)] = p[m + (i - (m + 1)) + 1]
        BY <1>8, <3>1
      <3> QED BY <2>0, <3>1, <3>2
    <2>4. i <= m \/ i = m + 1 \/ i > m + 1
      BY <1>1
    <2> QED BY <2>1, <2>2, <2>3, <2>4
  <1>14. q \o t = p
    <2>1. Len(p) = n
      BY DEF n
    <2> QED BY <1>12, <1>13, <2>1, SeqEqual
  <1> QED BY <1>5, <1>14 DEF q, t, rest, m, n

\* The descriptors in use are finitely many.
LEMMA UsedCounted ==
  ASSUME VfsTypes
  PROVE  /\ UsedFds \subseteq 1 .. SV_FDS /\ IsFiniteSet(UsedFds)
         /\ \A F \in SUBSET UsedFds : IsFiniteSet(F) /\ Cardinality(F) \in Nat
  <1>1. UsedFds \subseteq 1 .. SV_FDS
    BY DEF VfsTypes, UsedFds
  <1>2. IsFiniteSet(1 .. SV_FDS)
    BY SVAssumption, FS_Interval
  <1> QED BY <1>1, <1>2, FS_Subset, FS_CardinalityType

\* Descriptors are closed; the mounts may lose their mark.
LEMMA ClosedAll ==
  ASSUME VfsInv, NEW F \in SUBSET UsedFds, CloseAll(F),
         sv_mounts' \in [1 .. SV_MOUNTS -> MountSlot],
         \A i \in 1 .. SV_MOUNTS : sv_mounts'[i].ops = sv_mounts[i].ops
  PROVE  /\ sv_fds' \in [1 .. SV_FDS -> FdSlot] /\ IsFiniteSet(sv_open')
         /\ UsedFds' = UsedFds \ F /\ sv_fdcount' = Cardinality(UsedFds')
         /\ \A f \in UsedFds' : sv_fds'[f] = sv_fds[f]
         /\ OwnHandles => OwnHandles'
  <1>1. /\ sv_fds \in [1 .. SV_FDS -> FdSlot] /\ IsFiniteSet(sv_open)
        /\ sv_mounts \in [1 .. SV_MOUNTS -> MountSlot]
        /\ sv_fdcount = Cardinality(UsedFds)
    BY DEF VfsInv, VfsTypes, VfsFds
  <1>2. sv_fds' = [f \in 1 .. SV_FDS |-> IF f \in F THEN [sv_fds[f] EXCEPT !.used = FALSE] ELSE sv_fds[f]]
    BY <1>1 DEF CloseAll
  <1>3. \A f \in 1 .. SV_FDS : sv_fds[f] \in FdSlot /\ [sv_fds[f] EXCEPT !.used = FALSE] \in FdSlot /\ [sv_fds[f] EXCEPT !.used = FALSE].used = FALSE
    BY <1>1 DEF FdSlot
  <1>4. sv_fds' \in [1 .. SV_FDS -> FdSlot]
    BY <1>2, <1>3
  <1>5. UsedFds' = UsedFds \ F /\ \A f \in UsedFds' : sv_fds'[f] = sv_fds[f]
    <2>1. F \subseteq 1 .. SV_FDS
      BY <1>1 DEF UsedFds
    <2>2. \A f \in 1 .. SV_FDS : sv_fds'[f].used <=> sv_fds[f].used /\ f \notin F
      BY <1>2, <1>3
    <2>3. UsedFds' = {f \in 1 .. SV_FDS : sv_fds'[f].used} /\ UsedFds = {f \in 1 .. SV_FDS : sv_fds[f].used}
      BY <1>1, <1>4 DEF UsedFds
    <2>4. UsedFds' = UsedFds \ F
      BY <2>2, <2>3
    <2> QED BY <1>2, <2>3, <2>4
  <1>6. sv_fdcount' = Cardinality(UsedFds')
    <2>1. VfsTypes
      BY DEF VfsInv
    <2>2. IsFiniteSet(UsedFds) /\ IsFiniteSet(F) /\ IsFiniteSet(UsedFds \ F)
      BY <2>1, UsedCounted
    <2>3. Cardinality(F \cup (UsedFds \ F)) = Cardinality(F) + Cardinality(UsedFds \ F) - Cardinality(F \cap (UsedFds \ F))
      BY <2>2, FS_Union
    <2>4. F \cup (UsedFds \ F) = UsedFds /\ F \cap (UsedFds \ F) = {}
      OBVIOUS
    <2>5. Cardinality(F) \in Nat /\ Cardinality(UsedFds \ F) \in Nat
      BY <2>1, UsedCounted
    <2>8. Cardinality(F \cap (UsedFds \ F)) = 0
      BY <2>4, FS_EmptySet
    <2>6. Cardinality(UsedFds) = Cardinality(F) + Cardinality(UsedFds \ F)
      <3>1. Cardinality(UsedFds) = Cardinality(F) + Cardinality(UsedFds \ F) - Cardinality(F \cap (UsedFds \ F))
        BY <2>3, <2>4
      <3> QED BY <2>5, <2>8, <3>1
    <2>7. sv_fdcount' = sv_fdcount - Cardinality(F)
      BY DEF CloseAll
    <2> QED BY <1>1, <1>5, <2>5, <2>6, <2>7
  <1>7. sv_open' = sv_open \ {HandleOf(f) : f \in F}
    BY DEF CloseAll, Handles, HandleOf
  <1>8. IsFiniteSet(sv_open')
    BY <1>1, <1>7, FS_Subset
  <1>9. \A f \in UsedFds' : HandleOf(f)' = HandleOf(f)
    BY <1>1, <1>4, <1>5 DEF HandleOf, FdSlot, UsedFds
  <1>10. OpenFds' = OpenFds \ F
    BY <1>5 DEF OpenFds
  <1>11. ASSUME OwnHandles PROVE OwnHandles'
    <2>1. sv_open = {HandleOf(f) : f \in OpenFds} /\ \A f \in OpenFds, g \in UsedFds : f # g => HandleOf(f) # HandleOf(g)
      BY <1>11 DEF OwnHandles
    <2>2. OpenFds \subseteq UsedFds /\ OpenFds' \subseteq UsedFds'
      BY DEF OpenFds
    <2>3. sv_open' = {HandleOf(f) : f \in OpenFds'}
      BY <1>7, <1>10, <2>1, <2>2
    <2>4. {HandleOf(f) : f \in OpenFds'} = {HandleOf(f)' : f \in OpenFds'}
      BY <1>9, <2>2
    <2>5. \A f \in OpenFds', g \in UsedFds' : f # g => HandleOf(f)' # HandleOf(g)'
      BY <1>5, <1>9, <1>10, <2>1, <2>2
    <2> QED BY <2>3, <2>4, <2>5 DEF OwnHandles
  <1> QED BY <1>4, <1>5, <1>6, <1>8, <1>11

\* The descriptor with a number.
LEMMA FdFound ==
  ASSUME VfsTypes, NEW id
  PROVE  \A f \in vfs_get_fd(id) : f \in UsedFds /\ sv_fds[f].id = id
  <1> DEFINE S == {f \in DOMAIN sv_fds : sv_fds[f].used /\ sv_fds[f].id = id}
  <1>1. S \subseteq Nat
    BY DEF VfsTypes
  <1>2. \A f \in vfs_get_fd(id) : S # {} /\ f = LeastOf(S)
    BY DEF vfs_get_fd
  <1>3. S # {} => LeastOf(S) \in S
    <2> HIDE DEF S
    <2> QED BY <1>1, SmallestOf DEF LeastOf
  <1> QED BY <1>2, <1>3 DEF UsedFds

LEMMA CloseKept ==
  ASSUME VfsInv, NEW id, vfs_close(id)
  PROVE  VfsInv'
  <1>1. /\ CloseAll(vfs_get_fd(id)) /\ UNCHANGED <<sv_mounts, sv_count, sv_next, sv_gap>>
        /\ VfsTypes
    BY DEF vfs_close, VfsInv
  <1>2. vfs_get_fd(id) \in SUBSET UsedFds
    BY <1>1, FdFound
  <1>3. sv_mounts' \in [1 .. SV_MOUNTS -> MountSlot] /\ \A i \in 1 .. SV_MOUNTS : sv_mounts'[i].ops = sv_mounts[i].ops
    BY <1>1 DEF VfsTypes
  <1>4. /\ sv_fds' \in [1 .. SV_FDS -> FdSlot] /\ IsFiniteSet(sv_open')
        /\ UsedFds' = UsedFds \ vfs_get_fd(id) /\ sv_fdcount' = Cardinality(UsedFds')
        /\ \A f \in UsedFds' : sv_fds'[f] = sv_fds[f]
        /\ OwnHandles => OwnHandles'
    BY <1>1, <1>2, <1>3, ClosedAll
  <1>5. VfsTypes'
    BY <1>1, <1>4 DEF VfsTypes
  <1>6. VfsFds'
    <2>1. VfsFds
      BY DEF VfsInv
    <2> QED BY <1>1, <1>4, <2>1 DEF VfsFds
  <1>7. VfsOrder'
    <2>1. VfsOrder
      BY DEF VfsInv
    <2> QED BY <1>1, <1>4, <2>1 DEF VfsOrder
  <1> QED BY <1>5, <1>6, <1>7 DEF VfsInv

LEMMA UmountKept ==
  ASSUME VfsInv, NEW path, vfs_umount(path)
  PROVE  VfsInv'
  <1> DEFINE F(i) == {f \in DOMAIN sv_fds : sv_fds[f].used /\ sv_fds[f].mount = i}
  <1>1. PICK i \in 1 .. sv_count :
          /\ CloseAll(F(i)) /\ sv_mounts' = [sv_mounts EXCEPT ![i].active = FALSE]
          /\ sv_count' = sv_count - 1 /\ sv_gap' = (sv_gap \/ i < sv_count) /\ sv_next' = sv_next
    BY DEF vfs_umount
  <1>2. F(i) \in SUBSET UsedFds
    BY DEF UsedFds
  <1>3. VfsTypes /\ VfsFds /\ VfsOrder
    BY DEF VfsInv
  <1>4. /\ sv_mounts \in [1 .. SV_MOUNTS -> MountSlot] /\ sv_count \in 0 .. SV_MOUNTS /\ SV_MOUNTS \in Nat
        /\ i \in 1 .. SV_MOUNTS /\ i \in Nat
    BY <1>3, SVAssumption DEF VfsTypes
  <1>5. /\ sv_mounts' \in [1 .. SV_MOUNTS -> MountSlot] /\ ~sv_mounts'[i].active
        /\ \A j \in 1 .. SV_MOUNTS : sv_mounts'[j].ops = sv_mounts[j].ops
        /\ \A j \in 1 .. SV_MOUNTS : j # i => sv_mounts'[j] = sv_mounts[j]
    BY <1>1, <1>4 DEF MountSlot
  <1>6. /\ sv_fds' \in [1 .. SV_FDS -> FdSlot] /\ IsFiniteSet(sv_open')
        /\ UsedFds' = UsedFds \ F(i) /\ sv_fdcount' = Cardinality(UsedFds')
        /\ \A f \in UsedFds' : sv_fds'[f] = sv_fds[f]
        /\ OwnHandles => OwnHandles'
    <2> HIDE DEF F
    <2> QED BY <1>1, <1>2, <1>5, ClosedAll
  <1>7. \A f \in UsedFds' : f \in UsedFds /\ sv_fds[f].mount # i /\ sv_fds[f].mount \in 1 .. SV_MOUNTS
    BY <1>3, <1>6 DEF UsedFds, VfsTypes, FdSlot
  <1> HIDE DEF F
  <1>8. VfsTypes'
    <2>1. sv_count' \in 0 .. SV_MOUNTS
      BY <1>1, <1>4
    <2>2. sv_gap' \in BOOLEAN /\ sv_next' \in Nat
      BY <1>1, <1>3 DEF VfsTypes
    <2> QED BY <1>5, <1>6, <2>1, <2>2 DEF VfsTypes
  <1>9. VfsFds'
    BY <1>1, <1>3, <1>5, <1>6, <1>7 DEF VfsFds
  <1>10. VfsOrder'
    <2> SUFFICES ASSUME ~sv_gap' PROVE (\A j \in 1 .. SV_MOUNTS : sv_mounts'[j].active <=> j <= sv_count') /\ OwnHandles'
      BY DEF VfsOrder
    <2>1. ~sv_gap /\ i = sv_count
      <3>1. ~sv_gap /\ ~(i < sv_count)
        BY <1>1, Zenon
      <3> QED BY <1>4, <3>1
    <2>2. (\A j \in 1 .. SV_MOUNTS : sv_mounts[j].active <=> j <= sv_count) /\ OwnHandles
      BY <1>3, <2>1 DEF VfsOrder
    <2>3. ASSUME NEW j \in 1 .. SV_MOUNTS PROVE sv_mounts'[j].active <=> j <= sv_count'
      BY <1>1, <1>4, <1>5, <2>1, <2>2
    <2> QED BY <1>6, <2>2, <2>3
  <1> QED BY <1>8, <1>9, <1>10 DEF VfsInv

LEMMA MountKept ==
  ASSUME VfsInv, NEW path \in Seq(STRING), NEW ops \in Nat, vfs_mount(path, ops)
  PROVE  VfsInv'
  <1> DEFINE i == sv_count + 1
             s == sv_mounts[i]
             new == [active |-> TRUE, path |-> path, ops |-> IF ops = 0 THEN s.ops ELSE ops]
  <1>1. VfsTypes /\ VfsFds /\ VfsOrder
    BY DEF VfsInv
  <1>2. /\ sv_count < SV_MOUNTS /\ sv_mounts' = [sv_mounts EXCEPT ![i] = new] /\ sv_count' = i
        /\ UNCHANGED <<sv_fds, sv_fdcount, sv_next, sv_open, sv_gap>>
    BY DEF vfs_mount
  <1>3. /\ sv_mounts \in [1 .. SV_MOUNTS -> MountSlot] /\ sv_count \in Nat /\ SV_MOUNTS \in Nat /\ i \in 1 .. SV_MOUNTS
        /\ sv_fds \in [1 .. SV_FDS -> FdSlot]
    BY <1>1, <1>2, SVAssumption DEF VfsTypes
  <1>4. new \in MountSlot /\ new.active
    BY <1>3 DEF MountSlot
  <1> HIDE DEF new
  <1>5. /\ sv_mounts' \in [1 .. SV_MOUNTS -> MountSlot] /\ sv_mounts'[i].active
        /\ \A j \in 1 .. SV_MOUNTS : j # i => sv_mounts'[j] = sv_mounts[j]
    BY <1>2, <1>3, <1>4
  <1>6. UsedFds' = UsedFds /\ OpenFds' = OpenFds
    BY <1>2 DEF UsedFds, OpenFds
  <1>7. \A f \in UsedFds : sv_fds[f].mount \in 1 .. SV_MOUNTS
    BY <1>3 DEF UsedFds, FdSlot
  <1>8. VfsTypes'
    BY <1>1, <1>2, <1>3, <1>5 DEF VfsTypes
  <1>9. VfsFds'
    BY <1>1, <1>2, <1>5, <1>6, <1>7 DEF VfsFds
  <1>10. ASSUME ~sv_gap PROVE (\A j \in 1 .. SV_MOUNTS : sv_mounts'[j].active <=> j <= sv_count') /\ OwnHandles'
    <2>1. (\A j \in 1 .. SV_MOUNTS : sv_mounts[j].active <=> j <= sv_count) /\ OwnHandles
      BY <1>1, <1>10 DEF VfsOrder
    <2>2. \A j \in 1 .. SV_MOUNTS : sv_mounts'[j].active <=> j <= sv_count'
      BY <1>2, <1>3, <1>5, <2>1
    <2>3. \A f \in UsedFds : sv_mounts[sv_fds[f].mount].active
      BY <1>1 DEF VfsFds
    <2>4. \A f \in UsedFds : sv_fds[f].mount # i
      BY <1>3, <1>7, <2>1, <2>3
    <2>5. \A f \in UsedFds : HandleOf(f)' = HandleOf(f)
      BY <1>2, <1>5, <1>7, <2>4 DEF HandleOf
    <2>6. OpenFds \subseteq UsedFds
      BY DEF OpenFds
    <2>7. {HandleOf(f) : f \in OpenFds} = {HandleOf(f)' : f \in OpenFds'}
      BY <1>6, <2>5, <2>6
    <2>8. OwnHandles'
      BY <1>2, <1>6, <2>1, <2>5, <2>6, <2>7 DEF OwnHandles
    <2> QED BY <2>2, <2>8
  <1> HIDE DEF i
  <1> QED BY <1>2, <1>8, <1>9, <1>10 DEF VfsInv, VfsOrder

\* A file system has a handle to answer with that is not in use.
LEMMA HandleFree ==
  ASSUME VfsTypes, NEW ops, NEW h \in Answers(ops)
  PROVE  h \in Int /\ (h >= 0 => <<ops, h>> \notin sv_open)
  <1> DEFINE n == Cardinality(sv_open)
             S == {k \in 0 .. n : <<ops, k>> \notin sv_open}
  <1>1. IsFiniteSet(sv_open) /\ n \in Nat
    BY FS_CardinalityType DEF VfsTypes
  <1>2. S # {}
    <2> SUFFICES ASSUME S = {} PROVE FALSE
      OBVIOUS
    <2> DEFINE g == [k \in 0 .. n |-> <<ops, k>>]
    <2>1. g \in Injection(0 .. n, sv_open)
      <3>1. \A k \in 0 .. n : <<ops, k>> \in sv_open
        OBVIOUS
      <3> HIDE DEF n
      <3> QED BY <3>1 DEF Injection, IsInjective
    <2>2. Cardinality(0 .. n) <= n
      BY <1>1, <2>1, FS_Injection
    <2>3. Cardinality(0 .. n) = n + 1
      <3> HIDE DEF n
      <3>1. Cardinality(0 .. n) = IF 0 > n THEN 0 ELSE n - 0 + 1
        BY <1>1, FS_Interval
      <3> QED BY <1>1, <3>1
    <2> HIDE DEF n
    <2> QED BY <1>1, <2>2, <2>3
  <1>3. S \subseteq Nat
    <2> HIDE DEF n
    <2> QED BY <1>1
  <1>4. LeastOf(S) \in S
    <2> HIDE DEF S
    <2> QED BY <1>2, <1>3, SmallestOf DEF LeastOf
  <1>5. LeastOf(S) \in Nat /\ <<ops, LeastOf(S)>> \notin sv_open
    BY <1>3, <1>4
  <1>6. h = -1 \/ h = LeastOf(S)
    BY DEF Answers
  <1> HIDE DEF S
  <1> QED BY <1>5, <1>6

LEMMA OpenKept ==
  ASSUME VfsInv, NEW p \in Seq(STRING), NEW r \in BOOLEAN, NEW w \in BOOLEAN, vfs_open(p, r, w)
  PROVE  VfsInv'
  <1> DEFINE m == vfs_get_mount(p)
             ops == sv_mounts[m].ops
  <1>1. PICK h \in Answers(ops) :
          /\ sv_open' = sv_open \cup (IF h < 0 THEN {} ELSE {<<ops, h>>})
          /\ sv_fds' = [sv_fds EXCEPT ![LeastOf(FreeFds)] = NewFd(h, m, r, w)]
    BY DEF vfs_open
  <1>2. /\ m # 0 /\ FreeFds # {} /\ sv_next' = sv_next + 1 /\ sv_fdcount' = sv_fdcount + 1
        /\ UNCHANGED <<sv_mounts, sv_count, sv_gap>>
    BY DEF vfs_open
  <1>3. VfsTypes /\ VfsFds /\ VfsOrder
    BY DEF VfsInv
  <1>4. /\ sv_fds \in [1 .. SV_FDS -> FdSlot] /\ sv_mounts \in [1 .. SV_MOUNTS -> MountSlot] /\ sv_next \in Nat
        /\ sv_gap \in BOOLEAN /\ IsFiniteSet(sv_open)
    BY <1>3 DEF VfsTypes
  <1>5. PICK k \in 1 .. SV_FDS : k = LeastOf(FreeFds) /\ ~sv_fds[k].used /\ k \notin UsedFds
    <2>1. FreeFds \subseteq Nat
      BY <1>4 DEF FreeFds
    <2>2. LeastOf(FreeFds) \in FreeFds
      BY <1>2, <2>1, SmallestOf DEF LeastOf
    <2> QED BY <1>4, <2>2 DEF FreeFds, UsedFds
  <1>6. m \in 1 .. SV_MOUNTS /\ sv_mounts[m].active
    BY <1>2, <1>3, MountFound
  <1>7. h \in Int /\ (h >= 0 => <<ops, h>> \notin sv_open)
    BY <1>3, HandleFree
  <1> HIDE DEF m
  <1>8. /\ sv_fds' \in [1 .. SV_FDS -> FdSlot]
        /\ sv_fds'[k] = NewFd(h, m, r, w) /\ \A f \in 1 .. SV_FDS : f # k => sv_fds'[f] = sv_fds[f]
    <2>1. NewFd(h, m, r, w) \in FdSlot
      BY <1>4, <1>6, <1>7 DEF NewFd, FdSlot
    <2> QED BY <1>1, <1>4, <1>5, <2>1
  <1>9. /\ sv_fds'[k].used /\ sv_fds'[k].id = sv_next /\ sv_fds'[k].mount = m /\ sv_fds'[k].handle = h
    BY <1>8 DEF NewFd
  <1>10. UsedFds' = UsedFds \cup {k}
    BY <1>4, <1>5, <1>8, <1>9 DEF UsedFds
  <1>11. \A f \in UsedFds : f \in 1 .. SV_FDS /\ f # k /\ sv_fds'[f] = sv_fds[f]
    BY <1>4, <1>5, <1>8 DEF UsedFds
  <1>12. IsFiniteSet(sv_open')
    <2>1. CASE h < 0
      BY <1>1, <1>4, <2>1
    <2>2. CASE ~(h < 0)
      <3>1. sv_open' = sv_open \cup {<<ops, h>>}
        BY <1>1, <2>2
      <3> QED BY <1>4, <3>1, FS_AddElement
    <2> QED BY <2>1, <2>2
  <1>13. VfsTypes'
    BY <1>2, <1>3, <1>4, <1>8, <1>12 DEF VfsTypes
  <1>14. VfsFds'
    <2>1. IsFiniteSet(UsedFds) /\ Cardinality(UsedFds) \in Nat
      BY <1>3, UsedCounted
    <2>2. Cardinality(UsedFds') = Cardinality(UsedFds) + 1
      BY <1>5, <1>10, <2>1, FS_AddElement
    <2>3. sv_fdcount = Cardinality(UsedFds) /\ \A f \in UsedFds : sv_fds[f].id < sv_next /\ sv_mounts[sv_fds[f].mount].active
      BY <1>3 DEF VfsFds
    <2>4. sv_fdcount' = Cardinality(UsedFds')
      BY <1>2, <2>2, <2>3
    <2>5. \A f \in UsedFds : sv_fds[f].id \in Nat
      BY <1>4 DEF UsedFds, FdSlot
    <2>6. \A f \in UsedFds' : sv_fds'[f].id < sv_next' /\ sv_mounts'[sv_fds'[f].mount].active
      BY <1>2, <1>4, <1>6, <1>9, <1>10, <1>11, <2>3, <2>5
    <2>7. \A f, g \in UsedFds : sv_fds[f].id = sv_fds[g].id => f = g
      BY <1>3 DEF VfsFds
    <2>8. \A f, g \in UsedFds' : sv_fds'[f].id = sv_fds'[g].id => f = g
      BY <1>4, <1>9, <1>10, <1>11, <2>3, <2>5, <2>7
    <2> QED BY <2>4, <2>6, <2>8 DEF VfsFds
  <1>15. ASSUME ~sv_gap PROVE (\A j \in 1 .. SV_MOUNTS : sv_mounts'[j].active <=> j <= sv_count') /\ OwnHandles'
    <2>1. (\A j \in 1 .. SV_MOUNTS : sv_mounts[j].active <=> j <= sv_count) /\ OwnHandles
      BY <1>3, <1>15 DEF VfsOrder
    <2>2. \A f \in UsedFds : HandleOf(f)' = HandleOf(f)
      BY <1>2, <1>11 DEF HandleOf
    <2>3. HandleOf(k)' = <<ops, h>>
      BY <1>2, <1>9 DEF HandleOf
    <2>4. OpenFds \subseteq UsedFds /\ OpenFds' = IF h >= 0 THEN OpenFds \cup {k} ELSE OpenFds
      BY <1>5, <1>9, <1>10, <1>11 DEF OpenFds
    <2>5. sv_open = {HandleOf(f) : f \in OpenFds} /\ \A f \in OpenFds, g \in UsedFds : f # g => HandleOf(f) # HandleOf(g)
      BY <2>1 DEF OwnHandles
    <2>6. sv_open' = {HandleOf(f)' : f \in OpenFds'}
      <3>1. CASE h >= 0
        <4>1. sv_open' = sv_open \cup {<<ops, h>>}
          BY <1>1, <1>7, <3>1
        <4> QED BY <2>2, <2>3, <2>4, <2>5, <3>1, <4>1
      <3>2. CASE ~(h >= 0)
        <4>1. sv_open' = sv_open
          BY <1>1, <1>7, <3>2
        <4> QED BY <2>2, <2>4, <2>5, <3>2, <4>1
      <3> QED BY <3>1, <3>2
    <2>7. ASSUME NEW f \in OpenFds', NEW g \in UsedFds', f # g PROVE HandleOf(f)' # HandleOf(g)'
      <3>1. CASE f \in OpenFds /\ g \in UsedFds
        BY <2>2, <2>4, <2>5, <2>7, <3>1
      <3>2. CASE f = k /\ h >= 0 /\ g \in UsedFds
        <4>1. CASE g \in OpenFds
          BY <1>7, <2>2, <2>3, <2>5, <3>2, <4>1
        <4>2. CASE g \notin OpenFds
          <5>1. sv_fds[g].handle # h
            BY <3>2, <4>2 DEF OpenFds
          <5> QED BY <2>2, <2>3, <3>2, <5>1 DEF HandleOf
        <4> QED BY <4>1, <4>2
      <3>3. CASE f \in OpenFds /\ g = k
        <4>1. HandleOf(f) \in sv_open /\ sv_fds[f].handle >= 0 /\ HandleOf(f)[2] = sv_fds[f].handle
          BY <2>5, <3>3 DEF OpenFds, HandleOf
        <4>2. CASE h >= 0
          BY <1>7, <2>2, <2>3, <2>4, <3>3, <4>1, <4>2
        <4>3. CASE ~(h >= 0)
          <5>1. <<ops, h>>[2] = h
            OBVIOUS
          <5> QED BY <2>2, <2>3, <2>4, <3>3, <4>1, <4>3, <5>1
        <4> QED BY <4>2, <4>3
      <3> QED BY <1>10, <2>4, <2>7, <3>1, <3>2, <3>3
    <2>8. OwnHandles'
      BY <2>6, <2>7 DEF OwnHandles
    <2> QED BY <1>2, <2>1, <2>8
  <1>16. VfsOrder'
    BY <1>2, <1>15 DEF VfsOrder
  <1> QED BY <1>13, <1>14, <1>16 DEF VfsInv

\* Transfers and seeks move a position.
LEMMA MoveKept ==
  ASSUME VfsInv, NEW f \in 1 .. SV_FDS, NEW n \in Nat, sv_fds' = [sv_fds EXCEPT ![f].pos = n],
         UNCHANGED <<sv_mounts, sv_count, sv_fdcount, sv_next, sv_open, sv_gap>>
  PROVE  VfsInv'
  <1>1. VfsTypes /\ VfsFds /\ VfsOrder
    BY DEF VfsInv
  <1>2. sv_fds \in [1 .. SV_FDS -> FdSlot]
    BY <1>1 DEF VfsTypes
  <1>3. /\ sv_fds' \in [1 .. SV_FDS -> FdSlot]
        /\ \A g \in 1 .. SV_FDS : /\ sv_fds'[g].used = sv_fds[g].used /\ sv_fds'[g].id = sv_fds[g].id
                                  /\ sv_fds'[g].mount = sv_fds[g].mount /\ sv_fds'[g].handle = sv_fds[g].handle
    <2> DEFINE e == [sv_fds[f] EXCEPT !.pos = n]
    <2>1. sv_fds' = [sv_fds EXCEPT ![f] = e]
      OBVIOUS
    <2>2. e \in FdSlot /\ e.used = sv_fds[f].used /\ e.id = sv_fds[f].id /\ e.mount = sv_fds[f].mount /\ e.handle = sv_fds[f].handle
      BY <1>2 DEF FdSlot
    <2> HIDE DEF e
    <2> QED BY <1>2, <2>1, <2>2
  <1>4. UsedFds' = UsedFds /\ OpenFds' = OpenFds /\ OpenFds \subseteq UsedFds /\ UsedFds \subseteq 1 .. SV_FDS
    <2>1. UsedFds' = UsedFds /\ UsedFds \subseteq 1 .. SV_FDS
      BY <1>2, <1>3 DEF UsedFds
    <2> QED BY <1>3, <2>1 DEF OpenFds
  <1>5. \A g \in UsedFds : HandleOf(g)' = HandleOf(g)
    BY <1>3, <1>4 DEF HandleOf
  <1>6. VfsTypes'
    BY <1>1, <1>3 DEF VfsTypes
  <1>7. VfsFds'
    BY <1>1, <1>3, <1>4 DEF VfsFds
  <1>8. OwnHandles => OwnHandles'
    <2>1. {HandleOf(g) : g \in OpenFds} = {HandleOf(g)' : g \in OpenFds'}
      BY <1>4, <1>5
    <2> QED BY <1>4, <1>5, <2>1 DEF OwnHandles
  <1>9. VfsOrder'
    BY <1>1, <1>8 DEF VfsOrder
  <1> QED BY <1>6, <1>7, <1>9 DEF VfsInv

LEMMA VfsCallKept ==
  ASSUME VfsInv, vfs_call
  PROVE  VfsInv'
  <1>1. VfsTypes
    BY DEF VfsInv
  <1>2. CASE \E p \in SV_MOUNT_PATHS, o \in SV_BACKENDS \cup {0} : vfs_mount(p, o)
    BY <1>2, MountKept, SVAssumption
  <1>3. CASE \E p \in SV_MOUNT_PATHS : vfs_umount(p)
    BY <1>3, UmountKept
  <1>4. CASE \E p \in SV_PATHS, r, w \in BOOLEAN : (r \/ w) /\ vfs_open(p, r, w)
    BY <1>4, OpenKept, SVAssumption
  <1>5. CASE \E id \in 3 .. sv_next - 1 : vfs_close(id)
    BY <1>5, CloseKept
  <1>6. ASSUME NEW id, NEW f \in vfs_get_fd(id) PROVE f \in 1 .. SV_FDS /\ sv_fds[f].pos \in Nat
    <2>1. f \in UsedFds
      BY <1>1, FdFound
    <2> QED BY <1>1, <2>1 DEF VfsTypes, UsedFds, FdSlot
  <1>7. CASE \E id \in 3 .. sv_next - 1 : vfs_transfer(id, "read") \/ vfs_transfer(id, "write")
    <2>3. PICK id \in 3 .. sv_next - 1 : vfs_transfer(id, "read") \/ vfs_transfer(id, "write")
      BY <1>7
    <2>1. PICK f \in vfs_get_fd(id), n \in 0 .. 1 :
            /\ sv_fds' = [sv_fds EXCEPT ![f].pos = sv_fds[f].pos + n]
            /\ UNCHANGED <<sv_mounts, sv_count, sv_fdcount, sv_next, sv_open, sv_gap>>
      BY <2>3 DEF vfs_transfer
    <2>2. f \in 1 .. SV_FDS /\ sv_fds[f].pos + n \in Nat
      BY <1>6
    <2> QED BY <2>1, <2>2, MoveKept
  <1>8. CASE \E id \in 3 .. sv_next - 1 : vfs_seek(id)
    <2>3. PICK id \in 3 .. sv_next - 1 : vfs_seek(id)
      BY <1>8
    <2>1. PICK f \in vfs_get_fd(id), o \in SV_OFFSETS :
            /\ sv_fds' \in {[sv_fds EXCEPT ![f].pos = o], [sv_fds EXCEPT ![f].pos = sv_fds[f].pos + o]}
            /\ UNCHANGED <<sv_mounts, sv_count, sv_fdcount, sv_next, sv_open, sv_gap>>
      BY <2>3 DEF vfs_seek
    <2>2. f \in 1 .. SV_FDS /\ o \in Nat /\ sv_fds[f].pos + o \in Nat
      BY <1>6, SVAssumption
    <2> QED BY <2>1, <2>2, MoveKept
  <1> QED BY <1>2, <1>3, <1>4, <1>5, <1>7, <1>8 DEF vfs_call

\* Entry c of a table of width w begins at bit w * c, at every width.
LEMMA EntryPlace ==
  ASSUME NEW w \in SvWidths, NEW c \in Nat
  PROVE  FatAt(w, c) = w * c /\ FatKept(w) \in 1 .. w /\ w \in Nat /\ w * c \in Nat
  <1>1. CASE w = 12
    <2>1. FatAt(w, c) = Fat12At(c)
      BY <1>1 DEF FatAt
    <2>2. CASE c % 2 = 1
      <3>1. c = 2 * (c \div 2) + 1
        BY <2>2
      <3> QED BY <1>1, <2>1, <2>2, <3>1 DEF Fat12At, FatKept
    <2>3. CASE c % 2 = 0
      <3>1. c = 2 * (c \div 2)
        BY <2>3
      <3> QED BY <1>1, <2>1, <2>3, <3>1 DEF Fat12At, FatKept
    <2> QED BY <2>2, <2>3
  <1>2. CASE w = 1
    <2>1. 8 \div 1 = 8 /\ c = 8 * (c \div 8) + (c % 8)
      OBVIOUS
    <2> QED BY <1>2, <2>1 DEF FatAt, PackedAt, FatKept
  <1>3. CASE w = 2
    <2>1. 8 \div 2 = 4 /\ c = 4 * (c \div 4) + (c % 4)
      OBVIOUS
    <2> QED BY <1>3, <2>1 DEF FatAt, PackedAt, FatKept
  <1>4. CASE w = 4
    <2>1. 8 \div 4 = 2 /\ c = 2 * (c \div 2) + (c % 2)
      OBVIOUS
    <2> QED BY <1>4, <2>1 DEF FatAt, PackedAt, FatKept
  <1>5. CASE w = 8
    <2>1. 8 \div 8 = 1 /\ c = 1 * (c \div 1) + (c % 1)
      OBVIOUS
    <2> QED BY <1>5, <2>1 DEF FatAt, PackedAt, FatKept
  <1>6. CASE w \in {16, 32, 64, 128}
    <2>1. 16 \div 8 = 2 /\ 32 \div 8 = 4 /\ 64 \div 8 = 8 /\ 128 \div 8 = 16
      OBVIOUS
    <2> QED BY <1>6, <2>1 DEF FatAt, FatKept
  <1> QED BY <1>1, <1>2, <1>3, <1>4, <1>5, <1>6 DEF SvWidths

LEMMA EntryFits ==
  ASSUME NEW w \in SvWidths, NEW c \in SvEntries(w)
  PROVE  c \in Nat /\ w * c + w <= 8 * SV_SECTOR
  <1>1. c \in Nat /\ SV_SECTOR \in Nat /\ brainfs_fat_entries_per_sector(w) \in Int /\ c < brainfs_fat_entries_per_sector(w)
    <2>1. c \in Nat /\ SV_SECTOR \in Nat /\ c \in 0 .. brainfs_fat_entries_per_sector(w) - 1
      BY SVAssumption DEF SvEntries
    <2>2. brainfs_fat_entries_per_sector(w) \in Int
      BY SVAssumption DEF brainfs_fat_entries_per_sector, SvWidths
    <2> QED BY <2>1, <2>2
  <1>2. CASE w = 12
    BY <1>1, <1>2 DEF brainfs_fat_entries_per_sector
  <1>3. CASE w = 1
    BY <1>1, <1>3 DEF brainfs_fat_entries_per_sector
  <1>4. CASE w = 2
    BY <1>1, <1>4 DEF brainfs_fat_entries_per_sector
  <1>5. CASE w = 4
    BY <1>1, <1>5 DEF brainfs_fat_entries_per_sector
  <1>6. CASE w = 8
    BY <1>1, <1>6 DEF brainfs_fat_entries_per_sector
  <1>7. CASE w = 16
    BY <1>1, <1>7 DEF brainfs_fat_entries_per_sector
  <1>8. CASE w = 32
    BY <1>1, <1>8 DEF brainfs_fat_entries_per_sector
  <1>9. CASE w = 64
    BY <1>1, <1>9 DEF brainfs_fat_entries_per_sector
  <1>10. CASE w = 128
    BY <1>1, <1>10 DEF brainfs_fat_entries_per_sector
  <1> QED BY <1>1, <1>2, <1>3, <1>4, <1>5, <1>6, <1>7, <1>8, <1>9, <1>10 DEF SvWidths

LEMMA EntriesApart ==
  ASSUME NEW w \in Nat, NEW a \in Nat, NEW b \in Nat, NEW j \in 0 .. w - 1, NEW k \in 0 .. w - 1,
         w * a + j = w * b + k
  PROVE  a = b /\ j = k
  <1> DEFINE x == w * a
             y == w * b
  <1>1. x \in Nat /\ y \in Nat /\ x + j = y + k
    OBVIOUS
  <1>2. a < b => x + w <= y
    <2> SUFFICES ASSUME a < b PROVE w * a + w <= w * b
      OBVIOUS
    <2>1. b - a - 1 \in Nat /\ b = (a + 1) + (b - a - 1)
      OBVIOUS
    <2>2. w * (b - a - 1) \in Nat /\ w * b = w * (a + 1) + w * (b - a - 1) /\ w * (a + 1) = w * a + w /\ w * a \in Nat
      BY <2>1
    <2> QED BY <2>2
  <1>3. b < a => y + w <= x
    <2> SUFFICES ASSUME b < a PROVE w * b + w <= w * a
      OBVIOUS
    <2>1. a - b - 1 \in Nat /\ a = (b + 1) + (a - b - 1)
      OBVIOUS
    <2>2. w * (a - b - 1) \in Nat /\ w * a = w * (b + 1) + w * (a - b - 1) /\ w * (b + 1) = w * b + w /\ w * b \in Nat
      BY <2>1
    <2> QED BY <2>2
  <1> HIDE DEF x, y
  <1>4. ~(a < b) /\ ~(b < a)
    BY <1>1, <1>2, <1>3
  <1>5. a = b
    BY <1>4
  <1> QED BY <1>1, <1>5 DEF x, y

\* An entry that is set is read back, and no other is changed.
LEMMA EntrySet ==
  ASSUME NEW w \in SvWidths, NEW S, NEW c \in Nat, NEW v, v \subseteq 0 .. FatKept(w) - 1
  PROVE  /\ brainfs_fat_get_entry(w, brainfs_fat_set_entry(w, S, c, v), c) = v
         /\ \A d \in Nat : d # c => brainfs_fat_get_entry(w, brainfs_fat_set_entry(w, S, c, v), d) = brainfs_fat_get_entry(w, S, d)
  <1> DEFINE n == FatKept(w)
             New == brainfs_fat_set_entry(w, S, c, v)
  <1>1. /\ n \in 1 .. w /\ w \in Nat
        /\ \A d \in Nat : FatAt(w, d) = w * d /\ w * d \in Nat
    BY EntryPlace
  <1> HIDE DEF n
  <1>2. {b \in v : b < n} = v /\ v \subseteq 0 .. n - 1 /\ 0 .. n - 1 \subseteq 0 .. w - 1
    <2>1. v \subseteq 0 .. n - 1
      BY DEF n
    <2>2. \A b \in 0 .. n - 1 : b < n /\ b \in 0 .. w - 1
      BY <1>1
    <2>3. {b \in v : b < n} = v
      BY <2>1, <2>2
    <2> QED BY <2>1, <2>2, <2>3
  <1>3. New = (S \ {w * c + k : k \in 0 .. w - 1}) \cup {w * c + k : k \in v}
    BY <1>1, <1>2 DEF brainfs_fat_set_entry, n
  <1> HIDE DEF New
  <1>4. \A d \in Nat : \A T : brainfs_fat_get_entry(w, T, d) = {k \in 0 .. n - 1 : w * d + k \in T}
    BY <1>1 DEF brainfs_fat_get_entry, n
  <1>5. ASSUME NEW k \in 0 .. n - 1 PROVE w * c + k \in New <=> k \in v
    <2>1. \A j \in v : w * c + j = w * c + k => j = k
      BY <1>1, <1>2, EntriesApart
    <2>2. k \in 0 .. w - 1
      BY <1>2
    <2> QED BY <1>3, <2>1, <2>2
  <1>6. ASSUME NEW d \in Nat, d # c, NEW k \in 0 .. n - 1 PROVE w * d + k \in New <=> w * d + k \in S
    <2>1. \A j \in 0 .. w - 1 : w * d + k # w * c + j
      BY <1>1, <1>2, <1>6, EntriesApart
    <2> QED BY <1>2, <1>3, <2>1
  <1>7. brainfs_fat_get_entry(w, New, c) = v
    BY <1>2, <1>4, <1>5
  <1>8. \A d \in Nat : d # c => brainfs_fat_get_entry(w, New, d) = brainfs_fat_get_entry(w, S, d)
    BY <1>4, <1>6
  <1> QED BY <1>7, <1>8 DEF New

TableInv ==
  /\ sv_fat = [width |-> sv_fat.width, sector |-> sv_fat.sector, put |-> sv_fat.put]
  /\ sv_fat.width # 0 =>
       /\ sv_fat.width \in SvWidths
       /\ sv_fat.sector \subseteq {k \in Nat : k < 8 * SV_SECTOR}
       /\ sv_fat.put \in [SvEntries(sv_fat.width) -> SUBSET (0 .. FatKept(sv_fat.width) - 1)]
       /\ \A c \in SvEntries(sv_fat.width) : brainfs_fat_get_entry(sv_fat.width, sv_fat.sector, c) = sv_fat.put[c]

LEMMA MarkKept ==
  ASSUME NEW w \in SvWidths
  PROVE  /\ EndMark(w) \subseteq 0 .. FatKept(w) - 1
         /\ brainfs_fat_is_eoc_value(w, EndMark(w)) /\ EndMark(w) # {}
         /\ w # 8 => ~brainfs_fat_is_bad_value(w, EndMark(w))
  <1> DEFINE Good == /\ EndMark(w) \subseteq 0 .. FatKept(w) - 1
                     /\ brainfs_fat_is_eoc_value(w, EndMark(w)) /\ EndMark(w) # {}
                     /\ w # 8 => ~brainfs_fat_is_bad_value(w, EndMark(w))
  <1>1. ASSUME w = 1 PROVE Good
    BY <1>1 DEF EndMark, FatKept, brainfs_fat_is_eoc_value, brainfs_fat_is_bad_value
  <1>2. ASSUME w = 2 PROVE Good
    <2>1. EndMark(w) = 0 .. 1 /\ FatKept(w) = 2 /\ 0 \in 0 .. 1
      BY <1>2 DEF EndMark, FatKept
    <2>2. brainfs_fat_is_eoc_value(w, EndMark(w))
      BY <1>2 DEF brainfs_fat_is_eoc_value
    <2>3. brainfs_fat_is_bad_value(w, EndMark(w)) <=> EndMark(w) = {1}
      BY <1>2 DEF brainfs_fat_is_bad_value
    <2> QED BY <2>1, <2>2, <2>3
  <1>3. ASSUME w = 4 PROVE Good
    <2>1. EndMark(w) = 0 .. 3 /\ FatKept(w) = 4 /\ 0 \in 0 .. 3
      BY <1>3 DEF EndMark, FatKept
    <2>2. brainfs_fat_is_eoc_value(w, EndMark(w))
      BY <1>3 DEF brainfs_fat_is_eoc_value
    <2>3. brainfs_fat_is_bad_value(w, EndMark(w)) <=> EndMark(w) = {1, 2, 3}
      BY <1>3 DEF brainfs_fat_is_bad_value
    <2> QED BY <2>1, <2>2, <2>3
  <1>4. ASSUME w = 8 PROVE Good
    <2>1. EndMark(w) = 0 .. 7 /\ FatKept(w) = 8 /\ 0 \in 0 .. 7
      BY <1>4 DEF EndMark, FatKept
    <2>2. brainfs_fat_is_eoc_value(w, EndMark(w))
      BY <1>4 DEF brainfs_fat_is_eoc_value
    <2> QED BY <1>4, <2>1, <2>2
  <1>5. ASSUME w = 12 PROVE Good
    BY <1>5 DEF EndMark, FatKept, brainfs_fat_is_eoc_value, brainfs_fat_is_bad_value
  <1>6. ASSUME w = 16 PROVE Good
    BY <1>6 DEF EndMark, FatKept, brainfs_fat_is_eoc_value, brainfs_fat_is_bad_value
  <1>7. ASSUME w = 32 PROVE Good
    BY <1>7 DEF EndMark, FatKept, brainfs_fat_is_eoc_value, brainfs_fat_is_bad_value
  <1>8. ASSUME w = 64 PROVE Good
    BY <1>8 DEF EndMark, FatKept, brainfs_fat_is_eoc_value, brainfs_fat_is_bad_value
  <1>9. ASSUME w = 128 PROVE Good
    <2>1. EndMark(w) = {0} /\ FatKept(w) = 64
      BY <1>9 DEF EndMark, FatKept
    <2>2. brainfs_fat_is_eoc_value(w, EndMark(w))
      BY <1>9 DEF brainfs_fat_is_eoc_value
    <2>3. brainfs_fat_is_bad_value(w, EndMark(w)) <=> EndMark(w) = {1}
      BY <1>9 DEF brainfs_fat_is_bad_value
    <2> QED BY <2>1, <2>2, <2>3
  <1> HIDE DEF Good
  <1>10. Good
    BY <1>1, <1>2, <1>3, <1>4, <1>5, <1>6, <1>7, <1>8, <1>9 DEF SvWidths
  <1> QED BY <1>10 DEF Good

LEMMA TableSet ==
  ASSUME TableInv, sv_fat.width # 0, fat_call
  PROVE  TableInv'
  <1> DEFINE w == sv_fat.width
             n == FatKept(w)
             E == SvEntries(w)
  <1>1. PICK c \in E, v \in SvValues(w) :
          sv_fat' = [sv_fat EXCEPT !.sector = brainfs_fat_set_entry(w, sv_fat.sector, c, v), !.put[c] = v]
    BY DEF fat_call
  <1>2. /\ sv_fat = [width |-> w, sector |-> sv_fat.sector, put |-> sv_fat.put] /\ w \in SvWidths
        /\ sv_fat.sector \subseteq {k \in Nat : k < 8 * SV_SECTOR} /\ sv_fat.put \in [E -> SUBSET (0 .. n - 1)]
        /\ \A d \in E : brainfs_fat_get_entry(w, sv_fat.sector, d) = sv_fat.put[d]
    BY DEF TableInv
  <1> DEFINE New == brainfs_fat_set_entry(w, sv_fat.sector, c, v)
             Put == [sv_fat.put EXCEPT ![c] = v]
  <1> HIDE DEF New
  <1>3. sv_fat' = [width |-> w, sector |-> New, put |-> Put]
    BY <1>1, <1>2 DEF New
  <1>4. v \subseteq 0 .. n - 1
    <2>1. EndMark(w) \subseteq 0 .. n - 1
      BY <1>2, MarkKept
    <2> QED BY <2>1 DEF SvValues
  <1>5. E \subseteq Nat /\ c \in Nat
    BY SVAssumption DEF SvEntries
  <1> HIDE DEF w, n, E
  <1>6. Put \in [E -> SUBSET (0 .. n - 1)] /\ Put[c] = v /\ \A d \in E : d # c => Put[d] = sv_fat.put[d]
    BY <1>2, <1>4
  <1> HIDE DEF Put
  <1>7. /\ brainfs_fat_get_entry(w, New, c) = v
        /\ \A d \in Nat : d # c => brainfs_fat_get_entry(w, New, d) = brainfs_fat_get_entry(w, sv_fat.sector, d)
    BY <1>2, <1>4, <1>5, EntrySet DEF New, n
  <1>8. \A d \in E : brainfs_fat_get_entry(w, New, d) = Put[d]
    BY <1>2, <1>5, <1>6, <1>7
  <1>9. New \subseteq {k \in Nat : k < 8 * SV_SECTOR}
    <2>1. New = (sv_fat.sector \ {FatAt(w, c) + k : k \in 0 .. w - 1}) \cup {FatAt(w, c) + k : k \in {b \in v : b < n}}
      BY DEF New, n, brainfs_fat_set_entry
    <2>2. w * c + w <= 8 * SV_SECTOR /\ SV_SECTOR \in Nat
      BY <1>2, EntryFits, SVAssumption DEF E
    <2>3. FatAt(w, c) = w * c /\ n \in 1 .. w /\ w \in Nat /\ w * c \in Nat
      BY <1>2, <1>5, EntryPlace DEF n
    <2>4. \A k \in 0 .. n - 1 : FatAt(w, c) + k \in Nat /\ FatAt(w, c) + k < 8 * SV_SECTOR
      <3> DEFINE x == w * c
      <3>1. x \in Nat /\ x + w <= 8 * SV_SECTOR
        BY <2>2, <2>3
      <3> HIDE DEF x
      <3>2. \A k \in 0 .. n - 1 : x + k \in Nat /\ x + k < 8 * SV_SECTOR
        BY <2>2, <2>3, <3>1
      <3> QED BY <2>3, <3>2 DEF x
    <2> QED BY <1>2, <1>4, <2>1, <2>4
  <1>10. sv_fat'.width = w /\ sv_fat'.sector = New /\ sv_fat'.put = Put
    BY <1>3
  <1> QED BY <1>2, <1>3, <1>6, <1>8, <1>9, <1>10 DEF TableInv, E, n

LEMMA TableNew ==
  ASSUME TableInv, fat_new
  PROVE  TableInv'
  <1>1. PICK w \in SvWidths : sv_fat' = [width |-> w, sector |-> {}, put |-> [c \in SvEntries(w) |-> {}]]
    BY DEF fat_new
  <1>2. sv_fat'.width = w /\ sv_fat'.sector = {} /\ sv_fat'.put = [c \in SvEntries(w) |-> {}]
    BY <1>1
  <1>3. \A c : brainfs_fat_get_entry(w, {}, c) = {}
    BY DEF brainfs_fat_get_entry
  <1>4. sv_fat'.put \in [SvEntries(w) -> SUBSET (0 .. FatKept(w) - 1)] /\ \A c \in SvEntries(w) : sv_fat'.put[c] = {}
    BY <1>2
  <1> QED BY <1>1, <1>2, <1>3, <1>4 DEF TableInv

BrainInv == VfsInv /\ TableInv

LEMMA BrainInductive == BrainInv /\ [SVNext]_svVars => BrainInv'
  <1> SUFFICES ASSUME BrainInv, [SVNext]_svVars PROVE BrainInv'
    OBVIOUS
  <1>0. VfsInv /\ TableInv
    BY DEF BrainInv
  <1>1. ASSUME UNCHANGED <<sv_mounts, sv_count, sv_fds, sv_fdcount, sv_next, sv_open, sv_gap>> PROVE VfsInv'
    BY <1>0, <1>1 DEF VfsInv, VfsTypes, VfsFds, VfsOrder, OwnHandles, OpenFds, UsedFds, HandleOf
  <1>2. ASSUME UNCHANGED sv_fat PROVE TableInv'
    BY <1>0, <1>2 DEF TableInv
  <1>3. CASE vfs_call
    <2>1. UNCHANGED sv_fat
      BY <1>3 DEF vfs_call, vfs_mount, vfs_umount, vfs_open, vfs_close, vfs_transfer, vfs_seek
    <2> QED BY <1>0, <1>2, <1>3, <2>1, VfsCallKept DEF BrainInv
  <1>4. CASE fat_new
    <2>1. UNCHANGED <<sv_mounts, sv_count, sv_fds, sv_fdcount, sv_next, sv_open, sv_gap>>
      BY <1>4 DEF fat_new
    <2> QED BY <1>0, <1>1, <1>4, <2>1, TableNew DEF BrainInv
  <1>5. CASE sv_fat.width # 0 /\ fat_call
    <2>1. UNCHANGED <<sv_mounts, sv_count, sv_fds, sv_fdcount, sv_next, sv_open, sv_gap>>
      BY <1>5 DEF fat_call
    <2> QED BY <1>0, <1>1, <1>5, <2>1, TableSet DEF BrainInv
  <1>6. CASE UNCHANGED svVars
    <2>1. UNCHANGED <<sv_mounts, sv_count, sv_fds, sv_fdcount, sv_next, sv_open, sv_gap>> /\ UNCHANGED sv_fat
      BY <1>6 DEF svVars
    <2> QED BY <1>1, <1>2, <2>1 DEF BrainInv
  <1> QED BY <1>3, <1>4, <1>5, <1>6 DEF SVNext

LEMMA BrainStarts == SVInit => BrainInv
  <1> SUFFICES ASSUME SVInit PROVE BrainInv
    OBVIOUS
  <1>1. VfsTypes
    <2>1. <<>> \in Seq(STRING)
      OBVIOUS
    <2>2. SV_MOUNTS \in Nat \ {0} /\ SV_FDS \in Nat
      BY SVAssumption
    <2>3. sv_mounts \in [1 .. SV_MOUNTS -> MountSlot]
      BY <2>1 DEF SVInit, MountSlot
    <2>4. sv_fds \in [1 .. SV_FDS -> FdSlot]
      BY <2>2 DEF SVInit, FdSlot
    <2>5. sv_count \in 0 .. SV_MOUNTS /\ sv_next \in Nat /\ sv_gap \in BOOLEAN /\ sv_open = {}
      <3>1. sv_count = 0 /\ sv_next = 3 /\ sv_gap = FALSE /\ sv_open = {}
        BY DEF SVInit
      <3>2. 0 \in 0 .. SV_MOUNTS
        BY <2>2
      <3> QED BY <3>1, <3>2
    <2>6. IsFiniteSet(sv_open)
      BY <2>5, FS_EmptySet
    <2> QED BY <2>3, <2>4, <2>5, <2>6 DEF VfsTypes
  <1>2. UsedFds = {} /\ OpenFds = {}
    <2>1. UsedFds = {}
      BY DEF SVInit, UsedFds
    <2> QED BY <2>1 DEF OpenFds
  <1>3. VfsFds
    BY <1>2, FS_EmptySet DEF SVInit, VfsFds
  <1>4. VfsOrder
    <2>1. OwnHandles
      BY <1>2 DEF SVInit, OwnHandles
    <2>2. \A i \in 1 .. SV_MOUNTS : ~sv_mounts[i].active /\ ~(i <= sv_count)
      BY SVAssumption DEF SVInit
    <2> QED BY <2>1, <2>2 DEF VfsOrder
  <1>5. TableInv
    BY DEF SVInit, TableInv
  <1> QED BY <1>1, <1>3, <1>4, <1>5 DEF BrainInv, VfsInv

LEMMA BrainSound == BrainInv => FilesKept
  <1> SUFFICES ASSUME BrainInv PROVE FilesKept
    OBVIOUS
  <1>1. VfsTypes /\ VfsFds /\ VfsOrder /\ TableInv
    BY DEF BrainInv, VfsInv
  <1>2. HandlesOwned
    <2>1. sv_fdcount = Cardinality(UsedFds) /\ \A f, g \in UsedFds : sv_fds[f].id = sv_fds[g].id => f = g
      BY <1>1 DEF VfsFds
    <2>2. \A f \in UsedFds : sv_mounts[sv_fds[f].mount].active
      BY <1>1 DEF VfsFds
    <2>3. ASSUME ~sv_gap
          PROVE  /\ sv_open = Handles(OpenFds)
                 /\ \A f, g \in UsedFds : f # g /\ sv_fds[f].handle >= 0 => Handles({f}) # Handles({g})
      <3>1. OwnHandles
        BY <1>1, <2>3 DEF VfsOrder
      <3>2. \A f : Handles({f}) = {HandleOf(f)}
        BY DEF Handles, HandleOf
      <3>3. sv_open = Handles(OpenFds)
        BY <3>1 DEF OwnHandles, Handles, HandleOf
      <3>4. \A f, g \in UsedFds : f # g /\ sv_fds[f].handle >= 0 => HandleOf(f) # HandleOf(g)
        BY <3>1 DEF OwnHandles, OpenFds
      <3> QED BY <3>2, <3>3, <3>4
    <2> QED BY <2>1, <2>2, <2>3 DEF HandlesOwned, UsedFds, OpenFds
  <1>3. PathsResolve
    <2> SUFFICES ASSUME NEW p \in SV_PATHS, vfs_get_mount(p) # 0
                 PROVE  LET m == vfs_get_mount(p) IN
                          /\ sv_mounts[m].active
                          /\ LET path == sv_mounts[m].path IN
                               Len(p) < SV_PATH_MAX /\ Len(path) > 1 /\ Len(p) > Len(path) /\ p[Len(path) + 1] = "/" => path \o <<"/">> \o vfs_resolve_path(p) = p
                          /\ \A q \in SV_PATHS : vfs_rename(p, q) # <<>> => vfs_get_mount(q) = m
      BY DEF PathsResolve
    <2> DEFINE m == vfs_get_mount(p)
               path == sv_mounts[m].path
    <2>1. p \in Seq(STRING)
      BY SVAssumption
    <2>2. m \in 1 .. SV_MOUNTS /\ sv_mounts[m].active /\ SvStarts(p, path)
      BY <1>1, <2>1, MountFound
    <2>3. path \in Seq(STRING)
      BY <1>1, <2>2 DEF VfsTypes, MountSlot
    <2>4. Len(p) < SV_PATH_MAX /\ Len(p) > Len(path) /\ p[Len(path) + 1] = "/" => path \o <<"/">> \o vfs_resolve_path(p) = p
      BY <2>1, <2>2, <2>3, RestOfPath
    <2>5. \A q \in SV_PATHS : vfs_rename(p, q) # <<>> => vfs_get_mount(q) = m
      BY DEF vfs_rename
    <2> QED BY <2>2, <2>4, <2>5
  <1>4. TablePacked
    <2> SUFFICES ASSUME sv_fat.width # 0
                 PROVE  /\ \A c \in DOMAIN sv_fat.put :
                             LET v == brainfs_fat_get_entry(sv_fat.width, sv_fat.sector, c) IN
                             /\ v = sv_fat.put[c]
                             /\ v = EndMark(sv_fat.width) => brainfs_fat_is_eoc_value(sv_fat.width, v) /\ v # {} /\ (sv_fat.width # 8 => ~brainfs_fat_is_bad_value(sv_fat.width, v))
                        /\ \A k \in sv_fat.sector : k < 8 * SV_SECTOR
      BY DEF TablePacked
    <2>1. /\ sv_fat.width \in SvWidths /\ \A k \in sv_fat.sector : k < 8 * SV_SECTOR
          /\ DOMAIN sv_fat.put = SvEntries(sv_fat.width)
          /\ \A c \in SvEntries(sv_fat.width) : brainfs_fat_get_entry(sv_fat.width, sv_fat.sector, c) = sv_fat.put[c]
      BY <1>1 DEF TableInv
    <2> QED BY <2>1, MarkKept
  <1> QED BY <1>2, <1>3, <1>4 DEF FilesKept

(***************************************************************************)
(* FilesKept for every number of mounts and descriptors, every set of      *)
(* paths and file systems, every answer of those, and tables of every      *)
(* width in sectors of every size.                                         *)
(***************************************************************************)
THEOREM HandlesAndTablesKept == SVSpec => []FilesKept
  BY BrainStarts, BrainSound, BrainInductive, PTL DEF SVSpec

-----------------------------------------------------------------------------
(***************************************************************************)
(* The encrypted links.  ConfirmedKey and NonceOnce are not inductive: a   *)
(* key stays because a handshake never leaves COMPLETED and reaches it     *)
(* only through the states in which the key of the commit is the key that  *)
(* encrypts, and a number is new because those used are below the counter. *)
(***************************************************************************)
SaeRecord(s) ==
  /\ s = [state |-> s.state, rand |-> s.rand, peer |-> s.peer, key |-> s.key, tk |-> s.tk, installed |-> s.installed, pn |-> s.pn]
  /\ s.installed \in BOOLEAN /\ s.pn \in Nat
  /\ s.installed <=> s.state = "completed"
OwnKey(s) == s.state # "disconnected" => s.tk = s.key \/ s.tk \in SL_KEYS
SaeOK(s) == SaeRecord(s) /\ OwnKey(s)

\* What a call does to a handshake.
SaeStep(s, t) ==
  /\ SaeOK(t) /\ t.pn = s.pn
  /\ s.state = "completed" => t.state = "completed" /\ t.tk = s.tk

\* The nonces a DNSCrypt client made carry their numbers.
Nonces == (SL_SERVERS \cup {0}) \X Nat
CryptOK ==
  /\ sl_crypt = [key |-> sl_crypt.key, nonce |-> sl_crypt.nonce, used |-> sl_crypt.used]
  /\ sl_crypt.key \in SL_SERVERS \cup {0}
  /\ sl_crypt.used \in Seq(Nonces) /\ sl_crypt.nonce = Len(sl_crypt.used)
  /\ \A i \in 1 .. Len(sl_crypt.used) : sl_crypt.used[i][2] = i - 1

NumbersOK ==
  /\ IsFiniteSet(sl_used) /\ Cardinality(sl_used) = sl_sae.pn
  /\ \A u \in sl_used : u[2] \in Nat /\ u[2] < sl_sae.pn
LinkInv == SaeOK(sl_sae) /\ ConfirmedKey /\ NumbersOK /\ CryptOK

LEMMA SameStep ==
  ASSUME NEW s, SaeOK(s)
  PROVE  SaeStep(s, s)
  BY DEF SaeStep

LEMMA StepsChain ==
  ASSUME NEW s, NEW t, NEW u, SaeStep(s, t), SaeStep(t, u)
  PROVE  SaeStep(s, u)
  BY DEF SaeStep

LEMMA DrawStep ==
  ASSUME NEW s, SaeOK(s), NEW rand
  PROVE  SaeStep(s, wpa3_sae_compute_pwe(s, rand))
  <1> DEFINE t == wpa3_sae_compute_pwe(s, rand)
  <1>1. t = [state |-> s.state, rand |-> rand, peer |-> s.peer, key |-> s.key, tk |-> s.tk, installed |-> s.installed, pn |-> s.pn]
    BY DEF wpa3_sae_compute_pwe, SaeOK, SaeRecord
  <1> HIDE DEF t
  <1>2. t = [state |-> t.state, rand |-> t.rand, peer |-> t.peer, key |-> t.key, tk |-> t.tk, installed |-> t.installed, pn |-> t.pn]
    BY <1>1
  <1>3. t.state = s.state /\ t.key = s.key /\ t.tk = s.tk /\ t.installed = s.installed /\ t.pn = s.pn
    BY <1>1
  <1>4. SaeStep(s, t)
    BY <1>2, <1>3 DEF SaeStep, SaeOK, SaeRecord, OwnKey
  <1> QED BY <1>4 DEF t

LEMMA CommitStep ==
  ASSUME NEW s, SaeOK(s), NEW peer
  PROVE  SaeStep(s, wpa3_sae_handle_commit(s, peer))
  <1> DEFINE t == wpa3_sae_handle_commit(s, peer)
             k == SaeKey(s.rand, peer)
  <1>1. CASE s.state # "disconnected"
    BY <1>1, SameStep DEF wpa3_sae_handle_commit
  <1>2. CASE s.state = "disconnected"
    <2>1. t = [state |-> "commit_rcvd", rand |-> s.rand, peer |-> peer, key |-> k, tk |-> k, installed |-> s.installed, pn |-> s.pn]
      BY <1>2 DEF wpa3_sae_handle_commit, SaeOK, SaeRecord
    <2> HIDE DEF t, k
    <2>2. t = [state |-> t.state, rand |-> t.rand, peer |-> t.peer, key |-> t.key, tk |-> t.tk, installed |-> t.installed, pn |-> t.pn]
      BY <2>1
    <2>3. t.state = "commit_rcvd" /\ t.key = k /\ t.tk = k /\ t.installed = s.installed /\ t.pn = s.pn
      BY <2>1
    <2>4. SaeStep(s, t)
      BY <1>2, <2>2, <2>3 DEF SaeStep, SaeOK, SaeRecord, OwnKey
    <2> QED BY <2>4 DEF t
  <1> QED BY <1>1, <1>2

LEMMA BuildStep ==
  ASSUME NEW s, SaeOK(s)
  PROVE  SaeStep(s, wpa3_sae_build_confirm(s))
  <1> DEFINE t == wpa3_sae_build_confirm(s)
  <1>1. CASE s.state # "commit_rcvd"
    BY <1>1, SameStep DEF wpa3_sae_build_confirm
  <1>2. CASE s.state = "commit_rcvd"
    <2>1. t = [state |-> "confirm_sent", rand |-> s.rand, peer |-> s.peer, key |-> s.key, tk |-> s.tk, installed |-> s.installed, pn |-> s.pn]
      BY <1>2 DEF wpa3_sae_build_confirm, SaeOK, SaeRecord
    <2> HIDE DEF t
    <2>2. t = [state |-> t.state, rand |-> t.rand, peer |-> t.peer, key |-> t.key, tk |-> t.tk, installed |-> t.installed, pn |-> t.pn]
      BY <2>1
    <2>3. t.state = "confirm_sent" /\ t.key = s.key /\ t.tk = s.tk /\ t.installed = s.installed /\ t.pn = s.pn
      BY <2>1
    <2>4. SaeStep(s, t)
      BY <1>2, <2>2, <2>3 DEF SaeStep, SaeOK, SaeRecord, OwnKey
    <2> QED BY <2>4 DEF t
  <1> QED BY <1>1, <1>2

LEMMA ConfirmStep ==
  ASSUME NEW s, SaeOK(s), NEW frame
  PROVE  SaeStep(s, wpa3_sae_handle_confirm(s, frame))
  <1> DEFINE t == wpa3_sae_handle_confirm(s, frame)
  <1>1. CASE ~(s.state = "confirm_sent" /\ frame = Confirm(s.key, s.peer, s.rand))
    BY <1>1, SameStep DEF wpa3_sae_handle_confirm
  <1>2. CASE s.state = "confirm_sent" /\ frame = Confirm(s.key, s.peer, s.rand)
    <2>1. t = [state |-> "completed", rand |-> s.rand, peer |-> s.peer, key |-> s.key, tk |-> s.tk, installed |-> TRUE, pn |-> s.pn]
      BY <1>2 DEF wpa3_sae_handle_confirm, SaeOK, SaeRecord
    <2> HIDE DEF t
    <2>2. t = [state |-> t.state, rand |-> t.rand, peer |-> t.peer, key |-> t.key, tk |-> t.tk, installed |-> t.installed, pn |-> t.pn]
      BY <2>1
    <2>3. t.state = "completed" /\ t.key = s.key /\ t.tk = s.tk /\ t.installed = TRUE /\ t.pn = s.pn
      BY <2>1
    <2>4. SaeStep(s, t)
      BY <1>2, <2>2, <2>3 DEF SaeStep, SaeOK, SaeRecord, OwnKey
    <2> QED BY <2>4 DEF t
  <1> QED BY <1>1, <1>2

\* A handshake that takes such a step keeps its promise.
LEMMA SaeCallKept ==
  ASSUME LinkInv, NEW s, SaeStep(sl_sae, s), SaeCall(s)
  PROVE  LinkInv'
  <1>1. /\ SaeOK(sl_sae) /\ ConfirmedKey /\ NumbersOK /\ CryptOK
        /\ sl_sae' = s /\ UNCHANGED <<sl_used, sl_crypt>>
        /\ sl_conf' = IF s.state = "completed" /\ sl_sae.state # "completed" THEN s.key ELSE sl_conf
    BY DEF LinkInv, SaeCall
  <1>2. SaeOK(s) /\ s.pn = sl_sae.pn /\ (sl_sae.state = "completed" => s.state = "completed" /\ s.tk = sl_sae.tk)
    BY DEF SaeStep
  <1>3. ASSUME s.installed PROVE s.tk = sl_conf' \/ s.tk \in SL_KEYS
    <2>1. s.state = "completed"
      BY <1>2, <1>3 DEF SaeOK, SaeRecord
    <2>2. CASE sl_sae.state = "completed"
      <3>1. sl_sae.installed
        BY <1>1, <2>2 DEF SaeOK, SaeRecord
      <3> QED BY <1>1, <1>2, <2>2, <3>1 DEF ConfirmedKey
    <2>3. CASE sl_sae.state # "completed"
      <3>1. sl_conf' = s.key
        BY <1>1, <2>1, <2>3
      <3>2. s.tk = s.key \/ s.tk \in SL_KEYS
        BY <1>2, <2>1 DEF SaeOK, OwnKey
      <3> QED BY <3>1, <3>2
    <2> QED BY <2>2, <2>3
  <1>4. SaeOK(sl_sae)'
    BY <1>1, <1>2 DEF SaeOK, SaeRecord, OwnKey
  <1>5. ConfirmedKey'
    BY <1>1, <1>3 DEF ConfirmedKey
  <1>6. NumbersOK' /\ CryptOK'
    BY <1>1, <1>2 DEF NumbersOK, CryptOK
  <1> QED BY <1>4, <1>5, <1>6 DEF LinkInv

LEMMA HandshakeKept ==
  ASSUME LinkInv, NEW peer, NEW steps \in 1 .. 4, wpa3_sae_perform_handshake(peer, steps)
  PROVE  LinkInv'
  <1> DEFINE s1 == wpa3_sae_compute_pwe(sl_sae, sl_drawn + 1)
             s2 == wpa3_sae_handle_commit(s1, peer)
             s3 == IF s2 = s1 THEN s2 ELSE wpa3_sae_build_confirm(s2)
             s4 == IF s2 = s1 THEN s2 ELSE wpa3_sae_handle_confirm(s3, Confirm(s3.key, s3.peer, s3.rand))
             s == CASE steps = 1 -> s1 [] steps = 2 -> s2 [] steps = 3 -> s3 [] OTHER -> s4
  <1>1. SaeCall(s)
    BY DEF wpa3_sae_perform_handshake
  <1>2. SaeStep(sl_sae, s1) /\ SaeOK(s1)
    BY DrawStep DEF LinkInv, SaeStep
  <1>3. SaeStep(sl_sae, s2) /\ SaeOK(s2)
    <2> HIDE DEF s1
    <2>1. SaeStep(s1, s2)
      BY <1>2, CommitStep
    <2> HIDE DEF s2
    <2>2. SaeOK(s2)
      BY <2>1 DEF SaeStep
    <2> QED BY <1>2, <2>1, <2>2, StepsChain
  <1> HIDE DEF s2
  <1>4. SaeStep(sl_sae, s3) /\ SaeOK(s3)
    <2> HIDE DEF s1
    <2>1. SaeStep(s2, s3)
      BY <1>3, BuildStep, SameStep
    <2> HIDE DEF s3
    <2>2. SaeOK(s3)
      BY <2>1 DEF SaeStep
    <2> QED BY <1>3, <2>1, <2>2, StepsChain
  <1> HIDE DEF s3
  <1>5. SaeStep(sl_sae, s4)
    <2> HIDE DEF s1
    <2>1. CASE s2 = s1
      BY <1>3, <2>1
    <2>2. CASE s2 # s1
      <3>1. SaeStep(s3, wpa3_sae_handle_confirm(s3, Confirm(s3.key, s3.peer, s3.rand)))
        BY <1>4, ConfirmStep
      <3> QED BY <1>4, <2>2, <3>1, StepsChain
    <2> QED BY <2>1, <2>2
  <1> HIDE DEF s1, s4
  <1>6. SaeStep(sl_sae, s)
    BY <1>2, <1>3, <1>4, <1>5
  <1>7. PICK v : v = s
    OBVIOUS
  <1>8. SaeStep(sl_sae, v) /\ SaeCall(v)
    BY <1>1, <1>6, <1>7
  <1> QED BY <1>8, SaeCallKept

LEMMA SaeKept ==
  ASSUME LinkInv, sae_call
  PROVE  LinkInv'
  <1>1. SaeOK(sl_sae)
    BY DEF LinkInv
  <1>2. PICK s : SaeStep(sl_sae, s) /\ SaeCall(s)
    <2>1. CASE SaeCall(wpa3_sae_compute_pwe(sl_sae, sl_drawn + 1))
      BY <1>1, <2>1, DrawStep
    <2>2. CASE \E peer \in SL_PEERS : SaeCall(wpa3_sae_handle_commit(sl_sae, peer))
      BY <1>1, <2>2, CommitStep
    <2>3. CASE SaeCall(wpa3_sae_build_confirm(sl_sae))
      BY <1>1, <2>3, BuildStep
    <2>4. CASE \E rand \in 1 .. sl_drawn : SaeCall(wpa3_sae_handle_confirm(sl_sae, Confirm(sl_sae.key, sl_sae.peer, rand)))
      BY <1>1, <2>4, ConfirmStep
    <2> QED BY <2>1, <2>2, <2>3, <2>4 DEF sae_call
  <1> QED BY <1>2, SaeCallKept

\* The record of a handshake with another key or counter.
LEMMA SaeSet ==
  ASSUME NEW s, SaeRecord(s)
  PROVE  /\ \A tk : /\ SaeRecord([s EXCEPT !.tk = tk]) /\ [s EXCEPT !.tk = tk].tk = tk /\ [s EXCEPT !.tk = tk].pn = s.pn
                    /\ [s EXCEPT !.tk = tk].state = s.state
         /\ LET t == [s EXCEPT !.pn = @ + 1] IN
              SaeRecord(t) /\ t.pn = s.pn + 1 /\ t.tk = s.tk /\ t.key = s.key /\ t.state = s.state /\ t.installed = s.installed
  <1>1. ASSUME NEW tk PROVE LET t == [s EXCEPT !.tk = tk] IN SaeRecord(t) /\ t.tk = tk /\ t.pn = s.pn /\ t.state = s.state
    <2> DEFINE t == [s EXCEPT !.tk = tk]
    <2>1. t = [state |-> s.state, rand |-> s.rand, peer |-> s.peer, key |-> s.key, tk |-> tk, installed |-> s.installed, pn |-> s.pn]
      BY DEF SaeRecord
    <2> HIDE DEF t
    <2>2. t = [state |-> t.state, rand |-> t.rand, peer |-> t.peer, key |-> t.key, tk |-> t.tk, installed |-> t.installed, pn |-> t.pn]
      BY <2>1
    <2>3. t.state = s.state /\ t.tk = tk /\ t.installed = s.installed /\ t.pn = s.pn
      BY <2>1
    <2>4. SaeRecord(t)
      BY <2>2, <2>3 DEF SaeRecord
    <2> QED BY <2>3, <2>4 DEF t
  <1>2. LET t == [s EXCEPT !.pn = @ + 1] IN SaeRecord(t) /\ t.pn = s.pn + 1 /\ t.tk = s.tk /\ t.key = s.key /\ t.state = s.state /\ t.installed = s.installed
    <2> DEFINE t == [s EXCEPT !.pn = @ + 1]
    <2>1. t = [state |-> s.state, rand |-> s.rand, peer |-> s.peer, key |-> s.key, tk |-> s.tk, installed |-> s.installed, pn |-> s.pn + 1]
      BY DEF SaeRecord
    <2> HIDE DEF t
    <2>2. t = [state |-> t.state, rand |-> t.rand, peer |-> t.peer, key |-> t.key, tk |-> t.tk, installed |-> t.installed, pn |-> t.pn]
      BY <2>1
    <2>3. t.state = s.state /\ t.tk = s.tk /\ t.key = s.key /\ t.installed = s.installed /\ t.pn = s.pn + 1
      BY <2>1
    <2>4. SaeRecord(t)
      BY <2>2, <2>3 DEF SaeRecord
    <2> QED BY <2>3, <2>4 DEF t
  <1> QED BY <1>1, <1>2

LEMMA SetKept ==
  ASSUME LinkInv, NEW tk \in SL_KEYS, wpa3_sae_set_keys(tk)
  PROVE  LinkInv'
  <1>1. SaeRecord(sl_sae) /\ NumbersOK /\ CryptOK /\ UNCHANGED <<sl_used, sl_crypt>> /\ sl_sae' = [sl_sae EXCEPT !.tk = tk]
    BY DEF LinkInv, SaeOK, wpa3_sae_set_keys
  <1>2. SaeRecord(sl_sae') /\ sl_sae'.tk = tk /\ sl_sae'.pn = sl_sae.pn
    BY <1>1, SaeSet
  <1>3. SaeOK(sl_sae)' /\ ConfirmedKey'
    BY <1>2 DEF SaeOK, OwnKey, ConfirmedKey, SaeRecord
  <1>4. NumbersOK' /\ CryptOK'
    BY <1>1, <1>2 DEF NumbersOK, CryptOK
  <1> QED BY <1>3, <1>4 DEF LinkInv

LEMMA FrameKept ==
  ASSUME LinkInv, wpa3_sae_encrypt_frame
  PROVE  LinkInv'
  <1> DEFINE u == <<sl_sae.tk, sl_sae.pn>>
  <1>1. /\ SaeRecord(sl_sae) /\ OwnKey(sl_sae) /\ ConfirmedKey /\ NumbersOK /\ CryptOK /\ UNCHANGED <<sl_crypt, sl_conf>>
        /\ sl_used' = sl_used \cup {u} /\ sl_sae' = [sl_sae EXCEPT !.pn = @ + 1]
    BY DEF LinkInv, SaeOK, wpa3_sae_encrypt_frame
  <1>2. /\ SaeRecord(sl_sae') /\ sl_sae'.pn = sl_sae.pn + 1 /\ sl_sae'.tk = sl_sae.tk /\ sl_sae'.key = sl_sae.key
        /\ sl_sae'.state = sl_sae.state /\ sl_sae'.installed = sl_sae.installed
    BY <1>1, SaeSet
  <1>3. SaeOK(sl_sae)'
    BY <1>1, <1>2 DEF SaeOK, OwnKey, SaeRecord
  <1>4. ConfirmedKey'
    BY <1>1, <1>2 DEF ConfirmedKey
  <1>5. NumbersOK'
    <2>1. sl_sae.pn \in Nat /\ u[2] = sl_sae.pn
      BY <1>1 DEF SaeRecord
    <2>2. IsFiniteSet(sl_used) /\ Cardinality(sl_used) = sl_sae.pn /\ \A v \in sl_used : v[2] \in Nat /\ v[2] < sl_sae.pn
      BY <1>1 DEF NumbersOK
    <2> HIDE DEF u
    <2>3. u \notin sl_used
      BY <2>1, <2>2
    <2>4. IsFiniteSet(sl_used') /\ Cardinality(sl_used') = sl_sae.pn + 1
      BY <1>1, <2>2, <2>3, FS_AddElement
    <2>5. \A v \in sl_used' : v[2] \in Nat /\ v[2] < sl_sae.pn + 1
      BY <1>1, <2>1, <2>2
    <2> QED BY <1>2, <2>4, <2>5 DEF NumbersOK
  <1>6. CryptOK'
    BY <1>1 DEF CryptOK
  <1> QED BY <1>3, <1>4, <1>5, <1>6 DEF LinkInv

LEMMA CryptKept ==
  ASSUME CryptOK, dnscrypt_call
  PROVE  CryptOK'
  <1> DEFINE c == sl_crypt
             n == Len(c.used)
  <1>1. /\ c = [key |-> c.key, nonce |-> c.nonce, used |-> c.used] /\ c.key \in SL_SERVERS \cup {0}
        /\ c.used \in Seq(Nonces) /\ c.nonce = n /\ \A i \in 1 .. n : c.used[i][2] = i - 1
    BY DEF CryptOK
  <1>2. CASE \E key \in SL_SERVERS : sl_crypt' = dnscrypt_set_server(c, key)
    <2>1. PICK key \in SL_SERVERS : sl_crypt' = [key |-> key, nonce |-> c.nonce, used |-> c.used]
      BY <1>1, <1>2 DEF dnscrypt_set_server
    <2>2. sl_crypt'.key = key /\ sl_crypt'.nonce = c.nonce /\ sl_crypt'.used = c.used
      BY <2>1
    <2> QED BY <1>1, <2>1, <2>2 DEF CryptOK
  <1>3. CASE sl_crypt' = [c EXCEPT !.nonce = @ + 1, !.used = Append(@, <<c.key, c.nonce>>)]
    <2> DEFINE e == <<c.key, c.nonce>>
               q == Append(c.used, e)
    <2>1. sl_crypt' = [key |-> c.key, nonce |-> c.nonce + 1, used |-> q]
      BY <1>1, <1>3
    <2>2. sl_crypt'.key = c.key /\ sl_crypt'.nonce = c.nonce + 1 /\ sl_crypt'.used = q
      BY <2>1
    <2>3. n \in Nat /\ e \in Nonces /\ e[2] = n
      BY <1>1 DEF Nonces
    <2> HIDE DEF e
    <2>4. q \in Seq(Nonces) /\ Len(q) = n + 1 /\ q[n + 1] = e /\ \A i \in 1 .. n : q[i] = c.used[i]
      BY <1>1, <2>3
    <2> HIDE DEF q, c, n
    <2>5. \A i \in 1 .. n + 1 : q[i][2] = i - 1
      BY <1>1, <2>3, <2>4
    <2>6. sl_crypt' = [key |-> sl_crypt'.key, nonce |-> sl_crypt'.nonce, used |-> sl_crypt'.used]
      BY <2>1, <2>2
    <2>7. sl_crypt'.key \in SL_SERVERS \cup {0} /\ sl_crypt'.nonce = Len(sl_crypt'.used)
      BY <1>1, <2>2, <2>4
    <2> QED BY <2>2, <2>4, <2>5, <2>6, <2>7 DEF CryptOK
  <1> QED BY <1>2, <1>3 DEF dnscrypt_call

LEMMA NewSaeOK == SaeOK(NewSae) /\ NewSae.pn = 0 /\ ~NewSae.installed
  BY DEF NewSae, SaeOK, SaeRecord, OwnKey

LEMMA LinkInductive == LinkInv /\ [SLNext]_slVars => LinkInv'
  <1> SUFFICES ASSUME LinkInv, [SLNext]_slVars PROVE LinkInv'
    OBVIOUS
  <1>1. ASSUME UNCHANGED <<sl_sae, sl_conf, sl_used>>, CryptOK' PROVE LinkInv'
    BY <1>1 DEF LinkInv, SaeOK, SaeRecord, OwnKey, ConfirmedKey, NumbersOK
  <1>2. ASSUME UNCHANGED sl_crypt PROVE CryptOK'
    BY <1>2 DEF LinkInv, CryptOK
  <1>3. CASE wpa3_sae_init
    <2>1. sl_sae' = NewSae /\ sl_used' = {} /\ sl_crypt' = sl_crypt
      BY <1>3 DEF wpa3_sae_init
    <2>2. NumbersOK'
      BY <2>1, NewSaeOK, FS_EmptySet DEF NumbersOK
    <2>3. SaeOK(sl_sae)'
      BY <2>1, NewSaeOK DEF SaeOK, SaeRecord, OwnKey
    <2> QED BY <1>2, <2>1, <2>2, <2>3, NewSaeOK DEF LinkInv, ConfirmedKey
  <1>4. CASE sae_call
    BY <1>4, SaeKept
  <1>5. CASE wpa2_call
    <2>1. UNCHANGED <<sl_sae, sl_conf, sl_used>> /\ UNCHANGED sl_crypt
      BY <1>5 DEF wpa2_call
    <2> QED BY <1>1, <1>2, <2>1
  <1>6. CASE \E peer \in SL_PEERS, steps \in 1 .. 4 : wpa3_sae_perform_handshake(peer, steps)
    BY <1>6, HandshakeKept
  <1>7. CASE wpa3_sae_encrypt_frame
    BY <1>7, FrameKept
  <1>8. CASE \E tk \in SL_KEYS : wpa3_sae_set_keys(tk)
    BY <1>8, SetKept
  <1>9. CASE dnscrypt_call
    <2>1. UNCHANGED <<sl_sae, sl_conf, sl_used>>
      BY <1>9 DEF dnscrypt_call
    <2>2. CryptOK
      BY DEF LinkInv
    <2> QED BY <1>1, <1>9, <2>1, <2>2, CryptKept
  <1>10. CASE \E a \in BOOLEAN : dns_dot_send_receive(a)
    <2>1. UNCHANGED <<sl_sae, sl_conf, sl_used>> /\ UNCHANGED sl_crypt
      BY <1>10 DEF dns_dot_send_receive
    <2> QED BY <1>1, <1>2, <2>1
  <1>11. CASE dns_encode
    <2>1. UNCHANGED <<sl_sae, sl_conf, sl_used>> /\ UNCHANGED sl_crypt
      BY <1>11 DEF dns_encode
    <2> QED BY <1>1, <1>2, <2>1
  <1>12. CASE UNCHANGED slVars
    <2>1. UNCHANGED <<sl_sae, sl_conf, sl_used>> /\ UNCHANGED sl_crypt
      BY <1>12 DEF slVars
    <2> QED BY <1>1, <1>2, <2>1
  <1> QED BY <1>3, <1>4, <1>5, <1>6, <1>7, <1>8, <1>9, <1>10, <1>11, <1>12 DEF SLNext

LEMMA LinkStarts == SLInit => LinkInv
  <1> SUFFICES ASSUME SLInit PROVE LinkInv
    OBVIOUS
  <1>1. sl_sae = NewSae /\ sl_used = {} /\ sl_crypt = [key |-> 0, nonce |-> 0, used |-> <<>>]
    BY DEF SLInit
  <1>2. sl_crypt.key = 0 /\ sl_crypt.nonce = 0 /\ sl_crypt.used = <<>>
    BY <1>1
  <1>3. <<>> \in Seq(Nonces) /\ Len(<<>>) = 0
    OBVIOUS
  <1>4. CryptOK
    BY <1>1, <1>2, <1>3 DEF CryptOK
  <1>5. NumbersOK
    BY <1>1, NewSaeOK, FS_EmptySet DEF NumbersOK
  <1> QED BY <1>1, <1>4, <1>5, NewSaeOK DEF LinkInv, ConfirmedKey

LEMMA LinkSound == LinkInv => LinkKeys
  <1> SUFFICES ASSUME LinkInv PROVE LinkKeys
    OBVIOUS
  <1>1. ConfirmedKey /\ NumbersOK /\ CryptOK
    BY DEF LinkInv
  <1>2. \A i, j \in DOMAIN sl_crypt.used : i # j => sl_crypt.used[i] # sl_crypt.used[j]
    <2>1. DOMAIN sl_crypt.used = 1 .. Len(sl_crypt.used) /\ \A i \in 1 .. Len(sl_crypt.used) : sl_crypt.used[i][2] = i - 1 /\ i \in Int
      BY <1>1 DEF CryptOK
    <2>2. \A i, j \in Int : i - 1 = j - 1 => i = j
      OBVIOUS
    <2> QED BY <2>1, <2>2
  <1> QED BY <1>1, <1>2 DEF LinkKeys, NonceOnce, NumbersOK

(***************************************************************************)
(* LinkKeys for every order of handshakes, frames and keys set by hand,    *)
(* every access point and every change of the DNSCrypt server.             *)
(***************************************************************************)
THEOREM LinksKeepKeys == SLSpec => []LinkKeys
  BY LinkStarts, LinkSound, LinkInductive, PTL DEF SLSpec

-----------------------------------------------------------------------------
(***************************************************************************)
(* The line editor of fish.                                                *)
(***************************************************************************)
FLText == FLChars \cup {"/", "c", "d"}
FLLine == Seq(FLText)

LEMMA CutFrom ==
  ASSUME NEW S, NEW s \in Seq(S), NEW m \in Nat, NEW n \in 0 .. Len(s), m <= n
  PROVE  /\ SubSeq(s, m + 1, n) \in Seq(S) /\ Len(SubSeq(s, m + 1, n)) = n - m
         /\ \A i \in 1 .. n - m : SubSeq(s, m + 1, n)[i] = s[m + i]
  <1> DEFINE cut == SubSeq(s, m + 1, n)
  <1>1. m + 1 \in Int /\ n \in Int /\ \A i \in m + 1 .. n : s[i] \in S
    OBVIOUS
  <1>2. /\ cut \in Seq(S) /\ Len(cut) = IF m + 1 <= n THEN n - (m + 1) + 1 ELSE 0
        /\ \A i \in 1 .. n - (m + 1) + 1 : cut[i] = s[(m + 1) + i - 1]
    BY <1>1, SubSeqProperties
  <1> HIDE DEF cut
  <1>3. (IF m + 1 <= n THEN n - (m + 1) + 1 ELSE 0) = n - m
    OBVIOUS
  <1>4. \A i \in 1 .. n - m : i \in 1 .. n - (m + 1) + 1 /\ (m + 1) + i - 1 = m + i
    OBVIOUS
  <1> QED BY <1>2, <1>3, <1>4 DEF cut

LEMMA LeftRight ==
  ASSUME fl_buf \in FLLine, NEW n \in 0 .. Len(fl_buf)
  PROVE  /\ Left(n) \in FLLine /\ Len(Left(n)) = n /\ \A i \in 1 .. n : Left(n)[i] = fl_buf[i]
         /\ Right(n) \in FLLine /\ Len(Right(n)) = Len(fl_buf) - n
         /\ \A i \in 1 .. Len(fl_buf) - n : Right(n)[i] = fl_buf[n + i]
  <1>1. Len(fl_buf) \in Nat /\ fl_buf \in Seq(FLText)
    BY DEF FLLine
  <1>2. Left(n) \in FLLine /\ Len(Left(n)) = n /\ \A i \in 1 .. n : Left(n)[i] = fl_buf[i]
    <2>1. 0 \in Nat /\ 0 <= n /\ 0 + 1 = 1 /\ n - 0 = n /\ \A i \in 1 .. n : 0 + i = i
      BY <1>1
    <2>2. /\ SubSeq(fl_buf, 0 + 1, n) \in Seq(FLText) /\ Len(SubSeq(fl_buf, 0 + 1, n)) = n - 0
          /\ \A i \in 1 .. n - 0 : SubSeq(fl_buf, 0 + 1, n)[i] = fl_buf[0 + i]
      BY <1>1, <2>1, CutFrom
    <2> QED BY <2>1, <2>2 DEF Left, FLLine
  <1>3. Len(fl_buf) \in 0 .. Len(fl_buf) /\ n \in Nat /\ n <= Len(fl_buf)
    BY <1>1
  <1>4. /\ Right(n) \in FLLine /\ Len(Right(n)) = Len(fl_buf) - n
        /\ \A i \in 1 .. Len(fl_buf) - n : Right(n)[i] = fl_buf[n + i]
    BY <1>1, <1>3, CutFrom DEF Right, FLLine
  <1> QED BY <1>2, <1>4

LEMMA FittingOf ==
  ASSUME NEW S, NEW s \in Seq(S), NEW n \in Nat
  PROVE  /\ Fitting(s, n) \in Seq(S) /\ Len(Fitting(s, n)) <= n /\ Len(Fitting(s, n)) \in Nat
         /\ Len(s) <= n => Fitting(s, n) = s
  <1> DEFINE m == IF Len(s) < n THEN Len(s) ELSE n
  <1>1. m \in 0 .. Len(s) /\ m <= n
    OBVIOUS
  <1>2. /\ SubSeq(s, 0 + 1, m) \in Seq(S) /\ Len(SubSeq(s, 0 + 1, m)) = m - 0
    <2> HIDE DEF m
    <2>1. 0 \in Nat /\ 0 <= m
      BY <1>1
    <2> QED BY <1>1, <2>1, CutFrom
  <1>3. Fitting(s, n) \in Seq(S) /\ Len(Fitting(s, n)) = m
    BY <1>1, <1>2 DEF Fitting
  <1>4. Len(s) <= n => Fitting(s, n) = s
    <2> HAVE Len(s) <= n
    <2>1. m = Len(s)
      OBVIOUS
    <2> QED BY <2>1, SubSeqFull DEF Fitting
  <1> QED BY <1>1, <1>3, <1>4

(* What is cut out of a line and put back gives the line. *)
LEMMA CutAndBack ==
  ASSUME NEW S, NEW s \in Seq(S), NEW from \in 0 .. Len(s), NEW to \in from .. Len(s)
  PROVE  LET rest == SubSeq(s, 1, from) \o SubSeq(s, to + 1, Len(s))
         IN  /\ rest \in Seq(S) /\ Len(rest) = from + (Len(s) - to)
             /\ SubSeq(rest, 1, from) \o SubSeq(s, from + 1, to) \o SubSeq(rest, from + 1, Len(rest)) = s
  <1> DEFINE L == Len(s)
             a == SubSeq(s, 0 + 1, from)
             b == SubSeq(s, from + 1, to)
             c == SubSeq(s, to + 1, L)
             rest == a \o c
  <1>1. L \in Nat /\ from \in Nat /\ to \in 0 .. L /\ from <= to /\ L \in 0 .. L /\ to <= L /\ 0 + 1 = 1
    OBVIOUS
  <1>2. a \in Seq(S) /\ Len(a) = from /\ \A i \in 1 .. from : a[i] = s[i]
    <2>1. 0 \in Nat /\ 0 <= from /\ from - 0 = from /\ \A i \in 1 .. from : 0 + i = i
      BY <1>1
    <2>2. a \in Seq(S) /\ Len(a) = from - 0 /\ \A i \in 1 .. from - 0 : a[i] = s[0 + i]
      BY <1>1, <2>1, CutFrom
    <2> HIDE DEF a
    <2> QED BY <2>1, <2>2
  <1>3. b \in Seq(S) /\ Len(b) = to - from /\ \A i \in 1 .. to - from : b[i] = s[from + i]
    BY <1>1, CutFrom
  <1>4. c \in Seq(S) /\ Len(c) = L - to /\ \A i \in 1 .. L - to : c[i] = s[to + i]
    BY <1>1, CutFrom
  <1> HIDE DEF a, b, c, L
  <1>5. /\ rest \in Seq(S) /\ Len(rest) = from + (L - to)
        /\ \A i \in 1 .. from : rest[i] = a[i]
        /\ \A i \in 1 .. L - to : rest[from + i] = c[i]
    <2>1. rest \in Seq(S) /\ Len(rest) = Len(a) + Len(c)
      BY <1>2, <1>4, ConcatProperties
    <2>2. \A i \in 1 .. Len(a) + Len(c) : rest[i] = IF i <= Len(a) THEN a[i] ELSE c[i - Len(a)]
      BY <1>2, <1>4, ConcatProperties
    <2>3. Len(a) = from /\ Len(c) = L - to /\ L - to \in Nat
      BY <1>1, <1>2, <1>4
    <2> HIDE DEF rest
    <2>4. \A i \in 1 .. from : i \in 1 .. from + (L - to) /\ i <= from
      BY <1>1, <2>3
    <2>5. \A i \in 1 .. L - to : from + i \in 1 .. from + (L - to) /\ ~(from + i <= from) /\ (from + i) - from = i
      BY <1>1, <2>3
    <2> QED BY <2>1, <2>2, <2>3, <2>4, <2>5
  <1> HIDE DEF rest
  <1> DEFINE d == SubSeq(rest, 0 + 1, from)
             e == SubSeq(rest, from + 1, Len(rest))
  <1>6. d \in Seq(S) /\ Len(d) = from /\ \A i \in 1 .. from : d[i] = rest[i]
    <2>1. 0 \in Nat /\ 0 <= from /\ from - 0 = from /\ from \in 0 .. Len(rest) /\ \A i \in 1 .. from : 0 + i = i
      BY <1>1, <1>5
    <2>2. d \in Seq(S) /\ Len(d) = from - 0 /\ \A i \in 1 .. from - 0 : d[i] = rest[0 + i]
      BY <1>5, <2>1, CutFrom
    <2> HIDE DEF d
    <2> QED BY <2>1, <2>2
  <1>7. e \in Seq(S) /\ Len(e) = L - to /\ \A i \in 1 .. L - to : e[i] = rest[from + i]
    <2>1. Len(rest) \in 0 .. Len(rest) /\ from <= Len(rest) /\ Len(rest) - from = L - to
      BY <1>1, <1>5
    <2>2. e \in Seq(S) /\ Len(e) = Len(rest) - from /\ \A i \in 1 .. Len(rest) - from : e[i] = rest[from + i]
      <3>1. Len(rest) \in Nat /\ from \in Nat
        BY <1>1, <1>5
      <3> QED BY <1>1, <1>5, <2>1, <3>1, CutFrom
    <2> HIDE DEF e
    <2> QED BY <2>1, <2>2
  <1> HIDE DEF d, e
  <1>8. d = a /\ e = c
    <2>1. \A i \in 1 .. from : d[i] = a[i]
      BY <1>5, <1>6
    <2>2. \A i \in 1 .. L - to : e[i] = c[i]
      BY <1>5, <1>7
    <2> QED BY <1>2, <1>4, <1>6, <1>7, <2>1, <2>2, SeqEqual
  <1>9. a \o b \o c = s
    <2>1. a \o b = SubSeq(s, 1, to)
      <3>1. 1 \in 1 .. L + 1 /\ from \in 1 - 1 .. L /\ to \in from .. L
        BY <1>1
      <3> QED BY <1>1, <3>1, ConcatAdjacentSubSeq DEF a, b, L
    <2>2. SubSeq(s, 1, to) \o c = SubSeq(s, 1, L)
      <3>1. 1 \in 1 .. L + 1 /\ to \in 1 - 1 .. L /\ L \in to .. L
        BY <1>1
      <3> QED BY <1>1, <3>1, ConcatAdjacentSubSeq DEF c, L
    <2> QED BY <2>1, <2>2, SubSeqFull DEF L
  <1> QED BY <1>1, <1>5, <1>8, <1>9 DEF rest, a, b, c, d, e, L

LEMMA MaxOf ==
  ASSUME NEW n \in Nat, NEW T, T \subseteq 0 .. n, T # {}
  PROVE  Max(T) \in T
  <1>1. \A x \in T : x \in Nat /\ x <= n
    OBVIOUS
  <1>2. PICK x \in T : \A y \in T : y <= x
    BY <1>1, LargestOf
  <1>3. \A y \in T : x >= y
    BY <1>1, <1>2
  <1> QED BY <1>3, Zenon DEF Max

LEMMA MinOf ==
  ASSUME NEW T, T \subseteq Nat, T # {}
  PROVE  Min(T) \in T
  <1>1. PICK x \in T : \A y \in T : x <= y
    BY SmallestOf
  <1> QED BY <1>1, Zenon DEF Min

(* A set of rounds that holds the first and, with each, the next, holds all. *)
LEMMA AllRounds ==
  ASSUME NEW n \in Nat, NEW T, 0 \in T, \A k \in 1 .. n : k - 1 \in T => k \in T
  PROVE  \A k \in 0 .. n : k \in T
  <1> DEFINE D == {k \in 0 .. n : k \notin T}
  <1>1. SUFFICES ASSUME D # {} PROVE FALSE
    OBVIOUS
  <1>2. PICK k \in D : \A j \in D : k <= j
    <2>1. D \subseteq Nat
      OBVIOUS
    <2> HIDE DEF D
    <2> QED BY <1>1, <2>1, SmallestOf
  <1>3. k \in 1 .. n /\ k - 1 \in 0 .. n
    BY <1>2
  <1>4. k - 1 \in T
    BY <1>2, <1>3
  <1> QED BY <1>2, <1>3, <1>4

(***************************************************************************)
(* A loop is a recursive function of the number of its rounds.  Its rounds *)
(* exist when the step, as a function, stays in a set.                     *)
(***************************************************************************)
RoundsOf(f, start, step, n) == f = [k \in 0 .. n |-> IF k = 0 THEN start ELSE step[<<f[k - 1], k>>]]

LEMMA RoundsThere ==
  ASSUME NEW S, NEW start \in S, NEW n \in Nat, NEW step \in [S \X (1 .. n) -> S]
  PROVE  \E f \in [0 .. n -> S] : RoundsOf(f, start, step, n)
  <1> DEFINE Is(f, m) == f \in [0 .. m -> S] /\ RoundsOf(f, start, step, m)
             T == {m \in 0 .. n : \E f : Is(f, m)}
  <1>1. 0 \in T
    <2>1. Is([k \in 0 .. 0 |-> start], 0)
      BY DEF RoundsOf
    <2> QED BY <2>1
  <1>2. ASSUME NEW m \in 1 .. n, m - 1 \in T PROVE m \in T
    <2>1. PICK f : Is(f, m - 1)
      BY <1>2
    <2> DEFINE g == [k \in 0 .. m |-> IF k = m THEN step[<<f[m - 1], m>>] ELSE f[k]]
    <2>2. m - 1 \in 0 .. m - 1 /\ f[m - 1] \in S
      BY <2>1
    <2>3. ASSUME NEW k \in 0 .. m
          PROVE  g[k] \in S /\ g[k] = IF k = 0 THEN start ELSE step[<<g[k - 1], k>>]
      <3>1. CASE k = m
        <4>1. g[k - 1] = f[m - 1] /\ k # 0 /\ g[k] = step[<<f[m - 1], m>>]
          BY <3>1
        <4>2. step[<<f[m - 1], m>>] \in S
          BY <2>2
        <4> HIDE DEF g
        <4> QED BY <3>1, <4>1, <4>2
      <3>2. CASE k # m
        <4>1. k \in 0 .. m - 1 /\ g[k] = f[k] /\ f[k] \in S
          BY <2>1, <3>2
        <4>2. f[k] = IF k = 0 THEN start ELSE step[<<f[k - 1], k>>]
          BY <2>1, <4>1 DEF RoundsOf
        <4>3. k # 0 => k - 1 \in 0 .. m /\ k - 1 # m
          BY <4>1
        <4>4. k # 0 => g[k - 1] = f[k - 1]
          BY <4>3
        <4> HIDE DEF g
        <4> QED BY <4>1, <4>2, <4>4
      <3> QED BY <3>1, <3>2
    <2>4. g = [k \in 0 .. m |-> g[k]]
      OBVIOUS
    <2> HIDE DEF g
    <2>5. g \in [0 .. m -> S]
      BY <2>3, <2>4
    <2>6. [k \in 0 .. m |-> g[k]] = [k \in 0 .. m |-> IF k = 0 THEN start ELSE step[<<g[k - 1], k>>]]
      BY <2>3
    <2>7. Is(g, m)
      BY <2>4, <2>5, <2>6 DEF RoundsOf
    <2>8. m \in 0 .. n
      OBVIOUS
    <2> QED BY <2>7, <2>8
  <1> HIDE DEF T
  <1>3. \A k \in 0 .. n : k \in T
    BY <1>1, <1>2, AllRounds
  <1>4. n \in T
    BY <1>3
  <1> QED BY <1>4 DEF T


LEMMA WordLeftIn ==
  ASSUME fl_cursor \in Nat
  PROVE  WordLeft \in 0 .. fl_cursor
  <1> DEFINE T == {0} \cup Solids(1, fl_cursor)
             m == Max(T)
             U == {0} \cup Gaps(1, m)
  <1>1. T \subseteq 0 .. fl_cursor /\ T # {}
    BY DEF Solids
  <1>2. m \in 0 .. fl_cursor
    <2> HIDE DEF T
    <2> QED BY <1>1, MaxOf
  <1> HIDE DEF m
  <1>3. U \subseteq 0 .. m /\ U # {} /\ m \in Nat
    BY <1>2 DEF Gaps
  <1>4. Max(U) \in 0 .. m
    <2> HIDE DEF U
    <2> QED BY <1>3, MaxOf
  <1>5. WordLeft = Max(U)
    BY DEF WordLeft, m
  <1> HIDE DEF U
  <1> QED BY <1>2, <1>4, <1>5

LEMMA WordStartIn ==
  ASSUME fl_cursor \in Nat
  PROVE  WordStart \in 0 .. fl_cursor
  <1> DEFINE U == {0} \cup Gaps(1, fl_cursor)
  <1>1. U \subseteq 0 .. fl_cursor /\ U # {}
    BY DEF Gaps
  <1>2. WordStart = Max(U)
    BY DEF WordStart
  <1> HIDE DEF U
  <1> QED BY <1>1, <1>2, MaxOf

LEMMA StartOf ==
  ASSUME NEW S, NEW s \in Seq(S), NEW n \in 0 .. Len(s)
  PROVE  SubSeq(s, 1, n) \in Seq(S) /\ Len(SubSeq(s, 1, n)) = n
  <1>1. 0 \in Nat /\ 0 <= n /\ 0 + 1 = 1 /\ n - 0 = n
    OBVIOUS
  <1>2. SubSeq(s, 0 + 1, n) \in Seq(S) /\ Len(SubSeq(s, 0 + 1, n)) = n - 0
    BY <1>1, CutFrom
  <1> QED BY <1>1, <1>2

LEMMA FirstWordTyped ==
  ASSUME NEW line \in FLLine
  PROVE  FirstWord(line) \in FLLine
  <1> DEFINE U == {Len(line) + 1} \cup {k \in 1 .. Len(line) : line[k] = Space}
  <1>1. Len(line) \in Nat
    BY DEF FLLine
  <1>2. U \subseteq 1 .. Len(line) + 1 /\ U # {} /\ U \subseteq Nat
    BY <1>1
  <1>3. Min(U) \in 1 .. Len(line) + 1
    <2> HIDE DEF U
    <2> QED BY <1>2, MinOf
  <1>4. FirstWord(line) = SubSeq(line, 1, Min(U) - 1)
    BY DEF FirstWord
  <1> HIDE DEF U
  <1>5. Min(U) - 1 \in 0 .. Len(line)
    BY <1>1, <1>3
  <1> QED BY <1>4, <1>5, StartOf DEF FLLine

(***************************************************************************)
(* Completion: its offers and its texts are lines.                         *)
(***************************************************************************)
FLOffer == [from : {"command", "history", "file"}, name : FLLine, word : FLLine, text : FLLine, is_dir : BOOLEAN]
FLComp == [text : FLLine, is_dir : BOOLEAN]

PastInv == fl_hist \in [FLSlots -> FLLine] /\ fl_count \in 0 .. FL_SLOTS /\ fl_idx \in Nat

LEMMA TypedLines == Seq(FLChars) \subseteq FLLine
  BY DEF FLText, FLLine

LEMMA OffersTyped ==
  ASSUME PastInv
  PROVE  Offers \in Seq(FLOffer)
  <1> DEFINE a == [i \in DOMAIN FLCommands |-> [from |-> "command", name |-> FLCommands[i], word |-> FLCommands[i],
                                text |-> FLCommands[i], is_dir |-> FALSE]]
             b == [i \in 1 .. fl_count |-> [from |-> "history", name |-> fl_hist[i - 1], word |-> FirstWord(fl_hist[i - 1]),
                               text |-> FirstWord(fl_hist[i - 1]), is_dir |-> FALSE]]
             c == [i \in DOMAIN FLFiles |-> [from |-> "file", name |-> FLFiles[i].name, word |-> FLFiles[i].name, is_dir |-> FLFiles[i].is_dir,
                                text |-> <<"/">> \o FLFiles[i].name \o (IF FLFiles[i].is_dir THEN <<"/">> ELSE <<>>)]]
  <1>1. a \in Seq(FLOffer)
    <2>1. DOMAIN FLCommands = 1 .. Len(FLCommands) /\ Len(FLCommands) \in Nat
      BY FLWords
    <2>2. \A i \in 1 .. Len(FLCommands) : FLCommands[i] \in FLLine
      BY FLWords, TypedLines
    <2>3. a \in [1 .. Len(FLCommands) -> FLOffer]
      BY <2>1, <2>2 DEF FLOffer
    <2> HIDE DEF a
    <2> QED BY <2>1, <2>3
  <1>2. b \in Seq(FLOffer)
    <2>1. fl_count \in Nat
      BY FLSizes DEF PastInv
    <2>2. \A i \in 1 .. fl_count : i - 1 \in FLSlots
      BY FLSizes DEF PastInv, FLSlots
    <2>3. \A i \in 1 .. fl_count : fl_hist[i - 1] \in FLLine
      BY <2>2 DEF PastInv
    <2>4. \A i \in 1 .. fl_count : FirstWord(fl_hist[i - 1]) \in FLLine
      BY <2>3, FirstWordTyped
    <2>5. b \in [1 .. fl_count -> FLOffer]
      BY <2>3, <2>4 DEF FLOffer
    <2> HIDE DEF b
    <2> QED BY <2>1, <2>5
  <1>3. c \in Seq(FLOffer)
    <2>1. DOMAIN FLFiles = 1 .. Len(FLFiles) /\ Len(FLFiles) \in Nat
      BY FLWords
    <2>2. ASSUME NEW i \in 1 .. Len(FLFiles)
          PROVE  /\ FLFiles[i].name \in FLLine /\ FLFiles[i].is_dir \in BOOLEAN
                 /\ <<"/">> \o FLFiles[i].name \o (IF FLFiles[i].is_dir THEN <<"/">> ELSE <<>>) \in FLLine
      <3>1. FLFiles[i] \in [name : Seq(FLChars), is_dir : BOOLEAN]
        <4> DEFINE F == [name : Seq(FLChars), is_dir : BOOLEAN]
        <4>1. FLFiles \in Seq(F)
          BY FLWords
        <4> HIDE DEF F
        <4>2. FLFiles[i] \in F
          BY <4>1
        <4> QED BY <4>2 DEF F
      <3>2. FLFiles[i].name \in FLLine /\ FLFiles[i].is_dir \in BOOLEAN
        BY <3>1, TypedLines
      <3>3. <<"/">> \in FLLine /\ <<>> \in FLLine
        BY DEF FLText, FLLine
      <3>4. \A x, y \in FLLine : x \o y \in FLLine
        BY DEF FLLine
      <3> QED BY <3>2, <3>3, <3>4
    <2>3. c \in [1 .. Len(FLFiles) -> FLOffer]
      BY <2>1, <2>2 DEF FLOffer
    <2> HIDE DEF c
    <2> QED BY <2>1, <2>3
  <1>4. Offers = a \o b \o c
    BY DEF Offers
  <1> HIDE DEF a, b, c
  <1> QED BY <1>1, <1>2, <1>3, <1>4

LEMMA CompleteTyped ==
  ASSUME NEW partial, NEW cs \in Seq(FLComp), NEW o \in FLOffer
  PROVE  Complete(partial, cs, o) \in Seq(FLComp)
  <1>1. [text |-> o.text, is_dir |-> o.is_dir] \in FLComp
    BY DEF FLOffer, FLComp
  <1>2. Append(cs, [text |-> o.text, is_dir |-> o.is_dir]) \in Seq(FLComp)
    <2> DEFINE c == [text |-> o.text, is_dir |-> o.is_dir]
    <2> HIDE DEF c
    <2> SUFFICES Append(cs, c) \in Seq(FLComp)
      BY DEF c
    <2> QED BY <1>1 DEF c
  <1> QED BY <1>2 DEF Complete

LEMMA CompsTyped ==
  ASSUME PastInv, NEW partial
  PROVE  fish_complete(partial) \in Seq(FLComp)
  <1> DEFINE n == Len(Offers)
             Cs == Seq(FLComp)
             step == [x \in Cs \X (1 .. n) |-> Complete(partial, x[1], Offers[x[2]])]
             Is(comps) == comps = [k \in 0 .. n |-> IF k = 0 THEN <<>> ELSE Complete(partial, comps[k - 1], Offers[k])]
             comps == CHOOSE comps : Is(comps)
  <1>1. n \in Nat /\ \A k \in 1 .. n : Offers[k] \in FLOffer
    BY OffersTyped
  <1>2. \A cs \in Cs, k \in 1 .. n : Complete(partial, cs, Offers[k]) \in Cs
    BY <1>1, CompleteTyped
  <1>3. step \in [Cs \X (1 .. n) -> Cs]
    BY <1>2
  <1>4. <<>> \in Cs
    OBVIOUS
  <1>5. PICK f \in [0 .. n -> Cs] : RoundsOf(f, <<>>, step, n)
    <2> HIDE DEF step, n, Cs
    <2> QED BY <1>1, <1>3, <1>4, RoundsThere
  <1>6. ASSUME NEW k \in 1 .. n PROVE k - 1 \in 0 .. n /\ step[<<f[k - 1], k>>] = Complete(partial, f[k - 1], Offers[k])
    <2>1. k - 1 \in 0 .. n
      BY <1>1
    <2>2. f[k - 1] \in Cs
      BY <2>1, <1>5
    <2> HIDE DEF Cs
    <2> QED BY <2>1, <2>2
  <1> HIDE DEF step
  <1>7. \A k \in 0 .. n : (IF k = 0 THEN <<>> ELSE step[<<f[k - 1], k>>]) = IF k = 0 THEN <<>> ELSE Complete(partial, f[k - 1], Offers[k])
    <2>1. \A k \in 0 .. n : k = 0 \/ k \in 1 .. n
      BY <1>1
    <2> HIDE DEF n
    <2> QED BY <1>6, <2>1
  <1>8. Is(f)
    <2>1. [k \in 0 .. n |-> IF k = 0 THEN <<>> ELSE step[<<f[k - 1], k>>]]
            = [k \in 0 .. n |-> IF k = 0 THEN <<>> ELSE Complete(partial, f[k - 1], Offers[k])]
      BY <1>7
    <2> QED BY <1>5, <2>1 DEF RoundsOf
  <1>9. Is(comps)
    <2> HIDE DEF Is
    <2> QED BY <1>8
  <1>10. fish_complete(partial) = comps[n]
    BY DEF fish_complete
  <1> HIDE DEF comps
  <1>11. comps[0] = <<>> /\ \A k \in 1 .. n : comps[k] = Complete(partial, comps[k - 1], Offers[k])
    BY <1>1, <1>9
  <1> DEFINE T == {k \in 0 .. n : comps[k] \in Cs}
  <1>12. 0 \in T /\ \A k \in 1 .. n : k - 1 \in T => k \in T
    <2>1. 0 \in T
      <3>1. comps[0] \in Cs
        <4> HIDE DEF Cs
        <4> QED BY <1>4, <1>11
      <3>2. 0 \in 0 .. n
        BY <1>1
      <3> HIDE DEF n, Cs
      <3> QED BY <3>1, <3>2
    <2>2. ASSUME NEW k \in 1 .. n, k - 1 \in T PROVE k \in T
      <3>1. comps[k] \in Cs
        BY <1>2, <1>11, <2>2
      <3> QED BY <1>1, <3>1
    <2> HIDE DEF T
    <2> QED BY <2>1, <2>2
  <1> HIDE DEF T
  <1>13. \A k \in 0 .. n : k \in T
    BY <1>1, <1>12, AllRounds
  <1>14. n \in 0 .. n
    BY <1>1
  <1> QED BY <1>10, <1>13, <1>14 DEF T

LEMMA CommonTyped ==
  ASSUME NEW comps \in Seq(FLComp), comps # <<>>
  PROVE  CommonPrefix(comps) \in FLLine
  <1> DEFINE text == comps[1].text
             T == {n \in 0 .. Len(text) : \A i \in DOMAIN comps : IsPrefix(SubSeq(text, 1, n), comps[i].text)}
  <1>1. \A i \in DOMAIN comps : comps[i] \in FLComp
    OBVIOUS
  <1>2. 1 \in DOMAIN comps
    OBVIOUS
  <1>3. text \in FLLine /\ Len(text) \in Nat
    BY <1>1, <1>2 DEF FLComp, FLLine
  <1>4. \A i \in DOMAIN comps : comps[i].text \in FLLine
    BY <1>1 DEF FLComp
  <1>5. 0 \in T
    <2>1. SubSeq(text, 1, 0) = <<>>
      BY <1>3, SubSeqEmpty DEF FLLine
    <2>2. ASSUME NEW i \in DOMAIN comps PROVE IsPrefix(<<>>, comps[i].text)
      BY <1>4 DEF IsPrefix, FLLine
    <2>3. \A i \in DOMAIN comps : IsPrefix(SubSeq(text, 1, 0), comps[i].text)
      BY <2>1, <2>2
    <2>4. 0 \in 0 .. Len(text)
      BY <1>3
    <2> HIDE DEF text
    <2> QED BY <2>3, <2>4
  <1>6. T \subseteq 0 .. Len(text) /\ T # {}
    BY <1>5
  <1>7. CommonPrefix(comps) = SubSeq(text, 1, Max(T))
    BY DEF CommonPrefix
  <1> HIDE DEF T, text
  <1>8. Max(T) \in 0 .. Len(text)
    BY <1>3, <1>6, MaxOf
  <1> QED BY <1>3, <1>7, <1>8, StartOf DEF FLLine


-----------------------------------------------------------------------------
(***************************************************************************)
(* The invariant of the editor: the text and the kill ring; the entries.   *)
(***************************************************************************)
TextInv ==
  /\ fl_buf \in FLLine /\ Len(fl_buf) < FL_MAX /\ fl_cursor \in 0 .. Len(fl_buf)
  /\ fl_kill = FLNone \/ fl_kill \in FLLine
  /\ YankRestores
LineInv == TextInv /\ PastInv /\ fl_overrun \in BOOLEAN

LEMMA TextSame == TextInv /\ UNCHANGED <<fl_buf, fl_cursor, fl_kill, fl_before>> => TextInv'
  BY DEF TextInv, YankRestores, Left, Right

LEMMA PastSame == PastInv /\ KeepHistory => PastInv'
  BY DEF PastInv, KeepHistory

LEMMA EditKept ==
  ASSUME TextInv, NEW buf \in FLLine, Len(buf) < FL_MAX, NEW cursor \in 0 .. Len(buf), Edit(buf, cursor),
         UNCHANGED fl_kill
  PROVE  TextInv'
  <1>1. fl_buf' = buf /\ fl_cursor' = cursor /\ fl_before' = FLNone
    BY DEF Edit
  <1>2. YankRestores'
    BY <1>1 DEF YankRestores
  <1> QED BY <1>1, <1>2 DEF TextInv

LEMMA LineCleared ==
  ASSUME NewLine
  PROVE  TextInv'
  <1>1. YankRestores'
    BY DEF YankRestores, NewLine
  <1>2. <<>> \in FLLine /\ Len(<<>>) = 0 /\ 0 < FL_MAX /\ 0 \in 0 .. 0
    BY FLSizes DEF FLLine
  <1> QED BY <1>1, <1>2 DEF TextInv, NewLine

(* What is left of a line without a piece, or with one put in. *)
LEMMA Joined ==
  ASSUME NEW a \in FLLine, NEW b \in FLLine
  PROVE  a \o b \in FLLine /\ Len(a \o b) = Len(a) + Len(b) /\ Len(a) \in Nat /\ Len(b) \in Nat
  BY DEF FLLine

LEMMA JoinedThree ==
  ASSUME NEW a \in FLLine, NEW b \in FLLine, NEW c \in FLLine
  PROVE  a \o b \o c \in FLLine /\ Len(a \o b \o c) = Len(a) + Len(b) + Len(c)
  <1>1. a \o b \in FLLine /\ Len(a \o b) = Len(a) + Len(b)
    BY Joined
  <1>2. (a \o b) \o c \in FLLine /\ Len((a \o b) \o c) = Len(a \o b) + Len(c)
    BY <1>1, Joined
  <1> QED BY <1>1, <1>2

LEMMA KillKept ==
  ASSUME TextInv, NEW from \in 0 .. Len(fl_buf), NEW to \in from .. Len(fl_buf), Kill(from, to)
  PROVE  TextInv'
  <1> DEFINE cut == SubSeq(fl_buf, from + 1, to)
             rest == Left(from) \o Right(to)
  <1>1. fl_buf \in Seq(FLText) /\ Len(fl_buf) \in Nat /\ Len(fl_buf) < FL_MAX /\ FL_KILL_MAX \in Nat /\ FL_MAX \in Nat
    BY FLSizes DEF TextInv, FLLine
  <1>2. from \in Nat /\ to \in 0 .. Len(fl_buf) /\ from <= to
    BY <1>1
  <1>3. cut \in Seq(FLText) /\ Len(cut) = to - from
    BY <1>1, <1>2, CutFrom
  <1>4. /\ rest \in Seq(FLText) /\ Len(rest) = from + (Len(fl_buf) - to)
        /\ SubSeq(rest, 1, from) \o cut \o SubSeq(rest, from + 1, Len(rest)) = fl_buf
    BY <1>1, <1>2, CutAndBack DEF Left, Right
  <1>5. /\ fl_kill' = Fitting(cut, FL_KILL_MAX) /\ fl_buf' = rest /\ fl_cursor' = from
        /\ fl_before' = IF to - from <= FL_KILL_MAX THEN fl_buf ELSE FLNone
    BY DEF Kill
  <1> HIDE DEF cut, rest
  <1>6. fl_kill' \in FLLine /\ (to - from <= FL_KILL_MAX => fl_kill' = cut)
    BY <1>1, <1>3, <1>5, FittingOf DEF FLLine
  <1>7. YankRestores'
    <2>1. SUFFICES ASSUME fl_before' # FLNone
                   PROVE  Left(fl_cursor)' \o fl_kill' \o Right(fl_cursor)' = fl_before'
      BY DEF YankRestores
    <2>2. to - from <= FL_KILL_MAX /\ fl_before' = fl_buf /\ fl_kill' = cut
      BY <1>5, <1>6, <2>1
    <2>3. Left(fl_cursor)' = SubSeq(rest, 1, from) /\ Right(fl_cursor)' = SubSeq(rest, from + 1, Len(rest))
      BY <1>5 DEF Left, Right
    <2> QED BY <1>4, <2>2, <2>3
  <1>8. Len(rest) < FL_MAX /\ from \in 0 .. Len(rest)
    BY <1>1, <1>2, <1>4
  <1> QED BY <1>4, <1>5, <1>6, <1>7, <1>8 DEF TextInv, FLLine


LEMMA LineFacts ==
  ASSUME TextInv
  PROVE  /\ Len(fl_buf) \in Nat /\ fl_cursor \in Nat /\ fl_cursor <= Len(fl_buf) /\ fl_buf \in FLLine
         /\ Len(fl_buf) < FL_MAX /\ FL_MAX \in Nat /\ FL_MAX - 1 \in Nat
  BY FLSizes DEF TextInv, FLLine

LEMMA TypedKept ==
  ASSUME LineInv, NEW c \in FLChars, typed(c)
  PROVE  LineInv'
  <1>1. TextInv /\ PastInv /\ PastInv' /\ fl_overrun' = fl_overrun /\ fl_kill' = fl_kill
    BY PastSame DEF LineInv, typed
  <1>2. CASE Len(fl_buf) < FL_MAX - 1
    <2> DEFINE buf == Left(fl_cursor) \o <<c>> \o Right(fl_cursor)
    <2>1. Edit(buf, fl_cursor + 1)
      BY <1>2 DEF typed
    <2>2. /\ Left(fl_cursor) \in FLLine /\ Len(Left(fl_cursor)) = fl_cursor
          /\ Right(fl_cursor) \in FLLine /\ Len(Right(fl_cursor)) = Len(fl_buf) - fl_cursor
      BY <1>1, LeftRight DEF TextInv
    <2>3. <<c>> \in FLLine /\ Len(<<c>>) = 1
      BY DEF FLLine, FLText
    <2>4. buf \in FLLine /\ Len(buf) = fl_cursor + 1 + (Len(fl_buf) - fl_cursor)
      BY <2>2, <2>3, JoinedThree
    <2> HIDE DEF buf
    <2>5. Len(buf) < FL_MAX /\ fl_cursor + 1 \in 0 .. Len(buf)
      BY <1>1, <1>2, <2>4, LineFacts
    <2>6. TextInv'
      BY <1>1, <2>1, <2>4, <2>5, EditKept
    <2> QED BY <1>1, <2>6 DEF LineInv
  <1>3. CASE ~(Len(fl_buf) < FL_MAX - 1)
    <2>1. UNCHANGED <<fl_buf, fl_cursor, fl_before>>
      BY <1>3 DEF typed
    <2>2. TextInv'
      BY <1>1, <2>1, TextSame
    <2> QED BY <1>1, <2>2 DEF LineInv
  <1> QED BY <1>2, <1>3

(* Backspace and Delete take one character out. *)
LEMMA TakeOut ==
  ASSUME TextInv, NEW n \in 0 .. Len(fl_buf), n < Len(fl_buf), Edit(Left(n) \o Right(n + 1), n), UNCHANGED fl_kill
  PROVE  TextInv'
  <1> DEFINE buf == Left(n) \o Right(n + 1)
  <1>1. n + 1 \in 0 .. Len(fl_buf)
    BY LineFacts
  <1>2. /\ Left(n) \in FLLine /\ Len(Left(n)) = n
        /\ Right(n + 1) \in FLLine /\ Len(Right(n + 1)) = Len(fl_buf) - (n + 1)
    BY <1>1, LeftRight DEF TextInv
  <1>3. buf \in FLLine /\ Len(buf) = n + (Len(fl_buf) - (n + 1))
    BY <1>2, Joined
  <1> HIDE DEF buf
  <1>4. Len(buf) < FL_MAX /\ n \in 0 .. Len(buf)
    BY <1>3, LineFacts
  <1>5. Edit(buf, n)
    BY DEF buf
  <1> QED BY <1>3, <1>4, <1>5, EditKept

LEMMA BackspaceKept == LineInv /\ key_backspace => LineInv'
  <1>1. SUFFICES ASSUME LineInv, key_backspace PROVE LineInv'
    OBVIOUS
  <1>2. TextInv /\ PastInv' /\ fl_overrun' = fl_overrun /\ fl_kill' = fl_kill
    BY <1>1, PastSame DEF LineInv, key_backspace, KeepRing
  <1>3. fl_cursor - 1 \in 0 .. Len(fl_buf) /\ fl_cursor - 1 < Len(fl_buf) /\ (fl_cursor - 1) + 1 = fl_cursor
    BY <1>1, <1>2, LineFacts DEF key_backspace
  <1>4. Edit(Left(fl_cursor - 1) \o Right((fl_cursor - 1) + 1), fl_cursor - 1)
    BY <1>1, <1>3 DEF key_backspace
  <1>5. TextInv'
    BY <1>2, <1>3, <1>4, TakeOut
  <1> QED BY <1>1, <1>2, <1>5 DEF LineInv

LEMMA DeleteKept == LineInv /\ key_delete => LineInv'
  <1>1. SUFFICES ASSUME LineInv, key_delete PROVE LineInv'
    OBVIOUS
  <1>2. TextInv /\ PastInv' /\ fl_overrun' = fl_overrun /\ fl_kill' = fl_kill
    BY <1>1, PastSame DEF LineInv, key_delete, KeepRing
  <1>3. fl_cursor \in 0 .. Len(fl_buf) /\ fl_cursor < Len(fl_buf)
    BY <1>1, <1>2, LineFacts DEF key_delete
  <1>4. Edit(Left(fl_cursor) \o Right(fl_cursor + 1), fl_cursor)
    BY <1>1 DEF key_delete
  <1>5. TextInv'
    BY <1>2, <1>3, <1>4, TakeOut
  <1> QED BY <1>1, <1>2, <1>5 DEF LineInv

LEMMA MoveKeyKept == LineInv /\ key_move => LineInv'
  <1>1. SUFFICES ASSUME LineInv, key_move PROVE LineInv'
    OBVIOUS
  <1>2. TextInv /\ PastInv' /\ fl_overrun' = fl_overrun /\ fl_kill' = fl_kill /\ fl_buf' = fl_buf
    BY <1>1, PastSame DEF LineInv, key_move, KeepRing
  <1>3. fl_cursor' \in 0 .. Len(fl_buf) /\ fl_before' = IF fl_cursor' = fl_cursor THEN fl_before ELSE FLNone
    BY <1>1 DEF key_move
  <1>4. TextInv'
    <2>1. CASE fl_cursor' = fl_cursor
      BY <1>2, <1>3, <2>1, TextSame
    <2>2. CASE fl_cursor' # fl_cursor
      <3>1. YankRestores'
        BY <1>3, <2>2 DEF YankRestores
      <3> QED BY <1>2, <1>3, <3>1 DEF TextInv
    <2> QED BY <2>1, <2>2
  <1> QED BY <1>1, <1>2, <1>4 DEF LineInv

(* Ctrl-U, Ctrl-K and Ctrl-W. *)
LEMMA KillsKept == LineInv /\ (key_ctrl_u \/ key_ctrl_k \/ key_ctrl_w) => LineInv'
  <1>1. SUFFICES ASSUME LineInv, key_ctrl_u \/ key_ctrl_k \/ key_ctrl_w PROVE LineInv'
    OBVIOUS
  <1>2. TextInv /\ PastInv' /\ fl_overrun' = fl_overrun
    BY <1>1, PastSame DEF LineInv, key_ctrl_u, key_ctrl_k, key_ctrl_w
  <1>3. /\ Len(fl_buf) \in Nat /\ fl_cursor \in 0 .. Len(fl_buf) /\ 0 \in 0 .. Len(fl_buf)
        /\ Len(fl_buf) \in fl_cursor .. Len(fl_buf) /\ fl_cursor \in Nat
    BY <1>2, LineFacts
  <1>4. WordLeft \in 0 .. Len(fl_buf) /\ fl_cursor \in WordLeft .. Len(fl_buf)
    BY <1>3, WordLeftIn
  <1>5. Kill(0, fl_cursor) \/ Kill(fl_cursor, Len(fl_buf)) \/ Kill(WordLeft, fl_cursor)
    BY <1>1 DEF key_ctrl_u, key_ctrl_k, key_ctrl_w
  <1>6. TextInv'
    BY <1>2, <1>3, <1>4, <1>5, KillKept
  <1> QED BY <1>1, <1>2, <1>6 DEF LineInv

(* What fits into the rest of the buffer is put in at the cursor. *)
LEMMA YankKept == LineInv /\ key_ctrl_y => LineInv'
  <1>1. SUFFICES ASSUME LineInv, key_ctrl_y PROVE LineInv'
    OBVIOUS
  <1> DEFINE paste == Fitting(fl_kill, FL_MAX - 1 - Len(fl_buf))
             buf == Left(fl_cursor) \o paste \o Right(fl_cursor)
  <1>2. TextInv /\ PastInv' /\ fl_overrun' = fl_overrun /\ fl_kill' = fl_kill
    BY <1>1, PastSame DEF LineInv, key_ctrl_y, KeepRing
  <1>3. fl_kill \in Seq(FLText) /\ Edit(buf, fl_cursor + Len(paste))
    BY <1>1, <1>2 DEF key_ctrl_y, TextInv, FLLine
  <1>4. FL_MAX - 1 - Len(fl_buf) \in Nat
    BY <1>2, LineFacts
  <1>5. paste \in FLLine /\ Len(paste) <= FL_MAX - 1 - Len(fl_buf) /\ Len(paste) \in Nat
    BY <1>3, <1>4, FittingOf DEF FLLine
  <1> HIDE DEF paste
  <1>6. /\ Left(fl_cursor) \in FLLine /\ Len(Left(fl_cursor)) = fl_cursor
        /\ Right(fl_cursor) \in FLLine /\ Len(Right(fl_cursor)) = Len(fl_buf) - fl_cursor
    BY <1>2, LeftRight DEF TextInv
  <1>7. buf \in FLLine /\ Len(buf) = fl_cursor + Len(paste) + (Len(fl_buf) - fl_cursor)
    BY <1>5, <1>6, JoinedThree
  <1> HIDE DEF buf
  <1>8. Len(buf) < FL_MAX /\ fl_cursor + Len(paste) \in 0 .. Len(buf)
    BY <1>2, <1>5, <1>7, LineFacts
  <1>9. TextInv'
    BY <1>2, <1>3, <1>7, <1>8, EditKept
  <1> QED BY <1>1, <1>2, <1>9 DEF LineInv

(* A completion is put in when the line with it is no longer than the buffer. *)
LEMMA CompletedOf ==
  ASSUME TextInv, NEW text \in FLLine
  PROVE  /\ Completed(text) \in FLLine /\ Len(Completed(text)) \in Nat
         /\ Len(Right(fl_cursor)) \in Nat /\ Len(Right(fl_cursor)) <= Len(Completed(text))
  <1>1. WordStart \in 0 .. Len(fl_buf) /\ fl_cursor \in 0 .. Len(fl_buf)
    BY LineFacts, WordStartIn
  <1>2. Left(WordStart) \in FLLine /\ Right(fl_cursor) \in FLLine
    BY <1>1, LeftRight DEF TextInv
  <1>3. Left(WordStart) \o text \in FLLine /\ Len(Left(WordStart) \o text) \in Nat
    BY <1>2, Joined
  <1>4. /\ Completed(text) \in FLLine /\ Len(Right(fl_cursor)) \in Nat
        /\ Len(Completed(text)) = Len(Left(WordStart) \o text) + Len(Right(fl_cursor))
    BY <1>2, <1>3, Joined DEF Completed
  <1> QED BY <1>3, <1>4

LEMMA TabKept == LineInv /\ key_tab => LineInv'
  <1>1. SUFFICES ASSUME LineInv, key_tab PROVE LineInv'
    OBVIOUS
  <1> DEFINE comps  == fish_complete(Right(WordStart))
             common == CommonPrefix(comps)
             line   == IF Len(comps) = 1 THEN Completed(comps[1].text) ELSE Completed(common)
             space  == Len(comps) = 1 /\ ~ comps[1].is_dir /\ Len(line) < FL_MAX - 1
             rest == Len(Right(fl_cursor))
             buf == IF space THEN Append(line, Space) ELSE line
             cursor == Len(line) - rest + (IF space THEN 1 ELSE 0)
  <1>2. TextInv /\ PastInv /\ PastInv' /\ fl_kill' = fl_kill
    BY <1>1, PastSame DEF LineInv, key_tab, KeepRing
  <1>3. comps \in Seq(FLComp)
    BY <1>2, CompsTyped
  <1>4. /\ comps # <<>>
        /\ IF Len(line) > FL_MAX - 1
           THEN fl_overrun' = TRUE /\ UNCHANGED <<fl_buf, fl_cursor, fl_before>>
           ELSE Edit(buf, cursor) /\ UNCHANGED fl_overrun
    BY <1>1 DEF key_tab
  <1> HIDE DEF comps
  <1>5. common \in FLLine /\ comps[1].text \in FLLine
    <2>1. comps[1] \in FLComp
      BY <1>3, <1>4
    <2> QED BY <1>3, <1>4, <2>1, CommonTyped DEF FLComp
  <1> HIDE DEF common
  <1>6. line \in FLLine /\ Len(line) \in Nat /\ rest \in Nat /\ rest <= Len(line)
    BY <1>2, <1>5, CompletedOf
  <1> HIDE DEF line, rest
  <1>7. CASE Len(line) > FL_MAX - 1
    <2>1. TextInv' /\ fl_overrun' \in BOOLEAN
      BY <1>2, <1>4, <1>7, TextSame
    <2> QED BY <1>2, <2>1 DEF LineInv
  <1>8. CASE ~(Len(line) > FL_MAX - 1)
    <2>1. Edit(buf, cursor) /\ fl_overrun' = fl_overrun
      BY <1>4, <1>8
    <2>2. Space \in FLText
      BY FLWords DEF FLText
    <2>3. space => Len(line) < FL_MAX - 1
      OBVIOUS
    <2>4. buf \in FLLine /\ Len(buf) = Len(line) + (IF space THEN 1 ELSE 0)
      <3> HIDE DEF space
      <3> QED BY <1>6, <2>2 DEF FLLine
    <2> HIDE DEF buf, space
    <2>5. Len(buf) < FL_MAX /\ cursor \in 0 .. Len(buf)
      BY <1>2, <1>6, <1>8, <2>3, <2>4, LineFacts
    <2> HIDE DEF cursor
    <2>6. TextInv'
      BY <1>2, <2>1, <2>4, <2>5, EditKept
    <2> QED BY <1>1, <1>2, <2>1, <2>6 DEF LineInv
  <1> QED BY <1>7, <1>8


-----------------------------------------------------------------------------
(***************************************************************************)
(* The entries that are recalled, searched and remembered.                 *)
(***************************************************************************)
LEMMA LineRecalled ==
  ASSUME TextInv, NEW entry \in FLLine, UNCHANGED fl_kill,
         LET line == Fitting(entry, FL_MAX - 1) IN Edit(line, Len(line))
  PROVE  TextInv'
  <1> DEFINE line == Fitting(entry, FL_MAX - 1)
  <1>1. FL_MAX - 1 \in Nat /\ entry \in Seq(FLText)
    BY FLSizes DEF FLLine
  <1>2. line \in FLLine /\ Len(line) <= FL_MAX - 1 /\ Len(line) \in Nat
    BY <1>1, FittingOf DEF FLLine
  <1>3. Edit(line, Len(line))
    OBVIOUS
  <1> HIDE DEF line
  <1>4. Len(line) < FL_MAX /\ Len(line) \in 0 .. Len(line)
    BY <1>2, FLSizes
  <1> QED BY <1>2, <1>3, <1>4, EditKept

LEMMA RecallKept ==
  ASSUME LineInv, NEW i \in Nat, Recall(i), KeepRing, UNCHANGED <<fl_hist, fl_count>>
  PROVE  LineInv'
  <1>1. TextInv /\ PastInv /\ fl_kill' = fl_kill /\ PastInv'
    BY DEF LineInv, KeepRing, Recall, PastInv
  <1>2. CASE i \in FLSlots
    <2>1. fl_hist[i] \in FLLine /\ fl_overrun' = fl_overrun
      BY <1>1, <1>2 DEF PastInv, Recall
    <2>2. TextInv'
      BY <1>1, <1>2, <2>1, LineRecalled DEF Recall
    <2> QED BY <1>1, <2>1, <2>2 DEF LineInv
  <1>3. CASE i \notin FLSlots
    <2>1. fl_overrun' = TRUE /\ UNCHANGED <<fl_buf, fl_cursor, fl_before>>
      BY <1>3 DEF Recall
    <2>2. TextInv'
      BY <1>1, <2>1, TextSame
    <2> QED BY <1>1, <2>1, <2>2 DEF LineInv
  <1> QED BY <1>2, <1>3

LEMMA UpKept == LineInv /\ key_up => LineInv'
  <1>1. SUFFICES ASSUME LineInv, key_up PROVE LineInv'
    OBVIOUS
  <1>2. fl_idx - 1 \in Nat
    BY <1>1 DEF LineInv, PastInv, key_up
  <1> QED BY <1>1, <1>2, RecallKept DEF key_up

LEMMA DownKept == LineInv /\ key_down => LineInv'
  <1>1. SUFFICES ASSUME LineInv, key_down PROVE LineInv'
    OBVIOUS
  <1>2. TextInv /\ PastInv /\ fl_idx + 1 \in Nat /\ fl_kill' = fl_kill /\ KeepRing /\ UNCHANGED <<fl_hist, fl_count>>
    BY <1>1 DEF LineInv, PastInv, key_down, KeepRing
  <1>3. CASE fl_count = 0 \/ fl_idx < fl_count - 1
    BY <1>1, <1>2, <1>3, RecallKept DEF key_down
  <1>4. CASE ~(fl_count = 0 \/ fl_idx < fl_count - 1)
    <2>1. fl_idx' = fl_count /\ Edit(<<>>, 0) /\ fl_overrun' = fl_overrun
      BY <1>1, <1>4 DEF key_down
    <2>2. <<>> \in FLLine /\ Len(<<>>) < FL_MAX /\ 0 \in 0 .. Len(<<>>)
      BY FLSizes DEF FLLine
    <2>3. TextInv'
      BY <1>2, <2>1, <2>2, EditKept
    <2>4. PastInv'
      BY <1>2, <2>1, FLSizes DEF PastInv
    <2> QED BY <1>1, <2>1, <2>3, <2>4 DEF LineInv
  <1> QED BY <1>3, <1>4

LEMMA NewestEntry ==
  ASSUME PastInv, NEW prefix, Newest(prefix) # FLNone
  PROVE  Newest(prefix) \in FLLine
  <1> DEFINE hits == {i \in 0 .. fl_count - 1 : IsPrefix(prefix, fl_hist[i])}
             last == CHOOSE i \in hits : \A j \in hits : j <= i
  <1>1. hits # {} /\ Newest(prefix) = fl_hist[last]
    BY DEF Newest
  <1>2. hits \subseteq FLSlots /\ hits \subseteq Nat /\ FL_SLOTS \in Nat /\ \A j \in hits : j <= FL_SLOTS
    BY FLSizes DEF PastInv, FLSlots
  <1> HIDE DEF hits
  <1>3. \E i \in hits : \A j \in hits : j <= i
    BY <1>1, <1>2, LargestOf
  <1>4. last \in hits
    BY <1>3
  <1> HIDE DEF last
  <1> QED BY <1>1, <1>2, <1>4 DEF PastInv

LEMMA SearchKept == LineInv /\ key_ctrl_r => LineInv'
  <1>1. SUFFICES ASSUME LineInv, key_ctrl_r PROVE LineInv'
    OBVIOUS
  <1>2. TextInv /\ PastInv /\ PastInv' /\ fl_kill' = fl_kill /\ fl_overrun' = fl_overrun
    BY <1>1, PastSame DEF LineInv, key_ctrl_r
  <1>3. CASE fl_search \in {FLNone, <<>>} \/ Newest(fl_search) = FLNone
    <2>1. UNCHANGED <<fl_buf, fl_cursor, fl_before>>
      BY <1>1, <1>3 DEF key_ctrl_r
    <2>2. TextInv'
      BY <1>2, <2>1, TextSame
    <2> QED BY <1>1, <1>2, <2>2 DEF LineInv
  <1>4. CASE ~(fl_search \in {FLNone, <<>>} \/ Newest(fl_search) = FLNone)
    <2>1. Newest(fl_search) \in FLLine
      BY <1>2, <1>4, NewestEntry
    <2>2. LET line == Fitting(Newest(fl_search), FL_MAX - 1) IN Edit(line, Len(line))
      BY <1>1, <1>4 DEF key_ctrl_r
    <2>3. TextInv'
      BY <1>2, <2>1, <2>2, LineRecalled
    <2> QED BY <1>1, <1>2, <2>3 DEF LineInv
  <1> QED BY <1>3, <1>4

LEMMA RememberKept ==
  ASSUME NEW count \in 0 .. FL_SLOTS, NEW hist \in [FLSlots -> FLLine], NEW line \in FLLine, Remember(count, hist, line)
  PROVE  PastInv'
  <1> DEFINE keep == count < FL_SLOTS /\ (count = 0 \/ hist[count - 1] # line)
  <1>1. /\ fl_hist' = IF keep THEN [hist EXCEPT ![count] = line] ELSE hist
        /\ fl_count' = IF keep THEN count + 1 ELSE count
        /\ fl_idx' = fl_count'
    BY DEF Remember
  <1>2. keep => count < FL_SLOTS
    OBVIOUS
  <1> HIDE DEF keep
  <1>3. fl_hist' \in [FLSlots -> FLLine]
    BY <1>1
  <1>4. fl_count' \in 0 .. FL_SLOTS
    BY <1>1, <1>2, FLSizes
  <1>5. fl_idx' \in Nat
    BY <1>1, <1>4, FLSizes
  <1> QED BY <1>3, <1>4, <1>5 DEF PastInv

LEMMA EnterKept == LineInv /\ key_enter => LineInv'
  <1>1. SUFFICES ASSUME LineInv, key_enter PROVE LineInv'
    OBVIOUS
  <1>2. TextInv /\ PastInv /\ TextInv' /\ fl_overrun' = fl_overrun
    BY <1>1, LineCleared DEF LineInv, key_enter
  <1>3. PastInv'
    <2>1. CASE fl_buf = <<>>
      BY <1>1, <1>2, <2>1, PastSame DEF key_enter
    <2>2. CASE fl_buf # <<>>
      <3>1. Remember(fl_count, fl_hist, fl_buf)
        BY <1>1, <2>2 DEF key_enter, Remember
      <3>2. fl_count \in 0 .. FL_SLOTS /\ fl_hist \in [FLSlots -> FLLine] /\ fl_buf \in FLLine
        BY <1>2 DEF PastInv, TextInv
      <3> QED BY <3>1, <3>2, RememberKept
    <2> QED BY <2>1, <2>2
  <1> QED BY <1>1, <1>2, <1>3 DEF LineInv

LEMMA HistoryKept == LineInv /\ (fish_history_clear \/ \E i \in FLSlots : fish_history_delete(i)) => LineInv'
  <1>1. SUFFICES ASSUME LineInv, fish_history_clear \/ \E i \in FLSlots : fish_history_delete(i) PROVE LineInv'
    OBVIOUS
  <1>2. TextInv /\ PastInv /\ TextInv' /\ fl_overrun' = fl_overrun
    BY <1>1, LineCleared DEF LineInv, fish_history_clear, fish_history_delete
  <1>3. <<"c">> \in FLLine /\ <<"d">> \in FLLine /\ 0 \in 0 .. FL_SLOTS
    BY FLSizes DEF FLLine, FLText
  <1>4. CASE fish_history_clear
    <2>1. PastInv'
      <3> DEFINE line == <<"c">>
      <3>1. Remember(0, fl_hist, line) /\ fl_hist \in [FLSlots -> FLLine] /\ line \in FLLine
        BY <1>2, <1>3, <1>4 DEF fish_history_clear, PastInv
      <3> HIDE DEF line
      <3> QED BY <1>3, <3>1, RememberKept
    <2> QED BY <1>1, <1>2, <2>1 DEF LineInv
  <1>5. CASE \E i \in FLSlots : fish_history_delete(i)
    <2>1. PICK i \in FLSlots : fish_history_delete(i)
      BY <1>5
    <2> DEFINE hist == [s \in FLSlots |-> IF s >= i /\ s + 1 < fl_count THEN fl_hist[s + 1] ELSE fl_hist[s]]
    <2>2. i < fl_count /\ Remember(fl_count - 1, hist, <<"d">>)
      BY <2>1 DEF fish_history_delete
    <2>3. fl_count - 1 \in 0 .. FL_SLOTS
      BY <1>2, <2>2, FLSizes DEF PastInv, FLSlots
    <2>4. \A s \in FLSlots : s + 1 < fl_count => s + 1 \in FLSlots
      BY <1>2, FLSizes DEF PastInv, FLSlots
    <2>5. hist \in [FLSlots -> FLLine]
      BY <1>2, <2>4 DEF PastInv
    <2> HIDE DEF hist
    <2>6. PastInv'
      <3> DEFINE line == <<"d">>
      <3>1. Remember(fl_count - 1, hist, line) /\ line \in FLLine
        BY <1>3, <2>2
      <3> HIDE DEF line
      <3> QED BY <2>3, <2>5, <3>1, RememberKept
    <2> QED BY <1>1, <1>2, <2>6 DEF LineInv
  <1> QED BY <1>1, <1>4, <1>5

LEMMA LineInductive == LineInv /\ [FLNext]_flVars => LineInv'
  <1>1. SUFFICES ASSUME LineInv, [FLNext]_flVars PROVE LineInv'
    OBVIOUS
  <1>2. CASE UNCHANGED flVars
    <2>1. TextInv /\ PastInv
      BY <1>1 DEF LineInv
    <2>2. TextInv'
      BY <1>2, <2>1, TextSame DEF flVars
    <2>3. PastInv'
      BY <1>2, <2>1, PastSame DEF flVars, KeepHistory
    <2> QED BY <1>1, <1>2, <2>2, <2>3 DEF LineInv, flVars
  <1>3. CASE FLNext
    <2>1. \/ \E c \in FLChars : typed(c)
          \/ key_backspace \/ key_delete \/ key_move
          \/ key_ctrl_u \/ key_ctrl_k \/ key_ctrl_w \/ key_ctrl_y
          \/ key_tab \/ key_up \/ key_down \/ key_ctrl_r
          \/ key_enter \/ key_ctrl_c
          \/ fish_history_clear \/ \E i \in FLSlots : fish_history_delete(i)
      BY <1>3 DEF FLNext
    <2>2. CASE key_ctrl_c
      <3>1. TextInv' /\ PastInv' /\ fl_overrun' = fl_overrun
        BY <1>1, <2>2, LineCleared, PastSame DEF LineInv, key_ctrl_c
      <3> QED BY <1>1, <3>1 DEF LineInv
    <2> QED BY <1>1, <2>1, <2>2, TypedKept, BackspaceKept, DeleteKept, MoveKeyKept, KillsKept, YankKept, TabKept,
               UpKept, DownKept, SearchKept, EnterKept, HistoryKept
  <1> QED BY <1>1, <1>2, <1>3

LEMMA LineStarts == FLInit => LineInv
  <1>1. SUFFICES ASSUME FLInit PROVE LineInv
    OBVIOUS
  <1>2. <<>> \in FLLine /\ Len(<<>>) = 0 /\ 0 < FL_MAX /\ 0 \in 0 .. 0 /\ 0 \in 0 .. FL_SLOTS /\ 0 \in Nat
    BY FLSizes DEF FLLine
  <1>3. TextInv
    BY <1>1, <1>2 DEF TextInv, FLInit, YankRestores
  <1>4. PastInv
    BY <1>1, <1>2 DEF PastInv, FLInit
  <1> QED BY <1>1, <1>3, <1>4 DEF LineInv, FLInit

LEMMA LineSound == LineInv => FLTypeOK /\ YankRestores
  BY DEF LineInv, TextInv, PastInv, FLTypeOK, FLLine, FLText

-----------------------------------------------------------------------------
(***************************************************************************)
(* The session of fish.  A frame, an entry of a table and a word are       *)
(* values of any kind, so a sequence is one over some set.                 *)
(***************************************************************************)
IsSeq(s) == \E S : s \in Seq(S)

LEMMA SeqTyped ==
  ASSUME NEW S, NEW s \in Seq(S)
  PROVE  IsSeq(s)
  BY DEF IsSeq

LEMMA SeqLen ==
  ASSUME NEW s, IsSeq(s)
  PROVE  Len(s) \in Nat /\ DOMAIN s = 1 .. Len(s) /\ (s # <<>> <=> Len(s) > 0)
  BY DEF IsSeq

LEMMA SeqAppend ==
  ASSUME NEW s, IsSeq(s), NEW x
  PROVE  /\ IsSeq(Append(s, x)) /\ Len(Append(s, x)) = Len(s) + 1 /\ Append(s, x) # <<>>
         /\ \A i \in 1 .. Len(s) : Append(s, x)[i] = s[i]
         /\ Append(s, x)[Len(s) + 1] = x
  <1>1. PICK S : s \in Seq(S)
    BY DEF IsSeq
  <1>2. s \in Seq(S \cup {x}) /\ x \in S \cup {x}
    BY <1>1
  <1>3. Append(s, x) \in Seq(S \cup {x}) /\ Len(Append(s, x)) = Len(s) + 1
    BY <1>2
  <1>4. /\ \A i \in 1 .. Len(s) : Append(s, x)[i] = s[i]
        /\ Append(s, x)[Len(s) + 1] = x
    BY <1>2
  <1>5. Append(s, x) # <<>>
    <2> DEFINE a == Append(s, x)
    <2>1. a \in Seq(S \cup {x}) /\ Len(a) = Len(s) + 1 /\ Len(s) \in Nat
      BY <1>2, <1>3
    <2> HIDE DEF a
    <2>2. a # <<>>
      BY <2>1
    <2> QED BY <2>2 DEF a
  <1> QED BY <1>3, <1>4, <1>5 DEF IsSeq

LEMMA SeqFront ==
  ASSUME NEW s, IsSeq(s), s # <<>>
  PROVE  /\ IsSeq(Front(s)) /\ Len(Front(s)) = Len(s) - 1 /\ \A i \in 1 .. Len(s) - 1 : Front(s)[i] = s[i]
         /\ Last(s) = s[Len(s)]
  <1>1. PICK S : s \in Seq(S)
    BY DEF IsSeq
  <1>2. Len(s) - 1 \in 0 .. Len(s) /\ 0 + 1 = 1 /\ 0 \in Nat /\ 0 <= Len(s) - 1 /\ (Len(s) - 1) - 0 = Len(s) - 1
        /\ \A i \in 1 .. Len(s) - 1 : 0 + i = i
    BY <1>1
  <1>3. /\ SubSeq(s, 0 + 1, Len(s) - 1) \in Seq(S) /\ Len(SubSeq(s, 0 + 1, Len(s) - 1)) = (Len(s) - 1) - 0
        /\ \A i \in 1 .. (Len(s) - 1) - 0 : SubSeq(s, 0 + 1, Len(s) - 1)[i] = s[0 + i]
    BY <1>1, <1>2, CutFrom
  <1>4. Front(s) = SubSeq(s, 0 + 1, Len(s) - 1)
    BY <1>2 DEF Front
  <1>5. Front(s) \in Seq(S) /\ Len(Front(s)) = Len(s) - 1 /\ \A i \in 1 .. Len(s) - 1 : Front(s)[i] = s[i]
    BY <1>2, <1>3, <1>4
  <1> QED BY <1>5 DEF IsSeq, Last

LEMMA SeqJoined ==
  ASSUME NEW s, IsSeq(s), NEW t, IsSeq(t)
  PROVE  IsSeq(s \o t) /\ Len(s \o t) = Len(s) + Len(t)
  <1>1. PICK S : s \in Seq(S)
    BY DEF IsSeq
  <1>2. PICK T : t \in Seq(T)
    BY DEF IsSeq
  <1>3. s \in Seq(S \cup T) /\ t \in Seq(S \cup T)
    BY <1>1, <1>2
  <1>4. s \o t \in Seq(S \cup T) /\ Len(s \o t) = Len(s) + Len(t)
    BY <1>3, ConcatProperties
  <1> QED BY <1>4 DEF IsSeq

LEMMA SeqMade ==
  ASSUME NEW n \in Nat, NEW f, f = [i \in 1 .. n |-> f[i]]
  PROVE  IsSeq(f) /\ Len(f) = n
  <1> DEFINE S == {f[i] : i \in 1 .. n}
  <1>1. [i \in 1 .. n |-> f[i]] \in [1 .. n -> S]
    OBVIOUS
  <1>2. f \in [1 .. n -> S]
    BY <1>1, Zenon
  <1> HIDE DEF S
  <1>3. f \in Seq(S) /\ Len(f) = n
    BY <1>2
  <1> QED BY <1>3 DEF IsSeq

LEMMA FindOf ==
  ASSUME NEW t, IsSeq(t), NEW name
  PROVE  LET I == {i \in 1 .. Len(t) : t[i].name = name}
         IN  /\ Find(t, name) = IF I # {} THEN Min(I) ELSE 0
             /\ Find(t, name) # 0 => Find(t, name) \in I
             /\ Find(t, name) \in 0 .. Len(t)
             /\ Find(t, name) = 0 => I = {}
  <1> DEFINE I == {i \in 1 .. Len(t) : t[i].name = name}
  <1>1. Find(t, name) = IF I # {} THEN Min(I) ELSE 0
    BY DEF Find, SelectInSeq
  <1>2. Len(t) \in Nat /\ I \subseteq Nat /\ I \subseteq 1 .. Len(t)
    BY SeqLen
  <1> HIDE DEF I
  <1>3. I # {} => Min(I) \in I
    BY <1>2, MinOf
  <1>4. /\ Find(t, name) # 0 => Find(t, name) \in I
        /\ Find(t, name) \in 0 .. Len(t)
        /\ Find(t, name) = 0 => I = {}
    <2>1. CASE I = {}
      <3>1. Find(t, name) = 0 /\ 0 \in 0 .. Len(t)
        BY <1>1, <1>2, <2>1
      <3> QED BY <2>1, <3>1
    <2>2. CASE I # {}
      <3>1. Find(t, name) \in I
        BY <1>1, <1>3, <2>2
      <3>2. Find(t, name) \in 0 .. Len(t) /\ Find(t, name) # 0
        <4> DEFINE x == Find(t, name)
        <4> HIDE DEF x
        <4>1. x \in 1 .. Len(t) => x \in 0 .. Len(t) /\ x # 0
          BY <1>2
        <4>2. x \in 1 .. Len(t)
          BY <1>2, <3>1 DEF x
        <4> QED BY <4>1, <4>2 DEF x
      <3> QED BY <3>1, <3>2
    <2> QED BY <2>1, <2>2
  <1> QED BY <1>1, <1>4 DEF I


(***************************************************************************)
(* The tables: sequences with a bound, the variables with their fields.    *)
(***************************************************************************)
TableOK(t, n) == IsSeq(t) /\ Len(t) <= n
VarsOK(t) == TableOK(t, FS_MAX_VARS) /\ \A i \in 1 .. Len(t) : {"name", "value"} \subseteq DOMAIN t[i]

(* One entry of a table is changed. *)
Changed(f, t, i, x) == f = [t EXCEPT ![i] = x]

LEMMA TableSetIn ==
  ASSUME NEW t, NEW n, TableOK(t, n), NEW i, NEW x, NEW f, Changed(f, t, i, x)
  PROVE  /\ TableOK(f, n) /\ Len(f) = Len(t)
         /\ \A j \in 1 .. Len(t) : f[j] = IF j = i THEN x ELSE t[j]
  <1>1. PICK S : t \in Seq(S)
    BY DEF TableOK, IsSeq
  <1>2. Len(t) \in Nat /\ DOMAIN t = 1 .. Len(t) /\ t \in [1 .. Len(t) -> S]
    BY <1>1
  <1>3. f \in [1 .. Len(t) -> S \cup {x}] /\ \A j \in 1 .. Len(t) : f[j] = IF j = i THEN x ELSE t[j]
    BY <1>2 DEF Changed
  <1>4. f \in Seq(S \cup {x}) /\ Len(f) = Len(t)
    BY <1>2, <1>3
  <1>5. TableOK(f, n)
    BY <1>4 DEF TableOK, IsSeq
  <1> QED BY <1>3, <1>4, <1>5

LEMMA TableAdd ==
  ASSUME NEW t, NEW n \in Nat, TableOK(t, n), ~(Len(t) >= n), NEW x
  PROVE  TableOK(Append(t, x), n)
  <1>1. Len(t) \in Nat /\ IsSeq(Append(t, x)) /\ Len(Append(t, x)) = Len(t) + 1
    BY SeqAppend, SeqLen DEF TableOK
  <1> QED BY <1>1 DEF TableOK

LEMMA WithoutOf ==
  ASSUME NEW t, IsSeq(t), NEW name
  PROVE  /\ IsSeq(Without(t, name)) /\ Len(Without(t, name)) <= Len(t)
         /\ \A j \in 1 .. Len(Without(t, name)) : \E k \in 1 .. Len(t) : Without(t, name)[j] = t[k]
  <1> DEFINE i == Find(t, name)
             a == SubSeq(t, 0 + 1, i - 1)
             b == SubSeq(t, i + 1, Len(t))
  <1>1. Len(t) \in Nat /\ i \in 0 .. Len(t)
    BY FindOf, SeqLen
  <1>2. CASE i = 0
    <2>1. Without(t, name) = t
      BY <1>2 DEF Without
    <2> QED BY <1>1, <2>1
  <1>3. CASE i # 0
    <2>1. PICK S : t \in Seq(S)
      BY DEF IsSeq
    <2>2. Without(t, name) = a \o b
      <3>1. a = SubSeq(t, 1, i - 1)
        OBVIOUS
      <3>2. Without(t, name) = RemoveAt(t, i)
        BY <1>3 DEF Without
      <3> HIDE DEF i, a
      <3> QED BY <3>1, <3>2 DEF RemoveAt
    <2> HIDE DEF i
    <2>3. /\ 0 \in Nat /\ 0 <= i - 1 /\ i - 1 \in 0 .. Len(t) /\ i \in 0 .. Len(t) /\ i \in Nat /\ i <= Len(t)
          /\ Len(t) \in 0 .. Len(t) /\ (i - 1) - 0 = i - 1
      BY <1>1, <1>3
    <2>4. a \in Seq(S) /\ Len(a) = i - 1 /\ \A j \in 1 .. i - 1 : a[j] = t[0 + j]
      <3>1. a \in Seq(S) /\ Len(a) = (i - 1) - 0 /\ \A j \in 1 .. (i - 1) - 0 : a[j] = t[0 + j]
        BY <2>1, <2>3, CutFrom
      <3> HIDE DEF a
      <3> QED BY <2>3, <3>1
    <2>5. b \in Seq(S) /\ Len(b) = Len(t) - i /\ \A j \in 1 .. Len(t) - i : b[j] = t[i + j]
      BY <2>1, <2>3, CutFrom
    <2> HIDE DEF a, b
    <2>6. /\ a \o b \in Seq(S) /\ Len(a \o b) = Len(a) + Len(b)
          /\ \A j \in 1 .. Len(a) + Len(b) : (a \o b)[j] = IF j <= Len(a) THEN a[j] ELSE b[j - Len(a)]
      BY <2>4, <2>5, ConcatProperties
    <2> DEFINE c == a \o b
    <2>7. c \in Seq(S) /\ Len(c) = Len(t) - 1
      BY <1>1, <2>3, <2>4, <2>5, <2>6
    <2>8. ASSUME NEW j \in 1 .. Len(c) PROVE \E k \in 1 .. Len(t) : c[j] = t[k]
      <3>1. c[j] = IF j <= i - 1 THEN a[j] ELSE b[j - (i - 1)]
        BY <1>1, <2>4, <2>5, <2>6, <2>7
      <3> HIDE DEF c
      <3>2. CASE j <= i - 1
        <4>1. j \in 1 .. i - 1 /\ j \in 1 .. Len(t) /\ 0 + j = j
          BY <1>1, <2>3, <2>7, <3>2
        <4> QED BY <2>4, <3>1, <3>2, <4>1
      <3>3. CASE ~(j <= i - 1)
        <4>1. j - (i - 1) \in 1 .. Len(t) - i /\ i + (j - (i - 1)) \in 1 .. Len(t)
          BY <1>1, <2>3, <2>7, <3>3
        <4> QED BY <2>5, <3>1, <3>3, <4>1
      <3> QED BY <3>2, <3>3
    <2>9. IsSeq(c)
      BY <2>7 DEF IsSeq
    <2>10. Without(t, name) = c
      BY <2>2
    <2> HIDE DEF c
    <2>11. Len(c) <= Len(t)
      BY <1>1, <2>7
    <2> QED BY <2>8, <2>9, <2>10, <2>11
  <1> QED BY <1>2, <1>3

LEMMA TableWithout ==
  ASSUME NEW t, NEW n \in Nat, TableOK(t, n), NEW name
  PROVE  TableOK(Without(t, name), n)
  <1>1. IsSeq(t) /\ Len(t) \in Nat /\ Len(t) <= n
    BY SeqLen DEF TableOK
  <1>2. IsSeq(Without(t, name)) /\ Len(Without(t, name)) <= Len(t)
    BY <1>1, WithoutOf
  <1>3. Len(Without(t, name)) \in Nat
    BY <1>2, SeqLen
  <1> QED BY <1>1, <1>2, <1>3 DEF TableOK


LEMMA VarChanged ==
  ASSUME NEW t, VarsOK(t), NEW i \in 1 .. Len(t), NEW x, {"name", "value"} \subseteq DOMAIN x,
         NEW f, Changed(f, t, i, x)
  PROVE  VarsOK(f) /\ Len(f) = Len(t)
  <1>1. TableOK(t, FS_MAX_VARS)
    BY DEF VarsOK
  <1>2. TableOK(f, FS_MAX_VARS) /\ Len(f) = Len(t) /\ \A j \in 1 .. Len(t) : f[j] = IF j = i THEN x ELSE t[j]
    BY <1>1, TableSetIn
  <1> QED BY <1>2 DEF VarsOK

LEMMA VarAdded ==
  ASSUME NEW t, VarsOK(t), ~(Len(t) >= FS_MAX_VARS), NEW x, {"name", "value"} \subseteq DOMAIN x
  PROVE  VarsOK(Append(t, x))
  <1>1. TableOK(t, FS_MAX_VARS) /\ IsSeq(t) /\ Len(t) \in Nat /\ FS_MAX_VARS \in Nat
    BY SeqLen, FSBounds DEF VarsOK, TableOK
  <1> DEFINE f == Append(t, x)
  <1>2. TableOK(f, FS_MAX_VARS) /\ Len(f) = Len(t) + 1 /\ \A j \in 1 .. Len(t) : f[j] = t[j]
    BY <1>1, TableAdd, SeqAppend
  <1>3. f[Len(t) + 1] = x
    BY <1>1, SeqAppend
  <1> HIDE DEF f
  <1>4. VarsOK(f)
    <2>1. \A j \in 1 .. Len(f) : j \in 1 .. Len(t) \/ j = Len(t) + 1
      BY <1>1, <1>2
    <2> QED BY <1>2, <1>3, <2>1 DEF VarsOK
  <1> QED BY <1>4 DEF f

LEMMA FoundVar ==
  ASSUME NEW t, VarsOK(t), NEW name, Find(t, name) # 0
  PROVE  /\ Find(t, name) \in 1 .. Len(t) /\ {"name", "value"} \subseteq DOMAIN t[Find(t, name)]
         /\ t[Find(t, name)].name = name
  <1>1. IsSeq(t)
    BY DEF VarsOK, TableOK
  <1>2. Find(t, name) \in {i \in 1 .. Len(t) : t[i].name = name}
    BY <1>1, FindOf
  <1> QED BY <1>2 DEF VarsOK

LEMMA VarSet ==
  ASSUME NEW t, VarsOK(t), NEW name, NEW value
  PROVE  VarsOK(fish_var_set(t, name, value))
  <1> DEFINE i == Find(t, name)
  <1>1. CASE i # 0
    <2>1. fish_var_set(t, name, value) = [t EXCEPT ![i] = [t[i] EXCEPT !.value = value]]
      BY <1>1 DEF fish_var_set
    <2>2. {"name", "value"} \subseteq DOMAIN t[i] /\ i \in 1 .. Len(t)
      BY <1>1, FoundVar
    <2> DEFINE x == [t[i] EXCEPT !.value = value]
    <2>3. {"name", "value"} \subseteq DOMAIN x
      BY <2>2
    <2>4. Changed(fish_var_set(t, name, value), t, i, x)
      BY <2>1 DEF Changed
    <2> HIDE DEF i, x
    <2> QED BY <2>2, <2>3, <2>4, VarChanged
  <1>2. CASE i = 0 /\ ~(Len(t) >= FS_MAX_VARS)
    <2> DEFINE x == [name |-> Stored(name), value |-> value, exported |-> FALSE, scope |-> "GLOBAL"]
    <2>1. fish_var_set(t, name, value) = Append(t, x)
      BY <1>2 DEF fish_var_set
    <2>2. {"name", "value"} \subseteq DOMAIN x
      OBVIOUS
    <2> HIDE DEF x
    <2> QED BY <1>2, <2>1, <2>2, VarAdded
  <1>3. CASE i = 0 /\ Len(t) >= FS_MAX_VARS
    BY <1>3 DEF fish_var_set
  <1> QED BY <1>1, <1>2, <1>3

(* What is set is read back, unless the table was full. *)
LEMMA VarReadBack ==
  ASSUME NEW t, VarsOK(t), NEW name, NEW value, NEW new, new = fish_var_set(t, name, value), Find(new, name) # 0
  PROVE  new[Find(new, name)].value = value
  <1> DEFINE i == Find(t, name)
             k == Find(new, name)
             I == {j \in 1 .. Len(t) : t[j].name = name}
             K == {j \in 1 .. Len(new) : new[j].name = name}
  <1>1. TableOK(t, FS_MAX_VARS) /\ IsSeq(t) /\ Len(t) \in Nat /\ VarsOK(new) /\ IsSeq(new)
    BY VarSet, SeqLen DEF VarsOK, TableOK
  <1>2. i = (IF I # {} THEN Min(I) ELSE 0) /\ (i = 0 => I = {})
    BY <1>1, FindOf
  <1>3. k = (IF K # {} THEN Min(K) ELSE 0) /\ k \in K
    BY <1>1, FindOf
  <1> HIDE DEF k
  <1>4. CASE i # 0
    <2> DEFINE x == [t[i] EXCEPT !.value = value]
    <2>1. Changed(new, t, i, x)
      BY <1>4 DEF fish_var_set, Changed
    <2>2. {"name", "value"} \subseteq DOMAIN t[i] /\ i \in 1 .. Len(t) /\ t[i].name = name
      BY <1>4, FoundVar
    <2> HIDE DEF i
    <2>3. x.name = name /\ x.value = value
      BY <2>2
    <2> HIDE DEF x
    <2>4. Len(new) = Len(t) /\ \A j \in 1 .. Len(t) : new[j] = IF j = i THEN x ELSE t[j]
      BY <1>1, <2>1, TableSetIn
    <2>5. \A j \in 1 .. Len(t) : new[j].name = t[j].name
      BY <2>2, <2>3, <2>4
    <2>6. K = I
      BY <2>4, <2>5
    <2>7. k = i
      BY <1>2, <1>3, <1>4, <2>6
    <2> QED BY <2>2, <2>3, <2>4, <2>7 DEF k
  <1>5. CASE i = 0 /\ ~(Len(t) >= FS_MAX_VARS)
    <2> DEFINE x == [name |-> Stored(name), value |-> value, exported |-> FALSE, scope |-> "GLOBAL"]
    <2>1. new = Append(t, x)
      BY <1>5 DEF fish_var_set
    <2>2. x.value = value
      OBVIOUS
    <2> HIDE DEF x
    <2>3. Len(new) = Len(t) + 1 /\ new[Len(t) + 1] = x /\ \A j \in 1 .. Len(t) : new[j] = t[j]
      BY <1>1, <2>1, SeqAppend
    <2>4. I = {}
      BY <1>2, <1>5
    <2>5. \A j \in 1 .. Len(t) : new[j].name # name
      BY <2>3, <2>4
    <2>6. k \in 1 .. Len(new) /\ new[k].name = name
      BY <1>3
    <2>7. k = Len(t) + 1
      BY <1>1, <2>3, <2>5, <2>6
    <2> QED BY <2>2, <2>3, <2>7 DEF k
  <1>6. CASE i = 0 /\ Len(t) >= FS_MAX_VARS
    <2>1. new = t
      BY <1>6 DEF fish_var_set
    <2> QED BY <1>6, <2>1
  <1> QED BY <1>4, <1>5, <1>6

LEMMA VarSetScope ==
  ASSUME NEW t, VarsOK(t), NEW name, NEW value, NEW scope
  PROVE  VarsOK(fish_var_set_scope(t, name, value, scope))
  <1> DEFINE i == Find(t, name)
  <1>1. CASE i # 0
    <2> DEFINE a == [t[i] EXCEPT !.value = value]
               b == [a EXCEPT !.scope = scope]
               c == [b EXCEPT !.exported = @ \/ scope = "EXPORT"]
               t1 == [t EXCEPT ![i] = a]
               t2 == [t1 EXCEPT ![i] = [t1[i] EXCEPT !.scope = scope]]
               t3 == [t2 EXCEPT ![i] = [t2[i] EXCEPT !.exported = @ \/ scope = "EXPORT"]]
    <2>1. fish_var_set_scope(t, name, value, scope) = t3
      BY <1>1 DEF fish_var_set_scope
    <2>2. {"name", "value"} \subseteq DOMAIN t[i] /\ i \in 1 .. Len(t)
      BY <1>1, FoundVar
    <2> HIDE DEF i
    <2>3. VarsOK(t1) /\ Len(t1) = Len(t)
      <3>1. {"name", "value"} \subseteq DOMAIN a
        BY <2>2
      <3>2. Changed(t1, t, i, a)
        BY DEF Changed
      <3> HIDE DEF a, t1
      <3> QED BY <2>2, <3>1, <3>2, VarChanged
    <2> HIDE DEF t1
    <2>4. VarsOK(t2) /\ Len(t2) = Len(t)
      <3> DEFINE x == [t1[i] EXCEPT !.scope = scope]
      <3>1. {"name", "value"} \subseteq DOMAIN t1[i]
        BY <2>2, <2>3 DEF VarsOK
      <3>2. {"name", "value"} \subseteq DOMAIN x /\ Changed(t2, t1, i, x)
        BY <3>1 DEF Changed
      <3> HIDE DEF x, t2
      <3> QED BY <2>2, <2>3, <3>2, VarChanged
    <2> HIDE DEF t2
    <2>5. VarsOK(t3)
      <3> DEFINE x == [t2[i] EXCEPT !.exported = @ \/ scope = "EXPORT"]
      <3>1. {"name", "value"} \subseteq DOMAIN t2[i]
        BY <2>2, <2>4 DEF VarsOK
      <3>2. {"name", "value"} \subseteq DOMAIN x /\ Changed(t3, t2, i, x)
        BY <3>1 DEF Changed
      <3> HIDE DEF x, t3
      <3> QED BY <2>2, <2>4, <3>2, VarChanged
    <2> QED BY <2>1, <2>5
  <1>2. CASE i = 0 /\ ~(Len(t) >= FS_MAX_VARS)
    <2> DEFINE x == [name |-> Stored(name), value |-> value, exported |-> scope = "EXPORT", scope |-> scope]
    <2>1. fish_var_set_scope(t, name, value, scope) = Append(t, x)
      BY <1>2 DEF fish_var_set_scope
    <2>2. {"name", "value"} \subseteq DOMAIN x
      OBVIOUS
    <2> HIDE DEF x
    <2> QED BY <1>2, <2>1, <2>2, VarAdded
  <1>3. CASE i = 0 /\ Len(t) >= FS_MAX_VARS
    BY <1>3 DEF fish_var_set_scope
  <1> QED BY <1>1, <1>2, <1>3

LEMMA ExportKept ==
  ASSUME NEW t, VarsOK(t), NEW name, NEW value
  PROVE  VarsOK(fish_cmd_export(t, name, value))
  <1> DEFINE set == IF value = NoText THEN t ELSE fish_var_set(t, name, value)
             i == Find(set, name)
             t1 == [set EXCEPT ![i] = [set[i] EXCEPT !.exported = TRUE]]
             t2 == [t1 EXCEPT ![i] = [t1[i] EXCEPT !.scope = IF value = NoText THEN @ ELSE "EXPORT"]]
  <1>1. VarsOK(set)
    BY VarSet
  <1>2. fish_cmd_export(t, name, value) = IF i = 0 THEN set ELSE t2
    BY DEF fish_cmd_export
  <1> HIDE DEF set
  <1>3. CASE i # 0
    <2>1. {"name", "value"} \subseteq DOMAIN set[i] /\ i \in 1 .. Len(set)
      BY <1>1, <1>3, FoundVar
    <2> HIDE DEF i
    <2>2. VarsOK(t1) /\ Len(t1) = Len(set)
      <3> DEFINE x == [set[i] EXCEPT !.exported = TRUE]
      <3>1. {"name", "value"} \subseteq DOMAIN x /\ Changed(t1, set, i, x)
        BY <2>1 DEF Changed
      <3> HIDE DEF x, t1
      <3> QED BY <1>1, <2>1, <3>1, VarChanged
    <2> HIDE DEF t1
    <2>3. VarsOK(t2)
      <3> DEFINE x == [t1[i] EXCEPT !.scope = IF value = NoText THEN @ ELSE "EXPORT"]
      <3>1. {"name", "value"} \subseteq DOMAIN t1[i]
        BY <2>1, <2>2 DEF VarsOK
      <3>2. {"name", "value"} \subseteq DOMAIN x /\ Changed(t2, t1, i, x)
        BY <3>1 DEF Changed
      <3> HIDE DEF x, t2
      <3> QED BY <2>1, <2>2, <3>2, VarChanged
    <2> QED BY <1>2, <1>3, <2>3
  <1> QED BY <1>1, <1>2, <1>3

LEMMA VarsWithout ==
  ASSUME NEW t, VarsOK(t), NEW name
  PROVE  VarsOK(Without(t, name))
  <1>1. IsSeq(t) /\ TableOK(t, FS_MAX_VARS) /\ FS_MAX_VARS \in Nat
    BY FSBounds DEF VarsOK, TableOK
  <1>2. \A j \in 1 .. Len(Without(t, name)) : \E k \in 1 .. Len(t) : Without(t, name)[j] = t[k]
    BY <1>1, WithoutOf
  <1>3. TableOK(Without(t, name), FS_MAX_VARS)
    BY <1>1, TableWithout
  <1> QED BY <1>2, <1>3 DEF VarsOK

(* exit keeps the names and blanks the values. *)
LEMMA VarsBlanked ==
  ASSUME NEW t, VarsOK(t)
  PROVE  VarsOK([i \in DOMAIN t |-> [t[i] EXCEPT !.value = NoText]])
  <1> DEFINE e(i) == [t[i] EXCEPT !.value = NoText]
             f == [i \in 1 .. Len(t) |-> e(i)]
  <1>1. Len(t) \in Nat /\ DOMAIN t = 1 .. Len(t) /\ Len(t) <= FS_MAX_VARS
    BY SeqLen DEF VarsOK, TableOK
  <1>2. \A i \in 1 .. Len(t) : {"name", "value"} \subseteq DOMAIN e(i)
    BY DEF VarsOK
  <1> HIDE DEF e
  <1>3. IsSeq(f) /\ Len(f) = Len(t)
    <2>1. f = [i \in 1 .. Len(t) |-> f[i]]
      OBVIOUS
    <2> HIDE DEF f
    <2> QED BY <1>1, <2>1, SeqMade
  <1>4. \A i \in 1 .. Len(f) : f[i] = e(i)
    BY <1>3
  <1> HIDE DEF f
  <1>5. VarsOK(f)
    BY <1>1, <1>2, <1>3, <1>4 DEF VarsOK, TableOK
  <1> QED BY <1>1, <1>5 DEF f, e


-----------------------------------------------------------------------------
(***************************************************************************)
(* The C stack: fish_run's frame is the lowest and the only one of its     *)
(* kind; the name a frame restores is the one of the frame below, unless   *)
(* that one is a function's; and the name that is set is the one the       *)
(* topmost frame was entered with, unless it is a function's.              *)
(***************************************************************************)
StackOK(stack, func) ==
  /\ IsSeq(stack)
  /\ \A i \in 1 .. Len(stack) : {"kind", "prev"} \subseteq DOMAIN stack[i] /\ (stack[i].kind = "run" <=> i = 1)
  /\ \A i \in 1 .. Len(stack) - 1 : stack[i].kind # "func" => stack[i + 1].prev = stack[i].prev
  /\ stack # <<>> => /\ stack[1].prev = NoText
                     /\ Last(stack).kind # "func" => func = Last(stack).prev

LEMMA TopOf ==
  ASSUME NEW stack, NEW func, StackOK(stack, func), stack # <<>>
  PROVE  /\ Len(stack) \in Nat /\ Len(stack) >= 1 /\ Last(stack) = stack[Len(stack)]
         /\ {"kind", "prev"} \subseteq DOMAIN Last(stack)
         /\ Last(stack).kind = "run" => Len(stack) = 1 /\ Last(stack).prev = NoText /\ Front(stack) = <<>>
         /\ Last(stack).kind # "run" => Len(stack) >= 2
         /\ Last(stack).kind # "func" => func = Last(stack).prev
  <1>1. IsSeq(stack) /\ Len(stack) \in Nat /\ Len(stack) >= 1 /\ Last(stack) = stack[Len(stack)]
    BY SeqLen, SeqFront DEF StackOK
  <1>2. {"kind", "prev"} \subseteq DOMAIN Last(stack) /\ (Last(stack).kind = "run" <=> Len(stack) = 1)
    <2>1. Len(stack) \in 1 .. Len(stack)
      BY <1>1
    <2>2. \A i \in 1 .. Len(stack) : {"kind", "prev"} \subseteq DOMAIN stack[i] /\ (stack[i].kind = "run" <=> i = 1)
      BY DEF StackOK
    <2> QED BY <1>1, <2>1, <2>2
  <1>3. Len(stack) = 1 => Last(stack).prev = NoText /\ Front(stack) = <<>>
    <2> HAVE Len(stack) = 1
    <2>1. Last(stack).prev = NoText
      BY <1>1 DEF StackOK
    <2>2. IsSeq(Front(stack)) /\ Len(Front(stack)) = 0
      BY <1>1, SeqFront
    <2>3. Front(stack) = <<>>
      BY <2>2, SeqLen
    <2> QED BY <2>1, <2>3
  <1>4. Last(stack).kind # "func" => func = Last(stack).prev
    BY DEF StackOK
  <1>5. Len(stack) # 1 => Len(stack) >= 2
    <2>1. \A n \in Nat : n >= 1 /\ n # 1 => n >= 2
      OBVIOUS
    <2> QED BY <1>1, <2>1, Zenon
  <1> QED BY <1>1, <1>2, <1>3, <1>4, <1>5, Zenon

LEMMA Popped ==
  ASSUME NEW stack, NEW func, StackOK(stack, func), stack # <<>>
  PROVE  StackOK(Front(stack), Last(stack).prev)
  <1> DEFINE f == Front(stack)
             n == Len(stack)
  <1>1. /\ IsSeq(stack) /\ n \in Nat /\ n >= 1 /\ Last(stack) = stack[n]
        /\ \A i \in 1 .. n : {"kind", "prev"} \subseteq DOMAIN stack[i] /\ (stack[i].kind = "run" <=> i = 1)
        /\ \A i \in 1 .. n - 1 : stack[i].kind # "func" => stack[i + 1].prev = stack[i].prev
        /\ stack[1].prev = NoText
    BY SeqLen, SeqFront DEF StackOK
  <1>2. IsSeq(f) /\ Len(f) = n - 1 /\ \A i \in 1 .. n - 1 : f[i] = stack[i]
    BY <1>1, SeqFront
  <1> HIDE DEF f, n
  <1>3. \A i \in 1 .. Len(f) : {"kind", "prev"} \subseteq DOMAIN f[i] /\ (f[i].kind = "run" <=> i = 1)
    <2>1. \A i \in 1 .. n - 1 : i \in 1 .. n
      BY <1>1
    <2> QED BY <1>1, <1>2, <2>1
  <1>4. \A i \in 1 .. Len(f) - 1 : f[i].kind # "func" => f[i + 1].prev = f[i].prev
    <2>1. \A i \in 1 .. Len(f) - 1 : i \in 1 .. n - 1 /\ i + 1 \in 1 .. n - 1
      BY <1>1, <1>2
    <2> QED BY <1>1, <1>2, <2>1
  <1>5. ASSUME f # <<>>
        PROVE  f[1].prev = NoText /\ (Last(f).kind # "func" => stack[n].prev = Last(f).prev)
    <2>1. n - 1 >= 1 /\ 1 \in 1 .. n - 1 /\ n - 1 \in 1 .. n - 1 /\ (n - 1) + 1 = n /\ Last(f) = f[n - 1]
      BY <1>1, <1>2, <1>5, SeqLen, SeqFront
    <2>2. f[1] = stack[1] /\ Last(f) = stack[n - 1]
      BY <1>2, <2>1
    <2>3. stack[n - 1].kind # "func" => stack[(n - 1) + 1].prev = stack[n - 1].prev
      BY <1>1, <2>1
    <2> QED BY <1>1, <2>1, <2>2, <2>3
  <1>6. StackOK(f, stack[n].prev)
    BY <1>2, <1>3, <1>4, <1>5 DEF StackOK
  <1> QED BY <1>1, <1>6 DEF f

LEMMA Pushed ==
  ASSUME NEW stack, NEW func, StackOK(stack, func), NEW frame, {"kind", "prev"} \subseteq DOMAIN frame,
         frame.prev = func, frame.kind = "run" <=> stack = <<>>, stack = <<>> => func = NoText,
         NEW new, frame.kind # "func" => new = func
  PROVE  StackOK(Append(stack, frame), new)
  <1> DEFINE f == Append(stack, frame)
             n == Len(stack)
  <1>1. /\ IsSeq(stack) /\ n \in Nat /\ (stack = <<>> <=> n = 0) /\ (stack # <<>> => Last(stack) = stack[n])
        /\ \A i \in 1 .. n : {"kind", "prev"} \subseteq DOMAIN stack[i] /\ (stack[i].kind = "run" <=> i = 1)
        /\ \A i \in 1 .. n - 1 : stack[i].kind # "func" => stack[i + 1].prev = stack[i].prev
        /\ stack # <<>> => stack[1].prev = NoText /\ (stack[n].kind # "func" => func = stack[n].prev)
    BY SeqLen, SeqFront DEF StackOK
  <1>2. IsSeq(f) /\ Len(f) = n + 1 /\ f # <<>> /\ f[n + 1] = frame /\ \A i \in 1 .. n : f[i] = stack[i]
    BY <1>1, SeqAppend
  <1>3. Last(f) = frame
    BY <1>2, SeqFront
  <1> HIDE DEF f, n
  <1>4. \A i \in 1 .. Len(f) : i \in 1 .. n \/ i = n + 1
    BY <1>1, <1>2
  <1>5. \A i \in 1 .. Len(f) : {"kind", "prev"} \subseteq DOMAIN f[i] /\ (f[i].kind = "run" <=> i = 1)
    <2> TAKE i \in 1 .. Len(f)
    <2>1. CASE i \in 1 .. n
      BY <1>1, <1>2, <2>1
    <2>2. CASE i = n + 1
      BY <1>1, <1>2, <2>2
    <2> QED BY <1>4, <2>1, <2>2
  <1>6. \A i \in 1 .. Len(f) - 1 : f[i].kind # "func" => f[i + 1].prev = f[i].prev
    <2> TAKE i \in 1 .. Len(f) - 1
    <2>1. i \in 1 .. n /\ f[i] = stack[i] /\ stack # <<>>
      BY <1>1, <1>2
    <2>2. CASE i = n
      BY <1>1, <1>2, <2>1, <2>2
    <2>3. CASE i # n
      <3>1. i \in 1 .. n - 1 /\ i + 1 \in 1 .. n
        BY <1>1, <2>1, <2>3
      <3> QED BY <1>1, <1>2, <2>1, <3>1
    <2> QED BY <2>2, <2>3
  <1>7. f[1].prev = NoText
    <2>1. CASE n = 0
      BY <1>1, <1>2, <2>1
    <2>2. CASE n # 0
      <3>1. 1 \in 1 .. n
        BY <1>1, <2>2
      <3> QED BY <1>1, <1>2, <2>2, <3>1
    <2> QED BY <2>1, <2>2
  <1>8. StackOK(f, new)
    BY <1>2, <1>3, <1>5, <1>6, <1>7 DEF StackOK
  <1> QED BY <1>8 DEF f

(* Return drops the topmost frame. *)
LEMMA ReturnKept ==
  ASSUME StackOK(fs_stack, fs_current_func), fs_stack # <<>>, Top.kind # "run", fs_stack' = Below,
         NEW new, new = Top.prev
  PROVE  StackOK(fs_stack', new) /\ fs_stack' # <<>>
  <1>1. StackOK(fs_stack', new)
    BY Popped DEF Below, Top
  <1>2. Len(fs_stack) \in Nat /\ Len(fs_stack) >= 2
    BY TopOf DEF Top
  <1>3. IsSeq(fs_stack') /\ Len(fs_stack') = Len(fs_stack) - 1
    BY SeqFront DEF Below, StackOK
  <1>4. Len(fs_stack') > 0
    BY <1>2, <1>3
  <1>5. fs_stack' # <<>>
    BY <1>3, <1>4, SeqLen
  <1> QED BY <1>1, <1>5

(* The topmost frame is changed, or another one takes its place. *)
LEMMA Replaced ==
  ASSUME StackOK(fs_stack, fs_current_func), fs_stack # <<>>, NEW frame, {"kind", "prev"} \subseteq DOMAIN frame,
         frame.prev = Top.prev, frame.kind = "run" <=> Top.kind = "run",
         NEW new, frame.kind # "func" => new = Top.prev
  PROVE  StackOK(Append(Below, frame), new) /\ Append(Below, frame) # <<>>
  <1>1. StackOK(Below, Top.prev) /\ IsSeq(Below)
    BY Popped DEF Below, Top, StackOK
  <1>2. Top.kind = "run" <=> Below = <<>>
    <2>1. Len(fs_stack) \in Nat /\ (Top.kind = "run" => Below = <<>>) /\ (Top.kind # "run" => Len(fs_stack) >= 2)
      BY TopOf DEF Below, Top
    <2>2. Len(Below) = Len(fs_stack) - 1
      BY SeqFront DEF Below, StackOK
    <2>3. Len(fs_stack) >= 2 => Len(Below) > 0
      BY <2>1, <2>2
    <2> QED BY <1>1, <2>1, <2>3, SeqLen
  <1>3. Below = <<>> => Top.prev = NoText
    BY <1>2, TopOf DEF Top
  <1>4. StackOK(Append(Below, frame), new)
    BY <1>1, <1>2, <1>3, Pushed
  <1> QED BY <1>1, <1>4, SeqAppend

LEMMA FrameOf ==
  ASSUME NEW kind, NEW args, NEW n
  PROVE  /\ {"kind", "prev"} \subseteq DOMAIN Frame(kind, args, n)
         /\ Frame(kind, args, n).kind = kind /\ Frame(kind, args, n).prev = fs_current_func
  BY DEF Frame

(* A call: the topmost frame waits and a new one runs the words. *)
LEMMA Called ==
  ASSUME StackOK(fs_stack, fs_current_func), fs_stack # <<>>, NEW frame, {"kind", "prev"} \subseteq DOMAIN frame,
         frame.prev = Top.prev, frame.kind = "run" <=> Top.kind = "run",
         frame.kind # "func" => fs_current_func = Top.prev, NEW args, Call(frame, args)
  PROVE  StackOK(fs_stack', fs_current_func) /\ fs_stack' # <<>>
  <1> DEFINE b == Append(Below, frame)
             c == Frame("cmd", args, 1)
  <1>1. StackOK(b, fs_current_func) /\ b # <<>>
    BY Replaced
  <1>2. {"kind", "prev"} \subseteq DOMAIN c /\ c.kind = "cmd" /\ c.prev = fs_current_func
    BY FrameOf
  <1>3. fs_stack' = Append(b, c)
    <2>1. PICK S : Below \in Seq(S)
      BY Popped DEF StackOK, IsSeq, Below
    <2>2. fs_stack' = Below \o <<frame, c>>
      BY DEF Call
    <2> HIDE DEF c
    <2>3. Below \in Seq(S \cup {frame, c}) /\ frame \in S \cup {frame, c} /\ c \in S \cup {frame, c}
      BY <2>1
    <2> QED BY <2>2, <2>3
  <1> HIDE DEF b, c
  <1>4. StackOK(Append(b, c), fs_current_func)
    BY <1>1, <1>2, Pushed
  <1>5. Append(b, c) # <<>>
    BY <1>1, SeqAppend DEF StackOK
  <1> QED BY <1>3, <1>4, <1>5


-----------------------------------------------------------------------------
(***************************************************************************)
(* The invariant of the session.                                           *)
(***************************************************************************)
TablesOK ==
  /\ VarsOK(fs_vars) /\ TableOK(fs_abbrevs, FS_MAX_ABBREVS)
  /\ TableOK(fs_funcs, FS_MAX_FUNCS) /\ TableOK(fs_events, FS_MAX_EVENTS)
PlaceOK == TableOK(fs_cwd, FS_PATH_DEPTH) /\ TableOK(fs_dirs, FS_DIR_STACK)
SessInv ==
  /\ StackOK(fs_stack, fs_current_func) /\ TablesOK /\ PlaceOK
  /\ fs_break \in BOOLEAN /\ fs_running \in BOOLEAN
  /\ PromptClean

LEMMA Waiting ==
  ASSUME StackOK(fs_stack, fs_current_func)', fs_stack' # <<>>, TablesOK', PlaceOK', fs_break' \in BOOLEAN, fs_running' \in BOOLEAN
  PROVE  SessInv'
  BY DEF SessInv, PromptClean

LEMMA TablesSame == TablesOK /\ KeepTables => TablesOK'
  BY DEF TablesOK, KeepTables, fsTables

LEMMA PlaceSame == PlaceOK /\ KeepPlace => PlaceOK'
  BY DEF PlaceOK, KeepPlace

(* What a command does with the stack. *)
StackStep ==
  \/ fs_stack' = Below
  \/ \E kind \in {"cmd", "hang", "source"} : \E args, n : fs_stack' = Append(Below, Frame(kind, args, n))
  \/ \E kind \in {"if", "while", "not"} : \E args : Call(Frame(kind, <<>>, 0), args)

LEMMA StackStepKept ==
  ASSUME StackOK(fs_stack, fs_current_func), fs_stack # <<>>, Top.kind = "cmd", StackStep, fs_current_func' = fs_current_func
  PROVE  StackOK(fs_stack, fs_current_func)' /\ fs_stack' # <<>>
  <1>1. fs_current_func = Top.prev
    BY TopOf DEF Top
  <1>2. CASE fs_stack' = Below
    BY <1>1, <1>2, ReturnKept
  <1>3. ASSUME NEW kind \in {"cmd", "hang", "source"}, NEW args, NEW n, fs_stack' = Append(Below, Frame(kind, args, n))
        PROVE  StackOK(fs_stack, fs_current_func)' /\ fs_stack' # <<>>
    <2> DEFINE f == Frame(kind, args, n)
    <2>1. {"kind", "prev"} \subseteq DOMAIN f /\ f.prev = Top.prev /\ (f.kind = "run" <=> Top.kind = "run")
      BY <1>1, FrameOf
    <2> HIDE DEF f
    <2>2. StackOK(Append(Below, f), fs_current_func) /\ Append(Below, f) # <<>>
      BY <1>1, <2>1, Replaced
    <2> QED BY <1>3, <2>2 DEF f
  <1>4. ASSUME NEW kind \in {"if", "while", "not"}, NEW args, Call(Frame(kind, <<>>, 0), args)
        PROVE  StackOK(fs_stack, fs_current_func)' /\ fs_stack' # <<>>
    <2> DEFINE f == Frame(kind, <<>>, 0)
    <2>1. {"kind", "prev"} \subseteq DOMAIN f /\ f.prev = Top.prev /\ (f.kind = "run" <=> Top.kind = "run") /\ Call(f, args)
      BY <1>1, <1>4, FrameOf
    <2> HIDE DEF f
    <2>2. StackOK(fs_stack', fs_current_func) /\ fs_stack' # <<>>
      BY <1>1, <2>1, Called
    <2> QED BY <2>2
  <1> QED BY <1>2, <1>3, <1>4 DEF StackStep

LEMMA StepReturn ==
  ASSUME NEW status, Return(status)
  PROVE  StackStep
  BY DEF StackStep, Return

LEMMA StepBecomes ==
  ASSUME NEW args, Becomes(args)
  PROVE  StackStep
  BY DEF StackStep, Becomes

LEMMA StepHang == Hang => StackStep
  BY DEF StackStep, Hang

(* The expansion of a word. *)
LEMMA ExpandKept == SessInv /\ fs_stack # <<>> /\ fish_expand_vars => SessInv'
  <1>1. SUFFICES ASSUME SessInv, fs_stack # <<>>, fish_expand_vars PROVE SessInv'
    OBVIOUS
  <1>2. TablesOK' /\ PlaceOK' /\ fs_break' \in BOOLEAN /\ fs_running' \in BOOLEAN /\ fs_current_func' = fs_current_func
    BY <1>1, TablesSame, PlaceSame DEF SessInv, fish_expand_vars, KeepSession
  <1>3. Top.kind = "cmd" /\ StackOK(fs_stack, fs_current_func)
    BY <1>1 DEF fish_expand_vars, SessInv
  <1>4. {"kind", "prev"} \subseteq DOMAIN Top /\ fs_current_func = Top.prev
    BY <1>1, <1>3, TopOf DEF Top
  <1>5. PICK value, sub : \/ Call([Top EXCEPT !.kind = "subst"], sub)
                          \/ fs_stack' = Append(Below, [Top EXCEPT !.args[Top.n] = value, !.n = @ + 1])
    BY <1>1 DEF fish_expand_vars
  <1>6. CASE Call([Top EXCEPT !.kind = "subst"], sub)
    <2> DEFINE f == [Top EXCEPT !.kind = "subst"]
    <2>1. {"kind", "prev"} \subseteq DOMAIN f /\ f.prev = Top.prev /\ f.kind = "subst"
      BY <1>4
    <2> HIDE DEF f
    <2>2. StackOK(fs_stack', fs_current_func) /\ fs_stack' # <<>>
      BY <1>1, <1>3, <1>4, <1>6, <2>1, Called DEF f
    <2> QED BY <1>2, <2>2, Waiting
  <1>7. CASE fs_stack' = Append(Below, [Top EXCEPT !.args[Top.n] = value, !.n = @ + 1])
    <2> DEFINE f == [Top EXCEPT !.args[Top.n] = value, !.n = @ + 1]
    <2>1. {"kind", "prev"} \subseteq DOMAIN f /\ f.prev = Top.prev /\ f.kind = "cmd"
      BY <1>3, <1>4
    <2>2. fs_stack' = Append(Below, f)
      BY <1>7
    <2> HIDE DEF f
    <2>3. StackOK(Append(Below, f), fs_current_func) /\ Append(Below, f) # <<>>
      BY <1>1, <1>3, <1>4, <2>1, Replaced
    <2> QED BY <1>2, <2>2, <2>3, Waiting
  <1> QED BY <1>5, <1>6, <1>7

LEMMA ControlKept == SessInv /\ fs_stack # <<>> /\ Top.kind = "cmd" /\ dispatch_control => SessInv'
  <1>1. SUFFICES ASSUME SessInv, fs_stack # <<>>, Top.kind = "cmd", dispatch_control PROVE SessInv'
    OBVIOUS
  <1>2. /\ StackOK(fs_stack, fs_current_func) /\ fs_current_func' = fs_current_func /\ fs_running' \in BOOLEAN /\ fs_break \in BOOLEAN
        /\ PlaceOK' /\ VarsOK(fs_vars) /\ UNCHANGED <<fs_abbrevs, fs_funcs, fs_events>>
    BY <1>1, PlaceSame DEF dispatch_control, SessInv, KeepSession, TablesOK
  <1>3. StackStep /\ VarsOK(fs_vars') /\ fs_break' \in BOOLEAN
    <2>1. CASE Name \in {"if", "while", "not"} /\ UNCHANGED <<fs_vars, fs_break>>
               /\ IF Argc < 2 THEN Return(1) ELSE IF Words = <<>> THEN Return(0) ELSE Call(Frame(Name, <<>>, 0), Words)
      <3>1. Return(1) \/ Return(0) \/ Call(Frame(Name, <<>>, 0), Words)
        BY <2>1
      <3>2. Call(Frame(Name, <<>>, 0), Words) => StackStep
        BY <2>1 DEF StackStep
      <3> QED BY <1>2, <2>1, <3>1, <3>2, StepReturn
    <2>2. CASE /\ fs_vars' = IF Name = "for" /\ Argc >= 4 /\ Arg(3) = "in" THEN fish_var_set(fs_vars, Arg(2), Arg(4))
                             ELSE IF Name = "switch" /\ Argc >= 2 THEN fish_var_set(fs_vars, "__switch_value__", Arg(2))
                             ELSE fs_vars
               /\ Return(IF (Name = "for" /\ (Argc < 4 \/ Arg(3) # "in")) \/ Argc < 2 THEN 1 ELSE 0)
               /\ UNCHANGED fs_break
      <3>1. VarsOK(fs_vars')
        BY <1>2, <2>2, VarSet
      <3>2. StackStep
        BY <2>2, StepReturn
      <3> QED BY <1>2, <2>2, <3>1, <3>2
    <2>3. CASE fs_break' = (fs_break \/ Name \in {"break", "continue"}) /\ Return(0) /\ UNCHANGED fs_vars
      <3>1. fs_break' \in BOOLEAN
        BY <2>3
      <3>2. StackStep
        BY <2>3, StepReturn
      <3> QED BY <1>2, <2>3, <3>1, <3>2
    <2> QED BY <1>1, <2>1, <2>2, <2>3 DEF dispatch_control
  <1>4. TablesOK'
    BY <1>1, <1>2, <1>3 DEF TablesOK, SessInv
  <1> QED BY <1>1, <1>2, <1>3, <1>4, StackStepKept, Waiting

(* The tables that are set by name. *)
LEMMA FuncsAdded ==
  ASSUME TableOK(fs_funcs, FS_MAX_FUNCS), NEW name, NEW lines
  PROVE  TableOK(fish_func_add(name, lines), FS_MAX_FUNCS)
  <1> DEFINE i == fish_func_find(name)
             x == [fs_funcs[i] EXCEPT !.lines = lines]
             e == [name |-> Stored(name), lines |-> lines]
  <1>1. fish_func_add(name, lines) = IF Len(fs_funcs) >= FS_MAX_FUNCS THEN fs_funcs
                                     ELSE IF i # 0 THEN [fs_funcs EXCEPT ![i] = x] ELSE Append(fs_funcs, e)
    BY DEF fish_func_add
  <1> HIDE DEF i, x, e
  <1>2. Changed([fs_funcs EXCEPT ![i] = x], fs_funcs, i, x)
    BY DEF Changed
  <1>3. TableOK([fs_funcs EXCEPT ![i] = x], FS_MAX_FUNCS)
    BY <1>2, TableSetIn
  <1>4. ~(Len(fs_funcs) >= FS_MAX_FUNCS) => TableOK(Append(fs_funcs, e), FS_MAX_FUNCS)
    BY TableAdd, FSBounds
  <1> QED BY <1>1, <1>3, <1>4

LEMMA AbbrevsAdded ==
  ASSUME TableOK(fs_abbrevs, FS_MAX_ABBREVS), NEW name, NEW expansion
  PROVE  TableOK(fish_abbrev_add(name, expansion), FS_MAX_ABBREVS)
  <1> DEFINE i == Find(fs_abbrevs, name)
             x == [fs_abbrevs[i] EXCEPT !.expansion = expansion]
             e == [name |-> Stored(name), expansion |-> expansion]
  <1>1. fish_abbrev_add(name, expansion) = IF Len(fs_abbrevs) >= FS_MAX_ABBREVS THEN fs_abbrevs
                                           ELSE IF i # 0 THEN [fs_abbrevs EXCEPT ![i] = x] ELSE Append(fs_abbrevs, e)
    BY DEF fish_abbrev_add
  <1> HIDE DEF i, x, e
  <1>2. Changed([fs_abbrevs EXCEPT ![i] = x], fs_abbrevs, i, x)
    BY DEF Changed
  <1>3. TableOK([fs_abbrevs EXCEPT ![i] = x], FS_MAX_ABBREVS)
    BY <1>2, TableSetIn
  <1>4. ~(Len(fs_abbrevs) >= FS_MAX_ABBREVS) => TableOK(Append(fs_abbrevs, e), FS_MAX_ABBREVS)
    BY TableAdd, FSBounds
  <1> QED BY <1>1, <1>3, <1>4


LEMMA CommandKept ==
  ASSUME SessInv, fs_stack # <<>>, Top.kind = "cmd", StackStep, fs_current_func' = fs_current_func,
         TablesOK', PlaceOK', fs_break' \in BOOLEAN, fs_running' \in BOOLEAN
  PROVE  SessInv'
  <1>1. StackOK(fs_stack, fs_current_func)' /\ fs_stack' # <<>>
    BY StackStepKept DEF SessInv
  <1> QED BY <1>1, Waiting

LEMMA FunctionKept == SessInv /\ fs_stack # <<>> /\ Top.kind = "cmd" /\ dispatch_function => SessInv'
  <1>1. SUFFICES ASSUME SessInv, fs_stack # <<>>, Top.kind = "cmd", dispatch_function PROVE SessInv'
    OBVIOUS
  <1>2. /\ TablesOK /\ PlaceOK' /\ fs_current_func' = fs_current_func /\ fs_break' \in BOOLEAN /\ fs_running' \in BOOLEAN
        /\ UNCHANGED <<fs_vars, fs_abbrevs, fs_events>>
    BY <1>1, PlaceSame DEF dispatch_function, SessInv, KeepSession
  <1>3. StackStep /\ TableOK(fs_funcs', FS_MAX_FUNCS)
    <2>1. CASE Return(1) /\ UNCHANGED fs_funcs
      BY <1>2, <2>1, StepReturn DEF TablesOK
    <2>2. CASE Return(0) /\ \E body : fs_funcs' = fish_func_add(Arg(2), body)
      <3>1. PICK body : fs_funcs' = fish_func_add(Arg(2), body)
        BY <2>2
      <3>2. TableOK(fish_func_add(Arg(2), body), FS_MAX_FUNCS)
        BY <1>2, FuncsAdded DEF TablesOK
      <3> QED BY <2>2, <3>1, <3>2, StepReturn
    <2> QED BY <1>1, <2>1, <2>2 DEF dispatch_function
  <1>4. TablesOK'
    BY <1>2, <1>3 DEF TablesOK
  <1> QED BY <1>1, <1>2, <1>3, <1>4, CommandKept

LEMMA SetVarKept == SessInv /\ fs_stack # <<>> /\ Top.kind = "cmd" /\ fish_cmd_set => SessInv'
  <1>1. SUFFICES ASSUME SessInv, fs_stack # <<>>, Top.kind = "cmd", fish_cmd_set PROVE SessInv'
    OBVIOUS
  <1>2. /\ TablesOK /\ PlaceOK' /\ fs_current_func' = fs_current_func /\ fs_break' \in BOOLEAN /\ fs_running' \in BOOLEAN
        /\ UNCHANGED <<fs_abbrevs, fs_funcs, fs_events>>
    BY <1>1, PlaceSame DEF fish_cmd_set, SessInv, KeepSession
  <1>3. /\ \E status : Return(status)
        /\ \/ \E name : fs_vars' = Without(fs_vars, name)
           \/ fs_vars' = fs_vars
           \/ \E name, value : fs_vars' = fish_var_set(fs_vars, name, value)
           \/ \E name, value, scope : fs_vars' = fish_var_set_scope(fs_vars, name, value, scope)
    <2> DEFINE at == IF Arg(2) \in {"-x", "-l", "-U", "-e", "-q"} THEN 3 ELSE 2
               known == Find(fs_vars, Arg(at)) # 0
               scope == CASE Arg(2) = "-x" -> "EXPORT" [] Arg(2) = "-l" -> "LOCAL" [] Arg(2) = "-U" -> "UNIV" [] OTHER -> "GLOBAL"
    <2>1. IF Arg(2) = "-e" THEN fs_vars' = Without(fs_vars, Arg(at)) /\ Return(IF Argc >= at /\ known THEN 0 ELSE 1)
          ELSE IF Arg(2) = "-q" THEN UNCHANGED fs_vars /\ Return(IF known \/ (Argc < at /\ fs_vars # <<>>) THEN 0 ELSE 1)
          ELSE IF Argc < at THEN UNCHANGED fs_vars /\ Return(0)
          ELSE IF Argc = at THEN fs_vars' = fish_var_set(fs_vars, Arg(at), NoText) /\ Return(0)
          ELSE /\ fs_vars' = fish_var_set_scope(fs_vars, Arg(at), Arg(at + 1), scope)
               /\ Return(IF known \/ Len(fs_vars) < FS_MAX_VARS THEN 0 ELSE -1)
      BY <1>1 DEF fish_cmd_set
    <2> HIDE DEF at, known, scope
    <2> QED BY <2>1
  <1>4. VarsOK(fs_vars')
    BY <1>2, <1>3, VarsWithout, VarSet, VarSetScope DEF TablesOK
  <1>5. TablesOK'
    BY <1>2, <1>4 DEF TablesOK
  <1>6. StackStep
    BY <1>3, StepReturn
  <1> QED BY <1>1, <1>2, <1>5, <1>6, CommandKept

LEMMA ExportVarKept == SessInv /\ fs_stack # <<>> /\ Top.kind = "cmd" /\ dispatch_export => SessInv'
  <1>1. SUFFICES ASSUME SessInv, fs_stack # <<>>, Top.kind = "cmd", dispatch_export PROVE SessInv'
    OBVIOUS
  <1>2. /\ TablesOK /\ PlaceOK' /\ fs_current_func' = fs_current_func /\ fs_break' \in BOOLEAN /\ fs_running' \in BOOLEAN
        /\ UNCHANGED <<fs_abbrevs, fs_funcs, fs_events>> /\ Return(0)
        /\ fs_vars' = IF Argc < 2 THEN fs_vars ELSE fish_cmd_export(fs_vars, Arg(2), Arg(3))
    BY <1>1, PlaceSame DEF dispatch_export, SessInv, KeepSession
  <1>3. VarsOK(fs_vars')
    BY <1>2, ExportKept DEF TablesOK
  <1>4. TablesOK'
    BY <1>2, <1>3 DEF TablesOK
  <1>5. StackStep
    BY <1>2, StepReturn
  <1> QED BY <1>1, <1>2, <1>4, <1>5, CommandKept

LEMMA AbbrevKept == SessInv /\ fs_stack # <<>> /\ Top.kind = "cmd" /\ fish_cmd_abbrev => SessInv'
  <1>1. SUFFICES ASSUME SessInv, fs_stack # <<>>, Top.kind = "cmd", fish_cmd_abbrev PROVE SessInv'
    OBVIOUS
  <1>2. /\ TablesOK /\ PlaceOK' /\ fs_current_func' = fs_current_func /\ fs_break' \in BOOLEAN /\ fs_running' \in BOOLEAN
        /\ UNCHANGED <<fs_vars, fs_funcs, fs_events>>
    BY <1>1, PlaceSame DEF fish_cmd_abbrev, SessInv, KeepSession
  <1>3. /\ \E status : Return(status)
        /\ \/ fs_abbrevs' = fs_abbrevs
           \/ fs_abbrevs' = Without(fs_abbrevs, Arg(3))
           \/ fs_abbrevs' = fish_abbrev_add(Arg(2), Arg(3))
    BY <1>1 DEF fish_cmd_abbrev
  <1>4. TableOK(fs_abbrevs', FS_MAX_ABBREVS)
    BY <1>2, <1>3, TableWithout, AbbrevsAdded, FSBounds DEF TablesOK
  <1>5. TablesOK'
    BY <1>2, <1>4 DEF TablesOK
  <1>6. StackStep
    BY <1>3, StepReturn
  <1> QED BY <1>1, <1>2, <1>5, <1>6, CommandKept

LEMMA FunctionsKept == SessInv /\ fs_stack # <<>> /\ Top.kind = "cmd" /\ fish_cmd_functions => SessInv'
  <1>1. SUFFICES ASSUME SessInv, fs_stack # <<>>, Top.kind = "cmd", fish_cmd_functions PROVE SessInv'
    OBVIOUS
  <1>2. /\ TablesOK /\ PlaceOK' /\ fs_current_func' = fs_current_func /\ fs_break' \in BOOLEAN /\ fs_running' \in BOOLEAN
        /\ UNCHANGED <<fs_vars, fs_abbrevs, fs_events>>
    BY <1>1, PlaceSame DEF fish_cmd_functions, SessInv, KeepSession
  <1>3. /\ \E status : Return(status)
        /\ fs_funcs' = fs_funcs \/ fs_funcs' = Without(fs_funcs, Arg(3))
    BY <1>1 DEF fish_cmd_functions, fish_func_erase
  <1>4. TableOK(fs_funcs', FS_MAX_FUNCS)
    BY <1>2, <1>3, TableWithout, FSBounds DEF TablesOK
  <1>5. TablesOK'
    BY <1>2, <1>4 DEF TablesOK
  <1>6. StackStep
    BY <1>3, StepReturn
  <1> QED BY <1>1, <1>2, <1>5, <1>6, CommandKept

LEMMA ReadVarKept == SessInv /\ fs_stack # <<>> /\ Top.kind = "cmd" /\ fish_cmd_read => SessInv'
  <1>1. SUFFICES ASSUME SessInv, fs_stack # <<>>, Top.kind = "cmd", fish_cmd_read PROVE SessInv'
    OBVIOUS
  <1>2. /\ TablesOK /\ PlaceOK' /\ fs_current_func' = fs_current_func /\ fs_break' \in BOOLEAN /\ fs_running' \in BOOLEAN
        /\ UNCHANGED <<fs_abbrevs, fs_funcs, fs_events>>
    BY <1>1, PlaceSame DEF fish_cmd_read, SessInv, KeepSession
  <1>3. /\ \E status : Return(status)
        /\ fs_vars' = fs_vars \/ \E value : fs_vars' = fish_var_set(fs_vars, Arg(2), value)
    BY <1>1 DEF fish_cmd_read
  <1>4. VarsOK(fs_vars')
    BY <1>2, <1>3, VarSet DEF TablesOK
  <1>5. TablesOK'
    BY <1>2, <1>4 DEF TablesOK
  <1>6. StackStep
    BY <1>3, StepReturn
  <1> QED BY <1>1, <1>2, <1>5, <1>6, CommandKept

(* builtin and the like, source, and the commands that only return. *)
LEMMA PlainKept ==
  SessInv /\ fs_stack # <<>> /\ Top.kind = "cmd" /\ (dispatch_prefix \/ fish_cmd_source \/ dispatch_other) => SessInv'
  <1>1. SUFFICES ASSUME SessInv, fs_stack # <<>>, Top.kind = "cmd", dispatch_prefix \/ fish_cmd_source \/ dispatch_other
                 PROVE  SessInv'
    OBVIOUS
  <1>2. TablesOK' /\ PlaceOK' /\ fs_current_func' = fs_current_func /\ fs_break' \in BOOLEAN /\ fs_running' \in BOOLEAN
    BY <1>1, PlaceSame, TablesSame DEF dispatch_prefix, fish_cmd_source, dispatch_other, SessInv, KeepSession
  <1>3. CASE dispatch_prefix
    <2>1. Becomes(Rest) \/ \E status : Return(status)
      BY <1>3 DEF dispatch_prefix
    <2>2. StackStep
      BY <2>1, StepReturn, StepBecomes
    <2> QED BY <1>1, <1>2, <2>2, CommandKept
  <1>4. CASE fish_cmd_source
    <2>1. Return(1) \/ fs_stack' = Append(Below, Frame("source", FSFile[Arg(2)], 1))
      BY <1>4 DEF fish_cmd_source
    <2>2. StackStep
      BY <2>1, StepReturn DEF StackStep
    <2> QED BY <1>1, <1>2, <2>2, CommandKept
  <1>5. CASE dispatch_other
    <2>1. \E status : Return(status)
      BY <1>5 DEF dispatch_other
    <2>2. StackStep
      BY <2>1, StepReturn
    <2> QED BY <1>1, <1>2, <2>2, CommandKept
  <1> QED BY <1>1, <1>3, <1>4, <1>5

LEMMA ExitKept == SessInv /\ fs_stack # <<>> /\ Top.kind = "cmd" /\ dispatch_exit => SessInv'
  <1>1. SUFFICES ASSUME SessInv, fs_stack # <<>>, Top.kind = "cmd", dispatch_exit PROVE SessInv'
    OBVIOUS
  <1>2. /\ TablesOK /\ PlaceOK' /\ fs_current_func' = fs_current_func /\ fs_break' \in BOOLEAN /\ fs_running' \in BOOLEAN
        /\ UNCHANGED <<fs_abbrevs, fs_funcs, fs_events>> /\ Return(0)
        /\ fs_vars' = [i \in DOMAIN fs_vars |-> [fs_vars[i] EXCEPT !.value = NoText]]
    BY <1>1, PlaceSame DEF dispatch_exit, SessInv
  <1>3. VarsOK(fs_vars')
    BY <1>2, VarsBlanked DEF TablesOK
  <1>4. TablesOK'
    BY <1>2, <1>3 DEF TablesOK
  <1>5. StackStep
    BY <1>2, StepReturn
  <1> QED BY <1>1, <1>2, <1>4, <1>5, CommandKept

(* A function is entered: its frame holds the name that was set. *)
LEMMA Entered ==
  ASSUME SessInv, fs_stack # <<>>, Top.kind = "cmd", NEW f, NEW args, NEW below,
         \/ below = Below
         \/ below = Append(Below, Frame("emit", <<>>, 0)),
         EnterFunction(f, below, args)
  PROVE  StackOK(fs_stack, fs_current_func)' /\ fs_stack' # <<>> /\ VarsOK(fs_vars')
  <1> DEFINE g == Frame("func", <<f>>, 1)
             e == Frame("emit", <<>>, 0)
  <1>1. StackOK(fs_stack, fs_current_func) /\ fs_current_func = Top.prev /\ VarsOK(fs_vars)
    BY TopOf DEF SessInv, Top, TablesOK
  <1>2. /\ {"kind", "prev"} \subseteq DOMAIN g /\ g.kind = "func" /\ g.prev = fs_current_func
        /\ {"kind", "prev"} \subseteq DOMAIN e /\ e.kind = "emit" /\ e.prev = fs_current_func
    BY FrameOf
  <1>3. fs_stack' = Append(below, g) /\ (below = Below \/ below = Append(Below, e))
    BY DEF EnterFunction
  <1> HIDE DEF g, e
  <1>4. CASE below = Below
    <2>1. StackOK(Append(Below, g), fs_current_func') /\ Append(Below, g) # <<>>
      BY <1>1, <1>2, Replaced
    <2> QED BY <1>1, <1>3, <1>4, <2>1, VarSet DEF EnterFunction
  <1>5. CASE below = Append(Below, e)
    <2>1. StackOK(below, fs_current_func) /\ below # <<>>
      BY <1>1, <1>2, <1>5, Replaced
    <2>2. StackOK(Append(below, g), fs_current_func')
      BY <1>2, <2>1, Pushed
    <2>3. Append(below, g) # <<>>
      BY <2>1, SeqAppend DEF StackOK
    <2> QED BY <1>1, <1>3, <2>2, <2>3, VarSet DEF EnterFunction
  <1> QED BY <1>3, <1>4, <1>5

LEMMA UserFunctionKept == SessInv /\ fs_stack # <<>> /\ Top.kind = "cmd" /\ dispatch_user_function => SessInv'
  <1>1. SUFFICES ASSUME SessInv, fs_stack # <<>>, Top.kind = "cmd", dispatch_user_function PROVE SessInv'
    OBVIOUS
  <1>2. /\ TablesOK /\ PlaceOK' /\ fs_break' \in BOOLEAN /\ fs_running' \in BOOLEAN
        /\ UNCHANGED <<fs_abbrevs, fs_funcs, fs_events>>
    BY <1>1, PlaceSame DEF dispatch_user_function, SessInv
  <1>3. StackOK(fs_stack, fs_current_func)' /\ fs_stack' # <<>> /\ VarsOK(fs_vars')
    BY <1>1, Entered DEF dispatch_user_function
  <1>4. TablesOK'
    BY <1>2, <1>3 DEF TablesOK
  <1> QED BY <1>2, <1>3, <1>4, Waiting

LEMMA EmitKept == SessInv /\ fs_stack # <<>> /\ Top.kind = "cmd" /\ fish_cmd_emit => SessInv'
  <1>1. SUFFICES ASSUME SessInv, fs_stack # <<>>, Top.kind = "cmd", fish_cmd_emit PROVE SessInv'
    OBVIOUS
  <1>2. /\ TablesOK /\ PlaceOK' /\ fs_break' \in BOOLEAN /\ fs_running' \in BOOLEAN
        /\ UNCHANGED <<fs_abbrevs, fs_funcs>>
    BY <1>1, PlaceSame DEF fish_cmd_emit, SessInv
  <1> DEFINE known == Arg(2) \in ToSet(fs_events) \/ Len(fs_events) >= FS_MAX_EVENTS
             events == IF known THEN fs_events ELSE Append(fs_events, Arg(2))
  <1>3. TableOK(events, FS_MAX_EVENTS)
    <2>1. TableOK(fs_events, FS_MAX_EVENTS) /\ FS_MAX_EVENTS \in Nat
      BY <1>2, FSBounds DEF TablesOK
    <2>2. ~known => ~(Len(fs_events) >= FS_MAX_EVENTS)
      OBVIOUS
    <2> HIDE DEF known
    <2> QED BY <2>1, <2>2, TableAdd
  <1>4. IF Argc < 2 THEN Return(1) /\ UNCHANGED <<fs_events, fs_current_func, fs_vars>>
        ELSE fs_events' = events /\ fish_emit_event(events, Arg(2))
    BY <1>1 DEF fish_cmd_emit
  <1> HIDE DEF events, known
  <1>5. CASE Argc < 2
    <2>1. Return(1) /\ UNCHANGED <<fs_events, fs_current_func, fs_vars>>
      BY <1>4, <1>5
    <2>2. StackStep
      BY <2>1, StepReturn
    <2>3. TablesOK'
      BY <1>2, <2>1 DEF TablesOK
    <2> QED BY <1>1, <1>2, <2>1, <2>2, <2>3, CommandKept
  <1>6. CASE ~(Argc < 2)
    <2>1. fs_events' = events /\ fish_emit_event(events, Arg(2))
      BY <1>4, <1>6
    <2>2. CASE Return(0) /\ UNCHANGED <<fs_current_func, fs_vars>>
      <3>1. StackStep
        BY <2>2, StepReturn
      <3>2. TablesOK'
        BY <1>2, <1>3, <2>1, <2>2 DEF TablesOK
      <3> QED BY <1>1, <1>2, <2>2, <3>1, <3>2, CommandKept
    <2>3. CASE \E f : EnterFunction(f, Append(Below, Frame("emit", <<>>, 0)), <<>>)
      <3>1. StackOK(fs_stack, fs_current_func)' /\ fs_stack' # <<>> /\ VarsOK(fs_vars')
        BY <1>1, <2>3, Entered
      <3>2. TablesOK'
        BY <1>2, <1>3, <2>1, <3>1 DEF TablesOK
      <3> QED BY <1>2, <3>1, <3>2, Waiting
    <2> QED BY <2>1, <2>2, <2>3 DEF fish_emit_event
  <1> QED BY <1>5, <1>6


-----------------------------------------------------------------------------
(***************************************************************************)
(* Paths: what fish_normalize_path keeps is as deep as its array at most.  *)
(***************************************************************************)
LEMMA SeqTail ==
  ASSUME NEW s, IsSeq(s), s # <<>>
  PROVE  IsSeq(Tail(s))
  <1>1. PICK S : s \in Seq(S)
    BY DEF IsSeq
  <1>2. Tail(s) \in Seq(S)
    BY <1>1
  <1> QED BY <1>2 DEF IsSeq

LEMMA SeqOne ==
  ASSUME NEW x
  PROVE  IsSeq(<<x>>)
  <1>1. <<x>> \in Seq({x})
    OBVIOUS
  <1> QED BY <1>1 DEF IsSeq

LEMMA DepthsOf ==
  ASSUME NEW path, IsSeq(path)
  PROVE  TableOK(Depths(path), FS_PATH_DEPTH)
  <1> DEFINE n == Len(path)
             E == {path[k] : k \in 1 .. n}
             Stacks == {s \in Seq(E) : Len(s) <= FS_PATH_DEPTH}
             step == [x \in Stacks \X (1 .. n) |-> Deeper(x[1], path[x[2]])]
             Is(stack) == stack = [k \in 0 .. n |-> IF k = 0 THEN <<>> ELSE Deeper(stack[k - 1], path[k])]
             stack == CHOOSE stack : Is(stack)
  <1>1. n \in Nat /\ FS_PATH_DEPTH \in Nat /\ \A k \in 1 .. n : path[k] \in E
    BY SeqLen, FSBounds
  <1>2. ASSUME NEW s \in Stacks, NEW k \in 1 .. n PROVE Deeper(s, path[k]) \in Stacks
    <2> DEFINE c == path[k]
    <2>1. s \in Seq(E) /\ Len(s) <= FS_PATH_DEPTH /\ Len(s) \in Nat /\ c \in E
      BY <1>1
    <2>2. Deeper(s, c) = IF c = "." \/ Len(s) >= FS_PATH_DEPTH THEN s
                         ELSE IF c = ".." THEN (IF s = <<>> THEN s ELSE Front(s)) ELSE Append(s, c)
      BY DEF Deeper
    <2> HIDE DEF c, E
    <2>3. s # <<>> => Front(s) \in Seq(E) /\ Len(Front(s)) <= FS_PATH_DEPTH
      <3> HAVE s # <<>>
      <3>1. Len(s) - 1 \in 0 .. Len(s)
        BY <2>1
      <3>2. SubSeq(s, 1, Len(s) - 1) \in Seq(E) /\ Len(SubSeq(s, 1, Len(s) - 1)) = Len(s) - 1
        BY <2>1, <3>1, StartOf
      <3> QED BY <1>1, <2>1, <3>2 DEF Front
    <2>4. ~(Len(s) >= FS_PATH_DEPTH) => Append(s, c) \in Seq(E) /\ Len(Append(s, c)) <= FS_PATH_DEPTH
      BY <1>1, <2>1
    <2>5. Deeper(s, c) \in Seq(E) /\ Len(Deeper(s, c)) <= FS_PATH_DEPTH
      BY <2>1, <2>2, <2>3, <2>4
    <2> QED BY <2>5 DEF c
  <1>3. step \in [Stacks \X (1 .. n) -> Stacks]
    <2> HIDE DEF Stacks, n
    <2> QED BY <1>2
  <1>4. <<>> \in Stacks
    BY <1>1
  <1>5. PICK f \in [0 .. n -> Stacks] : RoundsOf(f, <<>>, step, n)
    <2> HIDE DEF step, n, Stacks
    <2> QED BY <1>1, <1>3, <1>4, RoundsThere
  <1> HIDE DEF Stacks
  <1>6. ASSUME NEW k \in 1 .. n PROVE k - 1 \in 0 .. n /\ step[<<f[k - 1], k>>] = Deeper(f[k - 1], path[k])
    <2>1. k - 1 \in 0 .. n
      BY <1>1
    <2>2. f[k - 1] \in Stacks
      BY <2>1, <1>5
    <2> QED BY <2>1, <2>2
  <1> HIDE DEF step
  <1>7. \A k \in 0 .. n : (IF k = 0 THEN <<>> ELSE step[<<f[k - 1], k>>]) = IF k = 0 THEN <<>> ELSE Deeper(f[k - 1], path[k])
    <2>1. \A k \in 0 .. n : k = 0 \/ k \in 1 .. n
      BY <1>1
    <2> HIDE DEF n
    <2> QED BY <1>6, <2>1
  <1>8. Is(f)
    <2>1. [k \in 0 .. n |-> IF k = 0 THEN <<>> ELSE step[<<f[k - 1], k>>]]
            = [k \in 0 .. n |-> IF k = 0 THEN <<>> ELSE Deeper(f[k - 1], path[k])]
      BY <1>7
    <2> QED BY <1>5, <2>1 DEF RoundsOf
  <1>9. Is(stack)
    <2> HIDE DEF Is
    <2> QED BY <1>8
  <1>10. Depths(path) = stack[n]
    BY DEF Depths
  <1> HIDE DEF stack
  <1>11. stack[0] = <<>> /\ \A k \in 1 .. n : stack[k] = Deeper(stack[k - 1], path[k])
    BY <1>1, <1>9
  <1> DEFINE T == {k \in 0 .. n : stack[k] \in Stacks}
  <1>12. 0 \in T /\ \A k \in 1 .. n : k - 1 \in T => k \in T
    <2>1. stack[0] \in Stacks
      BY <1>4, <1>11
    <2>2. 0 \in 0 .. n
      BY <1>1
    <2>3. ASSUME NEW k \in 1 .. n, k - 1 \in T PROVE k \in T
      <3>1. stack[k] \in Stacks
        BY <1>2, <1>11, <2>3
      <3> QED BY <1>1, <3>1
    <2> HIDE DEF n
    <2> QED BY <2>1, <2>2, <2>3
  <1> HIDE DEF T
  <1>13. \A k \in 0 .. n : k \in T
    BY <1>1, <1>12, AllRounds
  <1>14. stack[n] \in Stacks
    <2>1. n \in 0 .. n
      BY <1>1
    <2> HIDE DEF n
    <2> QED BY <1>13, <2>1 DEF T
  <1> QED BY <1>10, <1>14 DEF Stacks, TableOK, IsSeq

LEMMA PathOfSeq ==
  ASSUME NEW text
  PROVE  IsSeq(PathOf(text).comps)
  <1>1. CASE text \in DOMAIN FSPath
    <2>1. FSPath[text].comps \in Seq(STRING)
      BY <1>1, FSPlaces
    <2> QED BY <1>1, <2>1 DEF PathOf, IsSeq
  <1>2. CASE text \notin DOMAIN FSPath /\ \E d \in FSDirs \ {<<>>} : PathText(d) = text
    <2> DEFINE d == CHOOSE d \in FSDirs \ {<<>>} : PathText(d) = text
    <2>1. d \in FSDirs
      BY <1>2
    <2>2. PathOf(text).comps = d
      BY <1>2 DEF PathOf
    <2> HIDE DEF d
    <2>3. d \in Seq(STRING)
      BY <2>1, FSPlaces
    <2> QED BY <2>2, <2>3 DEF IsSeq
  <1>3. CASE text \notin DOMAIN FSPath /\ ~ \E d \in FSDirs \ {<<>>} : PathText(d) = text
    <2>1. PathOf(text).comps = <<text>>
      BY <1>3 DEF PathOf
    <2> QED BY <2>1, SeqOne
  <1> QED BY <1>1, <1>2, <1>3

LEMMA FullPathSeq ==
  ASSUME IsSeq(fs_cwd), NEW p, IsSeq(p.comps)
  PROVE  IsSeq(FullPath(p))
  <1> DEFINE joint == Last(fs_cwd) \o Head(p.comps)
  <1>1. CASE p.abs \/ fs_cwd = <<>>
    BY <1>1 DEF FullPath
  <1>2. CASE ~(p.abs \/ fs_cwd = <<>>) /\ p.comps = <<>>
    BY <1>2 DEF FullPath
  <1>3. CASE ~(p.abs \/ fs_cwd = <<>>) /\ p.comps # <<>>
    <2>1. FullPath(p) = Front(fs_cwd) \o <<joint>> \o Tail(p.comps)
      BY <1>3 DEF FullPath
    <2> HIDE DEF joint
    <2>2. IsSeq(Front(fs_cwd)) /\ IsSeq(<<joint>>) /\ IsSeq(Tail(p.comps))
      BY <1>3, SeqFront, SeqOne, SeqTail
    <2>3. IsSeq(Front(fs_cwd) \o <<joint>>)
      BY <2>2, SeqJoined
    <2> QED BY <2>1, <2>2, <2>3, SeqJoined
  <1> QED BY <1>1, <1>2, <1>3

LEMMA CdKept ==
  ASSUME TablesOK, PlaceOK, NEW arg, NEW dirs, TableOK(dirs, FS_DIR_STACK), NEW dirs_failed, TableOK(dirs_failed, FS_DIR_STACK),
         fish_cmd_cd(arg, dirs, dirs_failed)
  PROVE  StackStep /\ VarsOK(fs_vars') /\ PlaceOK'
  <1> DEFINE target == IF arg \in {NoText, "~"} THEN fish_var_get("HOME") ELSE IF arg = "-" THEN fish_var_get("OLDPWD") ELSE arg
             full == FullPath(PathOf(target))
             fails == Return(1) /\ fs_dirs' = dirs_failed /\ UNCHANGED <<fs_cwd, fs_vars>>
  <1>1. \/ fails
        \/ Hang /\ fs_dirs' = dirs /\ UNCHANGED <<fs_cwd, fs_vars>>
        \/ /\ fs_cwd' = Depths(full) /\ fs_dirs' = dirs /\ Return(0)
           /\ \E a, b : fs_vars' = fish_var_set(fish_var_set(fs_vars, "OLDPWD", a), "PWD", b)
    BY DEF fish_cmd_cd
  <1>2. VarsOK(fs_vars) /\ IsSeq(fs_cwd) /\ TableOK(fs_cwd, FS_PATH_DEPTH)
    BY DEF TablesOK, PlaceOK, TableOK
  <1>3. IsSeq(full)
    <2> HIDE DEF target
    <2> QED BY <1>2, PathOfSeq, FullPathSeq
  <1> HIDE DEF full
  <1>4. CASE fails
    BY <1>2, <1>4, StepReturn DEF PlaceOK
  <1>5. CASE Hang /\ fs_dirs' = dirs /\ UNCHANGED <<fs_cwd, fs_vars>>
    BY <1>2, <1>5, StepHang DEF PlaceOK
  <1>6. CASE /\ fs_cwd' = Depths(full) /\ fs_dirs' = dirs /\ Return(0)
             /\ \E a, b : fs_vars' = fish_var_set(fish_var_set(fs_vars, "OLDPWD", a), "PWD", b)
    <2>1. TableOK(fs_cwd', FS_PATH_DEPTH)
      BY <1>3, <1>6, DepthsOf
    <2>2. PICK a, b : fs_vars' = fish_var_set(fish_var_set(fs_vars, "OLDPWD", a), "PWD", b)
      BY <1>6
    <2>3. VarsOK(fish_var_set(fs_vars, "OLDPWD", a))
      BY <1>2, VarSet
    <2>4. VarsOK(fs_vars')
      BY <2>2, <2>3, VarSet
    <2> QED BY <1>6, <2>1, <2>4, StepReturn DEF PlaceOK
  <1> QED BY <1>1, <1>4, <1>5, <1>6

LEMMA DirsKept == SessInv /\ fs_stack # <<>> /\ Top.kind = "cmd" /\ dispatch_dirs => SessInv'
  <1>1. SUFFICES ASSUME SessInv, fs_stack # <<>>, Top.kind = "cmd", dispatch_dirs PROVE SessInv'
    OBVIOUS
  <1>2. /\ TablesOK /\ PlaceOK /\ VarsOK(fs_vars) /\ fs_break' \in BOOLEAN /\ fs_running' \in BOOLEAN
        /\ fs_current_func' = fs_current_func /\ UNCHANGED <<fs_abbrevs, fs_funcs, fs_events>>
    BY <1>1 DEF dispatch_dirs, SessInv, KeepSession, TablesOK
  <1>3. TableOK(fs_dirs, FS_DIR_STACK) /\ IsSeq(fs_dirs) /\ Len(fs_dirs) \in Nat /\ Len(fs_dirs) <= FS_DIR_STACK
        /\ FS_DIR_STACK \in Nat
    BY <1>2, SeqLen, FSBounds DEF PlaceOK, TableOK
  <1>4. fs_dirs # <<>> => IsSeq(Front(fs_dirs)) /\ Len(Front(fs_dirs)) = Len(fs_dirs) - 1
    BY <1>3, SeqFront
  <1>5. fs_dirs # <<>> => TableOK(Front(fs_dirs), FS_DIR_STACK)
    BY <1>3, <1>4 DEF TableOK
  <1>6. \A x : fs_dirs # <<>> => TableOK(Append(Front(fs_dirs), x), FS_DIR_STACK)
    <2> TAKE x
    <2> HAVE fs_dirs # <<>>
    <2>1. IsSeq(Append(Front(fs_dirs), x)) /\ Len(Append(Front(fs_dirs), x)) = Len(Front(fs_dirs)) + 1
      BY <1>4, SeqAppend
    <2> QED BY <1>3, <1>4, <2>1 DEF TableOK
  <1>7. \A x : ~(Len(fs_dirs) >= FS_DIR_STACK) => TableOK(Append(fs_dirs, x), FS_DIR_STACK)
    BY <1>3, TableAdd
  <1> DEFINE here == PathText(fs_cwd)
             swapped == Append(Front(fs_dirs), here)
  <1>8. StackStep /\ VarsOK(fs_vars') /\ PlaceOK'
    <2>1. CASE fish_cmd_cd(Arg(2), fs_dirs, fs_dirs)
      BY <1>2, <1>3, <2>1, CdKept
    <2>2. CASE /\ IF Argc < 2 \/ NormalizeEnds(FullPath(PathOf(Arg(2)))) THEN Return(0) ELSE Hang
               /\ UNCHANGED <<fs_cwd, fs_dirs, fs_vars>>
      BY <1>2, <2>2, StepReturn, StepHang DEF PlaceOK
    <2>3. CASE IF (Argc < 2 /\ fs_dirs = <<>>) \/ (Argc >= 2 /\ Len(fs_dirs) >= FS_DIR_STACK)
               THEN Return(1) /\ UNCHANGED <<fs_cwd, fs_dirs, fs_vars>>
               ELSE IF Argc < 2 THEN fish_cmd_cd(Last(fs_dirs), swapped, swapped)
               ELSE fish_cmd_cd(Arg(2), Append(fs_dirs, here), fs_dirs)
      <3> HIDE DEF here
      <3>1. CASE Return(1) /\ UNCHANGED <<fs_cwd, fs_dirs, fs_vars>>
        BY <1>2, <3>1, StepReturn DEF PlaceOK
      <3>2. CASE fs_dirs # <<>> /\ fish_cmd_cd(Last(fs_dirs), swapped, swapped)
        <4>1. TableOK(swapped, FS_DIR_STACK)
          BY <1>6, <3>2
        <4> HIDE DEF swapped
        <4> QED BY <1>2, <3>2, <4>1, CdKept
      <3>3. CASE ~(Len(fs_dirs) >= FS_DIR_STACK) /\ fish_cmd_cd(Arg(2), Append(fs_dirs, here), fs_dirs)
        <4>1. TableOK(Append(fs_dirs, here), FS_DIR_STACK)
          BY <1>7, <3>3
        <4> QED BY <1>2, <1>3, <3>3, <4>1, CdKept
      <3>4. \/ Return(1) /\ UNCHANGED <<fs_cwd, fs_dirs, fs_vars>>
            \/ fs_dirs # <<>> /\ fish_cmd_cd(Last(fs_dirs), swapped, swapped)
            \/ Argc >= 2 /\ ~(Len(fs_dirs) >= FS_DIR_STACK) /\ fish_cmd_cd(Arg(2), Append(fs_dirs, here), fs_dirs)
            \/ ~(Argc < 2) /\ ~(Argc >= 2)
        <4> HIDE DEF swapped
        <4> QED BY <2>3, Zenon
      <3>5. Argc < 2 \/ Argc >= 2
        BY DEF Argc
      <3> QED BY <3>1, <3>2, <3>3, <3>4, <3>5
    <2>4. CASE IF fs_dirs = <<>> THEN Return(1) /\ UNCHANGED <<fs_cwd, fs_dirs, fs_vars>>
               ELSE fish_cmd_cd(Last(fs_dirs), Front(fs_dirs), Front(fs_dirs))
      <3>1. CASE fs_dirs = <<>>
        BY <1>2, <2>4, <3>1, StepReturn DEF PlaceOK
      <3>2. CASE fs_dirs # <<>>
        BY <1>2, <1>5, <2>4, <3>2, CdKept
      <3> QED BY <3>1, <3>2
    <2> QED BY <1>1, <2>1, <2>2, <2>3, <2>4 DEF dispatch_dirs
  <1>9. TablesOK'
    BY <1>2, <1>8 DEF TablesOK
  <1> QED BY <1>1, <1>2, <1>8, <1>9, CommandKept


-----------------------------------------------------------------------------
(***************************************************************************)
(* A status arrives at the call that waits for it, and the prompt.         *)
(***************************************************************************)
LEMMA ReturnedKept ==
  ASSUME SessInv, fs_stack # <<>>, Top.kind \notin {"run", "func"}, fs_stack' = Below, fs_current_func' = fs_current_func,
         TablesOK', PlaceOK', fs_break' \in BOOLEAN, fs_running' \in BOOLEAN
  PROVE  SessInv'
  <1>1. StackOK(fs_stack, fs_current_func) /\ fs_current_func = Top.prev /\ Top.kind # "run"
    BY TopOf DEF SessInv, Top
  <1>2. StackOK(fs_stack', fs_current_func) /\ fs_stack' # <<>>
    BY <1>1, ReturnKept
  <1> QED BY <1>2, Waiting

LEMMA WaitingCalled ==
  ASSUME SessInv, fs_stack # <<>>, NEW args, NEW frame, {"kind", "prev"} \subseteq DOMAIN frame,
         frame.kind = Top.kind, frame.prev = Top.prev,
         Call(frame, args), fs_current_func' = fs_current_func,
         TablesOK', PlaceOK', fs_break' \in BOOLEAN, fs_running' \in BOOLEAN
  PROVE  SessInv'
  <1>1. StackOK(fs_stack, fs_current_func) /\ (frame.kind # "func" => fs_current_func = Top.prev)
    BY TopOf DEF SessInv, Top
  <1>2. StackOK(fs_stack', fs_current_func) /\ fs_stack' # <<>>
    BY <1>1, Called
  <1> QED BY <1>2, Waiting

LEMMA ResumeKept == SessInv /\ fs_stack # <<>> /\ Resume => SessInv'
  <1>1. SUFFICES ASSUME SessInv, fs_stack # <<>>, Resume PROVE SessInv'
    OBVIOUS
  <1>2. /\ StackOK(fs_stack, fs_current_func) /\ TablesOK /\ PlaceOK /\ fs_break \in BOOLEAN /\ fs_running \in BOOLEAN
        /\ {"kind", "prev"} \subseteq DOMAIN Top
    BY <1>1, TopOf DEF SessInv, Top
  <1> DEFINE next == [Top EXCEPT !.n = @ + 1]
  <1>3. {"kind", "prev"} \subseteq DOMAIN next /\ next.kind = Top.kind /\ next.prev = Top.prev
    BY <1>2
  <1> HIDE DEF next
  <1>4. CASE Condition
    <2>1. Top.kind \notin {"run", "func"} /\ fs_stack' = Below
      BY <1>4 DEF Condition, Return
    <2>2. TablesOK' /\ PlaceOK' /\ fs_current_func' = fs_current_func /\ fs_break' = fs_break /\ fs_running' = fs_running
      BY <1>2, <1>4, TablesSame, PlaceSame DEF Condition, KeepSession
    <2> QED BY <1>1, <1>2, <2>1, <2>2, ReturnedKept
  <1>5. CASE Substituted
    <2>1. TablesOK' /\ PlaceOK' /\ fs_current_func' = fs_current_func /\ fs_break' = fs_break /\ fs_running' = fs_running
      BY <1>2, <1>5, TablesSame, PlaceSame DEF Substituted, KeepSession
    <2>2. PICK value : fs_stack' = Append(Below, [Top EXCEPT !.kind = "cmd", !.args[Top.n] = value, !.n = @ + 1])
      BY <1>5 DEF Substituted
    <2> DEFINE f == [Top EXCEPT !.kind = "cmd", !.args[Top.n] = value, !.n = @ + 1]
    <2>3. {"kind", "prev"} \subseteq DOMAIN f /\ f.prev = Top.prev /\ f.kind = "cmd"
      BY <1>2
    <2>4. fs_stack' = Append(Below, f)
      BY <2>2
    <2> HIDE DEF f
    <2>5. Top.kind = "subst" /\ fs_current_func = Top.prev
      BY <1>1, <1>2, <1>5, TopOf DEF Substituted, Top
    <2>6. StackOK(Append(Below, f), fs_current_func) /\ Append(Below, f) # <<>>
      BY <1>1, <1>2, <2>3, <2>5, Replaced
    <2> QED BY <1>2, <2>1, <2>4, <2>6, Waiting
  <1>6. CASE SourceNext
    <2>1. TablesOK' /\ PlaceOK' /\ fs_current_func' = fs_current_func /\ fs_break' = fs_break /\ fs_running' = fs_running
      BY <1>2, <1>6, TablesSame, PlaceSame DEF SourceNext, KeepSession
    <2>2. Top.kind = "source" /\ (fs_stack' = Below \/ Call(next, Top.args[Top.n]))
      BY <1>6 DEF SourceNext, Return, next
    <2> QED BY <1>1, <1>2, <1>3, <2>1, <2>2, ReturnedKept, WaitingCalled
  <1>7. CASE FunctionNext
    <2>1. TablesOK' /\ PlaceOK' /\ fs_break' = fs_break /\ fs_running' = fs_running
      BY <1>2, <1>7, TablesSame, PlaceSame DEF FunctionNext
    <2>2. /\ Top.kind = "func"
          /\ \/ fs_stack' = Below /\ fs_current_func' = Top.prev
             \/ (\E args : Call(next, args)) /\ fs_current_func' = fs_current_func
      BY <1>7 DEF FunctionNext, Return, next
    <2>3. CASE fs_stack' = Below /\ fs_current_func' = Top.prev
      <3>1. StackOK(fs_stack', fs_current_func') /\ fs_stack' # <<>>
        BY <1>1, <1>2, <2>2, <2>3, ReturnKept
      <3> QED BY <1>2, <2>1, <3>1, Waiting
    <2>4. CASE (\E args : Call(next, args)) /\ fs_current_func' = fs_current_func
      BY <1>1, <1>2, <1>3, <2>1, <2>4, WaitingCalled
    <2> QED BY <2>2, <2>3, <2>4
  <1>8. CASE PipeNext
    <2>1. /\ PlaceOK' /\ fs_current_func' = fs_current_func /\ fs_break' = fs_break /\ fs_running' = fs_running
          /\ UNCHANGED <<fs_abbrevs, fs_funcs, fs_events>>
      BY <1>2, <1>8, PlaceSame DEF PipeNext
    <2>2. /\ Top.kind = "run"
          /\ \/ Call(next, Top.args[Top.n]) /\ UNCHANGED fs_vars
             \/ /\ fs_stack' = <<>> /\ fs_last_status' = fs_ret
                /\ fs_vars' = fish_var_set(fs_vars, "status", ToString(fs_ret))
      BY <1>8 DEF PipeNext, next
    <2>3. CASE Call(next, Top.args[Top.n]) /\ UNCHANGED fs_vars
      <3>1. TablesOK'
        BY <1>2, <2>1, <2>3 DEF TablesOK
      <3> QED BY <1>1, <1>2, <1>3, <2>1, <2>3, <3>1, WaitingCalled
    <2>4. CASE /\ fs_stack' = <<>> /\ fs_last_status' = fs_ret
               /\ fs_vars' = fish_var_set(fs_vars, "status", ToString(fs_ret))
      <3> DEFINE text == ToString(fs_ret)
      <3>1. VarsOK(fs_vars) /\ fs_vars' = fish_var_set(fs_vars, "status", text) /\ ToString(fs_last_status)' = text
        BY <1>2, <2>4 DEF TablesOK
      <3> HIDE DEF text
      <3>2. VarsOK(fs_vars')
        BY <3>1, VarSet
      <3>3. Find(fs_vars', "status") # 0 => fs_vars'[Find(fs_vars', "status")].value = text
        BY <3>1, VarReadBack
      <3>4. TablesOK'
        BY <1>2, <2>1, <3>2 DEF TablesOK
      <3>5. fs_current_func' = NoText
        <4>1. fs_current_func = Top.prev /\ Top.prev = NoText
          BY <1>1, <1>2, <2>2, TopOf DEF Top
        <4> QED BY <2>1, <4>1
      <3>6. StackOK(fs_stack', fs_current_func')
        <4>1. <<>> \in Seq({})
          OBVIOUS
        <4>2. IsSeq(<<>>)
          BY <4>1 DEF IsSeq
        <4> QED BY <2>4, <4>2 DEF StackOK
      <3>7. PromptClean'
        <4>1. Find(fs_vars, "status")' = Find(fs_vars', "status")
          BY DEF Find, SelectInSeq
        <4>2. fish_var_get("status")' = IF Find(fs_vars', "status") = 0 THEN NoText ELSE fs_vars'[Find(fs_vars', "status")].value
          BY <4>1 DEF fish_var_get
        <4>3. Find(fs_vars', "status") # 0 => fish_var_get("status")' = text
          BY <3>3, <4>2
        <4> QED BY <3>1, <3>5, <4>1, <4>3 DEF PromptClean
      <3> QED BY <1>2, <2>1, <3>4, <3>6, <3>7 DEF SessInv
    <2> QED BY <2>2, <2>3, <2>4
  <1> QED BY <1>1, <1>4, <1>5, <1>6, <1>7, <1>8 DEF Resume

(* A line is read. *)
LEMMA LineRead == SessInv /\ fish_run => SessInv'
  <1>1. SUFFICES ASSUME SessInv, fish_run PROVE SessInv'
    OBVIOUS
  <1>2. /\ TablesOK' /\ PlaceOK' /\ fs_current_func' = fs_current_func /\ fs_break' \in BOOLEAN /\ fs_running' \in BOOLEAN
        /\ fs_stack = <<>> /\ fs_current_func = NoText /\ StackOK(fs_stack, fs_current_func)
    BY <1>1, TablesSame, PlaceSame DEF fish_run, KeepSession, SessInv, PromptClean
  <1>3. PICK line : fs_stack' = <<Frame("run", line, 1)>>
    BY <1>1 DEF fish_run
  <1> DEFINE f == Frame("run", line, 1)
  <1>4. {"kind", "prev"} \subseteq DOMAIN f /\ f.kind = "run" /\ f.prev = fs_current_func
    BY FrameOf
  <1>5. fs_stack' = <<f>>
    BY <1>3
  <1> HIDE DEF f
  <1>6. Append(<<>>, f) = <<f>>
    OBVIOUS
  <1>7. StackOK(Append(<<>>, f), fs_current_func)
    BY <1>2, <1>4, Pushed
  <1>8. <<f>> # <<>>
    OBVIOUS
  <1> QED BY <1>2, <1>5, <1>6, <1>7, <1>8, Waiting

LEMMA SessInductive == SessInv /\ [FSNext]_fsVars => SessInv'
  <1>1. SUFFICES ASSUME SessInv, [FSNext]_fsVars PROVE SessInv'
    OBVIOUS
  <1>2. CASE UNCHANGED fsVars
    BY <1>1, <1>2 DEF SessInv, TablesOK, PlaceOK, PromptClean, fish_var_get, Find, SelectInSeq, fsVars, fsTables
  <1>3. CASE fish_run
    BY <1>1, <1>3, LineRead
  <1>4. CASE FSStep
    <2>1. fs_stack # <<>> /\ (fish_expand_vars \/ Dispatch \/ Resume)
      BY <1>4 DEF FSStep
    <2>2. CASE Dispatch
      <3>1. Top.kind = "cmd"
        BY <2>2 DEF Dispatch, Ready
      <3> QED BY <1>1, <2>1, <2>2, <3>1, ControlKept, FunctionKept, SetVarKept, ExportVarKept, AbbrevKept, FunctionsKept,
                 ReadVarKept, PlainKept, DirsKept, UserFunctionKept, EmitKept, ExitKept DEF Dispatch
    <2> QED BY <1>1, <2>1, <2>2, ExpandKept, ResumeKept
  <1> QED BY <1>1, <1>2, <1>3, <1>4 DEF FSNext

LEMMA SessStarts == FSInit => SessInv
  <1>1. SUFFICES ASSUME FSInit PROVE SessInv
    OBVIOUS
  <1> DEFINE v == [name |-> "status", value |-> ToString(0), exported |-> FALSE, scope |-> "GLOBAL"]
             a == [name |-> "c", expansion |-> "cat"]
  <1>2. IsSeq(<<>>) /\ Len(<<>>) = 0
    <2>1. <<>> \in Seq({})
      OBVIOUS
    <2> QED BY <2>1 DEF IsSeq
  <1>3. IsSeq(<<v>>) /\ Len(<<v>>) = 1 /\ <<v>>[1] = v /\ {"name", "value"} \subseteq DOMAIN v /\ v.name = "status" /\ v.value = ToString(0)
    <2>1. {"name", "value"} \subseteq DOMAIN v /\ v.name = "status" /\ v.value = ToString(0)
      OBVIOUS
    <2> HIDE DEF v
    <2> QED BY <2>1, SeqOne
  <1>4. IsSeq(<<a>>) /\ Len(<<a>>) = 1
    <2> HIDE DEF a
    <2> QED BY SeqOne
  <1>5. fs_vars = <<v>> /\ fs_abbrevs = <<a>>
    BY <1>1 DEF FSInit
  <1> HIDE DEF v, a
  <1>6. FS_MAX_VARS \in Nat \ {0} /\ FS_MAX_ABBREVS \in Nat \ {0} /\ {FS_MAX_FUNCS, FS_MAX_EVENTS, FS_PATH_DEPTH, FS_DIR_STACK} \subseteq Nat
    BY FSBounds
  <1>7. VarsOK(fs_vars)
    BY <1>3, <1>5, <1>6 DEF VarsOK, TableOK
  <1>8. TablesOK
    BY <1>1, <1>2, <1>4, <1>5, <1>6, <1>7 DEF TablesOK, TableOK, FSInit
  <1>9. PlaceOK
    BY <1>1, <1>2, <1>6 DEF PlaceOK, TableOK, FSInit
  <1>10. StackOK(fs_stack, fs_current_func)
    BY <1>1, <1>2 DEF StackOK, FSInit
  <1>11. Find(fs_vars, "status") # 0 => fish_var_get("status") = ToString(fs_last_status)
    <2> HAVE Find(fs_vars, "status") # 0
    <2>1. Find(fs_vars, "status") \in 1 .. Len(fs_vars)
      BY <1>7, FoundVar
    <2>2. Find(fs_vars, "status") = 1
      BY <1>3, <1>5, <2>1
    <2>3. fish_var_get("status") = v.value
      BY <1>3, <1>5, <2>2 DEF fish_var_get
    <2>4. fs_last_status = 0
      BY <1>1 DEF FSInit
    <2> QED BY <1>3, <2>3, <2>4
  <1>12. PromptClean
    BY <1>1, <1>11 DEF PromptClean, FSInit
  <1> QED BY <1>1, <1>8, <1>9, <1>10, <1>12 DEF SessInv, FSInit

LEMMA SessSound == SessInv => FSTypeOK /\ PromptClean
  BY DEF SessInv, TablesOK, PlaceOK, VarsOK, TableOK, FSTypeOK

(***************************************************************************)
(* A kill and a yank give the line back, every line typed comes back to a  *)
(* prompt that shows no function and the status of the line, and nothing   *)
(* leaves its array, for every size of the arrays and every command.       *)
(***************************************************************************)
THEOREM FishCorrect == FLSpec /\ FSSpec => []FishSound
  <1>1. LineInv /\ SessInv => FishSound
    BY LineSound, SessSound DEF FishSound
  <1>2. FLInit /\ FSInit => LineInv /\ SessInv
    BY LineStarts, SessStarts
  <1>3. LineInv /\ SessInv /\ [FLNext]_flVars /\ [FSNext]_fsVars => LineInv' /\ SessInv'
    BY LineInductive, SessInductive
  <1> QED BY <1>1, <1>2, <1>3, PTL DEF FLSpec, FSSpec
=============================================================================
