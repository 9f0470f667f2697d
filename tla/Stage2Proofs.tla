---------------------------- MODULE Stage2Proofs ----------------------------
(***************************************************************************)
(* Proofs about the programs of stage 2, for every size of their tables.   *)
(***************************************************************************)
EXTENDS S2Boot, STor, SWifi, S2Memory, FiniteSetTheorems, SequenceTheorems, WellFoundedInduction, TLAPS

-----------------------------------------------------------------------------
(***************************************************************************)
(* The snapshot.  SnapshotSound is not inductive: a restore can only give  *)
(* what was saved if every header on the disk carries the checksum of a    *)
(* saved image, and the image stays what it is only because no phase that  *)
(* writes to its place follows a restore before memory is zeroed.          *)
(***************************************************************************)
HeaderSaved ==
  /\ DOMAIN sb_snap = {"hdr", "size", "crc", "data"}
  /\ sb_snap.hdr => sb_snap.crc \in sb_saved

\* From the load of stage 4 on nothing is read into the kernel's place.
KernelThere == {"stage4", "stage3", "prompt", "manager", "kernel", "halt", "off"}

BootInv == HeaderSaved /\ SnapshotSound /\ (sb_from = "snapshot" => sb_pc \in KernelThere)

\* A snapshot whose checksum fits is a saved image.
LEMMA RestoreSound == BootInv /\ kernel_snapshot_restore => BootInv'
  <1> SUFFICES ASSUME BootInv, kernel_snapshot_restore PROVE BootInv'
    OBVIOUS
  <1>1. PICK good \in 0..SB_SECTORS :
          LET n == IF good < Len(sb_snap.data) THEN good ELSE Len(sb_snap.data)
              header == sb_ops /\ sb_snap.hdr /\ sb_snap.size \in 1..SB_SECTORS
              image == Filled(sb_kern, SubSeq(sb_snap.data, 1, n))
              ok == header /\ n = sb_snap.size /\ snapshot_crc32(image) = sb_snap.crc
          IN /\ sb_kern' = IF header THEN image ELSE sb_kern
             /\ sb_from' = IF ok THEN "snapshot" ELSE sb_from
             /\ sb_pc' = IF ok THEN "stage4" ELSE "load"
    BY DEF kernel_snapshot_restore
  <1>2. sb_pc = "restore" /\ sb_from # "snapshot" /\ UNCHANGED <<sb_snap, sb_saved>>
    BY DEF kernel_snapshot_restore, sbDiskVars, BootInv, KernelThere
  <1>3. sb_from' = "snapshot" => sb_pc' = "stage4" /\ sb_snap.hdr /\ sb_kern' = sb_snap.crc
    BY <1>1, <1>2 DEF snapshot_crc32
  <1> QED BY <1>2, <1>3 DEF BootInv, HeaderSaved, SnapshotSound, KernelThere

\* A save keeps the old header, removes it, or writes that of an image it records.
LEMMA SaveSound == BootInv /\ kernel_snapshot_save => BootInv'
  <1> SUFFICES ASSUME BootInv, kernel_snapshot_save PROVE BootInv'
    OBVIOUS
  <1>1. sb_pc = "save" /\ sb_from # "snapshot" /\ sb_from' = sb_from
    BY DEF kernel_snapshot_save, BootInv, KernelThere
  <1>2. CASE UNCHANGED <<sb_snap, sb_saved>>
    BY <1>1, <1>2 DEF BootInv, HeaderSaved, SnapshotSound
  <1>3. CASE sb_snap' = NoFile /\ UNCHANGED sb_saved
    BY <1>1, <1>3 DEF BootInv, HeaderSaved, SnapshotSound, NoFile
  <1>4. CASE /\ sb_snap' = IF sb_ops THEN [hdr |-> TRUE, size |-> SB_SECTORS, crc |-> snapshot_crc32(sb_kern), data |-> <<>>]
                           ELSE sb_snap
             /\ sb_saved' = sb_saved \cup {sb_kern}
    BY <1>1, <1>4 DEF BootInv, HeaderSaved, SnapshotSound, snapshot_crc32
  <1> QED BY <1>2, <1>3, <1>4 DEF kernel_snapshot_save

\* Chunks that are written or decay leave the header as it is.
LEMMA ChunksSound ==
  ASSUME BootInv, UNCHANGED <<sb_kern, sb_from, sb_saved>>, sb_from # "snapshot" \/ sb_pc' = sb_pc,
         UNCHANGED sb_snap \/ \E d : sb_snap' = [sb_snap EXCEPT !.data = d]
  PROVE  BootInv'
  <1>1. /\ DOMAIN sb_snap' = DOMAIN sb_snap
        /\ sb_snap'.hdr = sb_snap.hdr /\ sb_snap'.crc = sb_snap.crc
    BY DEF BootInv, HeaderSaved
  <1> QED BY <1>1 DEF BootInv, HeaderSaved, SnapshotSound

LEMMA BootInductive == BootInv /\ [SBNext]_sbVars => BootInv'
  <1> SUFFICES ASSUME BootInv, [SBNext]_sbVars PROVE BootInv'
    OBVIOUS
  <1>1. CASE zero_bss /\ UNCHANGED <<sb_snap, sb_saved>>
    BY <1>1 DEF zero_bss, BootInv, HeaderSaved, SnapshotSound
  <1>2. CASE kernel_snapshot_restore
    BY <1>2, RestoreSound
  <1>3. CASE load_kernel
    <2>1. sb_pc = "load" /\ sb_from # "snapshot" /\ UNCHANGED <<sb_snap, sb_saved>>
      BY <1>3 DEF load_kernel, sbDiskVars, BootInv, KernelThere
    <2>2. sb_from' # "snapshot"
      BY <1>3, <2>1 DEF load_kernel
    <2> QED BY <2>1, <2>2 DEF BootInv, HeaderSaved, SnapshotSound
  <1>4. CASE kernel_snapshot_save
    BY <1>4, SaveSound
  <1>5. CASE SaveChunk
    <2>1. sb_from # "snapshot"
      BY <1>5 DEF SaveChunk, BootInv, KernelThere
    <2>2. UNCHANGED sb_snap \/ sb_snap' = [sb_snap EXCEPT !.data = Append(@, sb_kern[sb_done + 1])]
      BY <1>5 DEF SaveChunk
    <2> QED BY <1>5, <2>1, <2>2, ChunksSound DEF SaveChunk
  <1>6. CASE Offline
    <2>1. UNCHANGED sb_snap \/ \E i \in DOMAIN sb_snap.data : sb_snap' = [sb_snap EXCEPT !.data[i] = BlankSector]
      BY <1>6 DEF Offline
    <2>2. UNCHANGED sb_snap \/ \E d : sb_snap' = [sb_snap EXCEPT !.data = d]
      BY <2>1
    <2> QED BY <1>6, <2>2, ChunksSound DEF Offline, sbRamVars
  <1>7. CASE /\ UNCHANGED <<sb_snap, sb_saved, sb_kern, sb_from>>
             /\ sb_pc \in KernelThere => sb_pc' \in KernelThere
    BY <1>7 DEF BootInv, HeaderSaved, SnapshotSound
  <1> DEFINE Quiet == /\ UNCHANGED <<sb_snap, sb_saved, sb_kern, sb_from>>
                      /\ sb_pc \in KernelThere => sb_pc' \in KernelThere
  <1>8. stage2_entry \/ PowerLoss => zero_bss /\ UNCHANGED <<sb_snap, sb_saved>>
    BY DEF stage2_entry, PowerLoss, LostRam, sbDiskVars
  <1>9. Phase => Quiet
    <2> SUFFICES ASSUME NEW i \in 1 .. Len(Phases), sb_pc = Phases[i], Phase PROVE Quiet
      BY DEF Phase
    <2>1. sb_pc \notin KernelThere
      BY DEF Phases, KernelThere
    <2> QED BY <2>1 DEF Phase, sbDiskVars
  <1>10. Config \/ fs_menu_show \/ read_custom_input \/ Mount \/ Session => Quiet
    BY DEF Config, fs_menu_show, read_custom_input, MenuRest, Mount, Session, sbDiskVars, KernelThere
  <1>11. load_stage4 \/ stage3_entry \/ boot_prompt \/ stage5_entry => Quiet
    BY DEF load_stage4, stage3_entry, boot_prompt, stage5_entry, sbDiskVars, KernelThere
  <1>12. UNCHANGED sbVars => Quiet
    BY DEF sbVars, sbDiskVars, sbRamVars
  <1> QED BY <1>1, <1>2, <1>3, <1>4, <1>5, <1>6, <1>7, <1>8, <1>9, <1>10, <1>11, <1>12 DEF SBNext

(***************************************************************************)
(* Whatever the number of sectors and starts, the configuration files, and *)
(* wherever the power fails or a chunk decays: a kernel that comes from    *)
(* the snapshot is one that kernel_snapshot_save had in front of it whole. *)
(***************************************************************************)
THEOREM SnapshotIsSaved == SBSpec => []SnapshotSound
  <1>1. SBInit => BootInv
    BY DEF SBInit, BootInv, HeaderSaved, SnapshotSound, NoFile
  <1>2. BootInv => SnapshotSound
    BY DEF BootInv
  <1> QED BY <1>1, <1>2, BootInductive, PTL DEF SBSpec

-----------------------------------------------------------------------------
(* A set of numbers that is not empty has a smallest one. *)
LEMMA SmallestOf ==
  ASSUME NEW T, T \subseteq Nat, T # {}
  PROVE  \E x \in T : \A y \in T : x <= y
  <1> DEFINE Lt == OpToRel(<, Nat)
  <1>1. IsWellFoundedOn(Lt, Nat)
    BY NatLessThanWellFounded
  <1>2. \A x, y \in Nat : x < y => <<x, y>> \in Lt
    BY DEF OpToRel
  <1> HIDE DEF Lt
  <1>3. PICK x \in T : \A y \in T : ~(<<y, x>> \in Lt)
    BY <1>1, WFMin
  <1>4. ASSUME NEW y \in T PROVE x <= y
    <2>1. x \in Nat /\ y \in Nat
      OBVIOUS
    <2>2. ~(y < x)
      BY <2>1, <1>2, <1>3, Zenon
    <2> QED BY <2>1, <2>2
  <1> QED BY <1>4

-----------------------------------------------------------------------------
(***************************************************************************)
(* The Tor client.  The numbers of circuits stay distinct because every    *)
(* circuit takes one slot for good: the counter's low half is the number   *)
(* of slots in use, and setting the high half back changes nothing.        *)
(***************************************************************************)
Circuit == [id : Nat, state : {"none", "building", "dead"}, hops : {<<>>}]
Slots(circ) == {i \in 1 .. TR_CIRCUITS : circ[i].state # "none"}

CircuitInv ==
  /\ tr_circ \in [1 .. TR_CIRCUITS -> Circuit]
  /\ \A i \in 1 .. TR_CIRCUITS : IF i \in Slots(tr_circ) THEN tr_circ[i].id \in TR_LOW .. tr_next - 1 ELSE tr_circ[i].id = 0
  /\ \A i, j \in Slots(tr_circ) : tr_circ[i].id = tr_circ[j].id => i = j
  /\ tr_made = Cardinality(Slots(tr_circ))
  /\ tr_next \in Nat
  /\ IF tr_boot.state = "idle" THEN Slots(tr_circ) = {} /\ tr_next \in {0, TR_LOW} ELSE tr_next = TR_LOW + tr_made

\* No relay has a flag, so no bootstrap gets further than CONSENSUS, no circuit is
\* established and no stream opens.
ClientInv ==
  /\ tr_boot \in [state : {"idle", "consensus", "failed"}, circuit : {0}]
  /\ DOMAIN tr_copy = {"id", "state", "hops"}
  /\ tr_copy.state = "dead" => \A i \in DOMAIN tr_copy.hops : tr_copy.hops[i] = "zero"
  /\ \A i \in DOMAIN tr_socks : tr_socks[i] \in [state : {"none", "wait_auth", "wait_cmd", "error"}, stream : {0}]

TorInv == CircuitInv /\ ClientInv

LEMMA TakenFinite ==
  ASSUME NEW circ
  PROVE  IsFiniteSet(Slots(circ)) /\ Cardinality(Slots(circ)) \in 0 .. TR_CIRCUITS
  <1>1. IsFiniteSet(1 .. TR_CIRCUITS) /\ Cardinality(1 .. TR_CIRCUITS) = TR_CIRCUITS
    BY TRAssumption, FS_Interval
  <1>2. IsFiniteSet(Slots(circ)) /\ Cardinality(Slots(circ)) <= TR_CIRCUITS
    BY <1>1, FS_Subset DEF Slots
  <1> QED BY <1>2, TRAssumption, FS_CardinalityType

\* FreeCirc gives a free slot or 0.
LEMMA FreeSlot ==
  ASSUME CircuitInv, FreeCirc(tr_circ) # 0
  PROVE  FreeCirc(tr_circ) \in 1 .. TR_CIRCUITS \ Slots(tr_circ)
  <1> DEFINE free == {i \in DOMAIN tr_circ : tr_circ[i].state = "none"}
  <1>1. free \subseteq Nat /\ free # {}
    BY DEF CircuitInv, FreeCirc, FirstIn
  <1>2. \E x \in free : \A y \in free : x <= y
    BY <1>1, SmallestOf
  <1>3. FreeCirc(tr_circ) \in free
    BY <1>1, <1>2 DEF FreeCirc, FirstIn
  <1> QED BY <1>3 DEF CircuitInv, Slots

LEMMA CreateSound == TorInv /\ tor_circuit_create => TorInv'
  <1> SUFFICES ASSUME TorInv, tor_circuit_create PROVE TorInv'
    OBVIOUS
  <1> DEFINE slot == FreeCirc(tr_circ)
  <1>1. /\ tr_boot.state # "idle" /\ slot # 0
        /\ tr_circ' = [tr_circ EXCEPT ![slot] = NewCirc] /\ tr_copy' = NewCirc
        /\ tr_next' = tr_next + 1 /\ tr_made' = tr_made + 1
        /\ UNCHANGED <<tr_boot, tr_socks>>
    BY DEF tor_circuit_create
  <1>2. slot \in 1 .. TR_CIRCUITS /\ slot \notin Slots(tr_circ)
    BY <1>1, FreeSlot DEF TorInv
  <1> HIDE DEF slot
  <1>3. NewCirc \in Circuit /\ NewCirc.id = tr_next /\ NewCirc.state = "building"
    BY DEF NewCirc, Circuit, TorInv, CircuitInv
  <1>4. /\ tr_circ' \in [1 .. TR_CIRCUITS -> Circuit]
        /\ tr_circ'[slot] = NewCirc /\ \A i \in 1 .. TR_CIRCUITS : i # slot => tr_circ'[i] = tr_circ[i]
    BY <1>1, <1>2, <1>3 DEF TorInv, CircuitInv
  <1>5. Slots(tr_circ') = Slots(tr_circ) \cup {slot}
    BY <1>2, <1>3, <1>4 DEF Slots
  <1>6. Cardinality(Slots(tr_circ')) = Cardinality(Slots(tr_circ)) + 1
    BY <1>2, <1>5, TakenFinite, FS_AddElement
  <1>7. tr_next = TR_LOW + tr_made /\ tr_made = Cardinality(Slots(tr_circ)) /\ tr_made \in Nat
    BY <1>1, TakenFinite DEF TorInv, CircuitInv
  <1>8. CircuitInv'
    <2>1. \A i \in Slots(tr_circ) : tr_circ[i].id \in TR_LOW .. tr_next - 1
      BY DEF TorInv, CircuitInv, Slots
    <2>2. \A i \in 1 .. TR_CIRCUITS : IF i \in Slots(tr_circ') THEN tr_circ'[i].id \in TR_LOW .. tr_next' - 1 ELSE tr_circ'[i].id = 0
      <3>1. tr_next' = tr_next + 1 /\ tr_next \in Nat /\ TR_LOW \in Nat /\ tr_next >= TR_LOW
        BY <1>1, <1>7, TRAssumption DEF TorInv, CircuitInv
      <3>2. ASSUME NEW i \in 1 .. TR_CIRCUITS, i # slot
            PROVE IF i \in Slots(tr_circ') THEN tr_circ'[i].id \in TR_LOW .. tr_next' - 1 ELSE tr_circ'[i].id = 0
        <4>1. tr_circ'[i] = tr_circ[i] /\ (i \in Slots(tr_circ') <=> i \in Slots(tr_circ))
          BY <1>4, <1>5, <3>2
        <4>2. IF i \in Slots(tr_circ) THEN tr_circ[i].id \in TR_LOW .. tr_next - 1 ELSE tr_circ[i].id = 0
          BY DEF TorInv, CircuitInv
        <4> QED BY <3>1, <4>1, <4>2
      <3>3. slot \in Slots(tr_circ') /\ tr_circ'[slot].id \in TR_LOW .. tr_next' - 1
        BY <1>3, <1>4, <1>5, <3>1
      <3> QED BY <3>2, <3>3
    <2>3. \A i, j \in Slots(tr_circ') : tr_circ'[i].id = tr_circ'[j].id => i = j
      BY <2>1, <1>2, <1>3, <1>4, <1>5, <1>7, TRAssumption DEF TorInv, CircuitInv, Slots
    <2>4. tr_made' = Cardinality(Slots(tr_circ')) /\ tr_next' \in Nat /\ tr_next' = TR_LOW + tr_made' /\ tr_boot'.state # "idle"
      BY <1>1, <1>6, <1>7, TRAssumption
    <2> QED BY <1>4, <2>2, <2>3, <2>4, Zenon DEF CircuitInv
  <1>9. ClientInv'
    BY <1>1 DEF TorInv, ClientInv, NewCirc
  <1> QED BY <1>8, <1>9 DEF TorInv

\* tor_force_new_circuit: the low half of the counter is what it was.
LEMMA CounterKept ==
  ASSUME NEW m \in Nat, m < TR_LOW
  PROVE  FreshCounter(TR_LOW + m) = TR_LOW + m /\ FreshCounter(m) = TR_LOW + m
  BY TRAssumption DEF FreshCounter

LEMMA NoHops == [i \in DOMAIN <<>> |-> "zero"] = <<>>
  <1>1. <<>> \in Seq({"zero"}) /\ DOMAIN <<>> = 1 .. 0
    BY EmptySeq, LenProperties
  <1> DEFINE h == [i \in DOMAIN <<>> |-> "zero"]
  <1>2. h \in [1 .. 0 -> {"zero"}]
    BY <1>1
  <1>3. h \in Seq({"zero"})
    BY <1>2, SeqDef
  <1>4. Len(h) = 0
    BY <1>1, <1>3, LenProperties
  <1> QED BY <1>3, <1>4, EmptySeq

LEMMA ForceSound == TorInv /\ tor_force_new_circuit => TorInv'
  <1> SUFFICES ASSUME TorInv, tor_force_new_circuit PROVE TorInv'
    OBVIOUS
  <1>1. /\ tr_circ' = [i \in 1 .. TR_CIRCUITS |-> IF i \in Slots(tr_circ) THEN Destroyed(tr_circ[i]) ELSE tr_circ[i]]
        /\ tr_next' = FreshCounter(tr_next)
        /\ UNCHANGED <<tr_boot, tr_copy, tr_socks, tr_made>>
    BY DEF tor_force_new_circuit, Slots, TorInv, CircuitInv
  <1>2. ASSUME NEW c \in Circuit PROVE Destroyed(c) \in Circuit /\ Destroyed(c).id = c.id /\ Destroyed(c).state = "dead"
    <2> DEFINE zeros == [i \in DOMAIN c.hops |-> "zero"]
    <2>1. zeros = <<>>
      BY NoHops DEF Circuit
    <2>2. [c EXCEPT !.state = "dead"].hops = c.hops
      BY DEF Circuit
    <2>3. Destroyed(c) = [[c EXCEPT !.state = "dead"] EXCEPT !.hops = zeros]
      BY <2>2, Zenon DEF Destroyed
    <2> HIDE DEF zeros
    <2> QED BY <2>1, <2>3 DEF Circuit
  <1>3. /\ tr_circ' \in [1 .. TR_CIRCUITS -> Circuit]
        /\ \A i \in 1 .. TR_CIRCUITS : tr_circ'[i].id = tr_circ[i].id
        /\ Slots(tr_circ') = Slots(tr_circ)
    BY <1>1, <1>2 DEF Slots, TorInv, CircuitInv
  <1>4. tr_made \in 0 .. TR_CIRCUITS
    BY TakenFinite DEF TorInv, CircuitInv
  <1>5. tr_boot.state # "idle" => tr_next' = tr_next
    BY <1>1, <1>4, CounterKept, TRAssumption DEF TorInv, CircuitInv
  <1>6. tr_boot.state = "idle" => tr_next' = TR_LOW
    BY <1>1, CounterKept, TRAssumption DEF TorInv, CircuitInv
  <1>7. CircuitInv'
    BY <1>1, <1>3, <1>5, <1>6, TRAssumption DEF TorInv, CircuitInv, Slots
  <1> QED BY <1>1, <1>7 DEF TorInv, ClientInv

LEMMA PollSound == TorInv /\ tor_bootstrap_poll => TorInv'
  <1> SUFFICES ASSUME TorInv, tor_bootstrap_poll PROVE TorInv'
    OBVIOUS
  <1>1. UNCHANGED <<tr_copy, tr_made>> /\ tr_boot.state \in {"consensus", "failed"}
    BY DEF tor_bootstrap_poll, TorInv, ClientInv
  <1>2. CASE tr_boot.state = "consensus"
    <2> DEFINE cons == tor_directory_fetch_consensus
    <2>1. {i \in DOMAIN cons : "exit" \in cons[i].flags} = {}
      BY DEF tor_directory_fetch_consensus
    <2>2. CircTaken(cons) = 0
      BY <2>1 DEF CircTaken, tor_select_exit, FirstIn
    <2> HIDE DEF cons
    <2>3. /\ tr_boot' = [tr_boot EXCEPT !.state = "failed", !.circuit = @]
          /\ UNCHANGED <<tr_circ, tr_next, tr_socks>>
      BY <1>2, <2>2 DEF tor_bootstrap_poll, poll_consensus, cons
    <2> QED BY <1>1, <1>2, <2>3 DEF TorInv, CircuitInv, ClientInv, Slots
  <1>3. CASE tr_boot.state = "failed"
    <2>1. tr_boot' = [tr_boot EXCEPT !.state = "failed"] /\ UNCHANGED <<tr_circ, tr_next, tr_socks>>
      BY <1>3 DEF tor_bootstrap_poll, poll_later
    <2> QED BY <1>1, <1>3, <2>1 DEF TorInv, CircuitInv, ClientInv, Slots
  <1> QED BY <1>1, <1>2, <1>3

LEMMA InitSound == TorInv /\ tor_bootstrap_init => TorInv'
  <1> SUFFICES ASSUME TorInv, tor_bootstrap_init PROVE TorInv'
    OBVIOUS
  <1>1. /\ tr_boot' = [state |-> "consensus", circuit |-> 0] /\ tr_made' = 0
        /\ tr_circ' = [i \in 1 .. TR_CIRCUITS |-> NoCirc] /\ tr_next' = TR_LOW
        /\ UNCHANGED <<tr_copy, tr_socks>>
    BY DEF tor_bootstrap_init
  <1>2. Slots(tr_circ') = {}
    BY <1>1 DEF Slots, NoCirc
  <1>3. tr_circ' \in [1 .. TR_CIRCUITS -> Circuit] /\ \A i \in 1 .. TR_CIRCUITS : tr_circ'[i].id = 0
    BY <1>1 DEF NoCirc, Circuit
  <1>4. tr_made' = Cardinality(Slots(tr_circ'))
    BY <1>1, <1>2, FS_EmptySet
  <1>5. CircuitInv'
    <2>1. \A i \in 1 .. TR_CIRCUITS : i \notin Slots(tr_circ')
      BY <1>2
    <2>2. tr_next' = TR_LOW + tr_made' /\ tr_next' \in Nat /\ tr_boot'.state # "idle"
      BY <1>1, TRAssumption
    <2> QED BY <1>2, <1>3, <1>4, <2>1, <2>2, Zenon DEF CircuitInv
  <1> QED BY <1>1, <1>5 DEF TorInv, ClientInv

\* No circuit is established, so tor_stream_open fails and CONNECT ends in an error.
LEMMA SocksSound ==
  ASSUME NEW s, NEW msg, TorInv, tor_socks5_handle(s, msg)
  PROVE  TorInv'
  <1>1. UNCHANGED <<tr_boot, tr_circ, tr_next, tr_copy, tr_made>>
    BY DEF tor_socks5_handle
  <1>2. {i \in DOMAIN tr_circ : tr_circ[i].id = 0 /\ tr_circ[i].state = "established"} = {}
    BY DEF TorInv, CircuitInv, Circuit
  <1>3. tor_stream_open(0).ok = FALSE
    BY <1>2 DEF tor_stream_open, Established, FirstIn
  <1> DEFINE i == FirstIn({k \in DOMAIN tr_socks : tr_socks[k].state # "none" /\ tr_socks[k].stream = s})
  <1>4. \E st \in {"wait_cmd", "error"} :
          tr_socks' = [tr_socks EXCEPT ![i].state = st] \/ tr_socks' = [tr_socks EXCEPT ![i] = [@ EXCEPT !.state = st]]
    BY <1>3 DEF tor_socks5_handle
  <1> HIDE DEF i
  <1>5. ClientInv'
    BY <1>1, <1>4 DEF TorInv, ClientInv
  <1> QED BY <1>1, <1>5 DEF TorInv, CircuitInv, Slots

LEMMA TorInductive == TorInv /\ [TRNext]_trVars => TorInv'
  <1> SUFFICES ASSUME TorInv, [TRNext]_trVars PROVE TorInv'
    OBVIOUS
  <1>1. CASE UNCHANGED <<tr_boot, tr_circ, tr_next, tr_made, tr_copy, tr_socks>>
    BY <1>1 DEF TorInv, CircuitInv, ClientInv, Slots
  <1>2. CASE /\ UNCHANGED <<tr_boot, tr_circ, tr_next, tr_made, tr_socks>>
             /\ DOMAIN tr_copy' = {"id", "state", "hops"}
             /\ tr_copy'.state = "dead" => \A i \in DOMAIN tr_copy'.hops : tr_copy'.hops[i] = "zero"
    BY <1>2 DEF TorInv, CircuitInv, ClientInv, Slots
  <1>3. CASE /\ UNCHANGED <<tr_boot, tr_circ, tr_next, tr_made, tr_copy>>
             /\ \A i \in DOMAIN tr_socks' : tr_socks'[i] \in [state : {"none", "wait_auth", "wait_cmd", "error"}, stream : {0}]
    BY <1>3 DEF TorInv, CircuitInv, ClientInv, Slots
  <1>4. CASE \E r \in DOMAIN tr_cons : tor_circuit_extend(r)
    <2>1. PICK r \in DOMAIN tr_cons : tor_circuit_extend(r)
      BY <1>4
    <2>2. DOMAIN tr_copy' = {"id", "state", "hops"} /\ tr_copy'.state = "extending"
      BY <2>1 DEF tor_circuit_extend, TorInv, ClientInv
    <2> QED BY <1>2, <2>1, <2>2 DEF tor_circuit_extend
  <1>5. CASE tor_circuit_destroy
    <2>1. /\ DOMAIN tr_copy' = {"id", "state", "hops"}
          /\ tr_copy'.hops = [i \in DOMAIN tr_copy.hops |-> "zero"]
      BY <1>5 DEF tor_circuit_destroy, Destroyed, TorInv, ClientInv
    <2> QED BY <1>2, <1>5, <2>1 DEF tor_circuit_destroy
  <1>6. CASE tor_socks5_init
    <2>1. \A i \in DOMAIN tr_socks' : tr_socks'[i] = NoSocks
      BY <1>6 DEF tor_socks5_init
    <2> QED BY <1>3, <1>6, <2>1 DEF tor_socks5_init, NoSocks
  <1>7. CASE tor_socks5_accept
    <2>1. PICK i : tr_socks' = [tr_socks EXCEPT ![i] = [NoSocks EXCEPT !.state = "wait_auth"]]
      BY <1>7 DEF tor_socks5_accept
    <2>2. \A k \in DOMAIN tr_socks' : k \in DOMAIN tr_socks /\ (tr_socks'[k] = tr_socks[k] \/ tr_socks'[k] = [state |-> "wait_auth", stream |-> 0])
      BY <2>1 DEF NoSocks
    <2> QED BY <1>3, <1>7, <2>2 DEF tor_socks5_accept, TorInv, ClientInv
  <1>8. \A id : tor_stream_close(id) => UNCHANGED <<tr_boot, tr_circ, tr_next, tr_made, tr_copy, tr_socks>>
    BY DEF tor_stream_close
  <1>9. tor_flush_streams \/ tor_hs_init \/ tor_hs_select_hsdirs \/ tor_hs_publish \/ UNCHANGED trVars
        => UNCHANGED <<tr_boot, tr_circ, tr_next, tr_made, tr_copy, tr_socks>>
    BY DEF tor_flush_streams, tor_hs_init, tor_hs_select_hsdirs, tor_hs_publish, trVars
  <1> QED BY <1>1, <1>4, <1>5, <1>6, <1>7, <1>8, <1>9, InitSound, PollSound, CreateSound, ForceSound, SocksSound DEF TRNext

(***************************************************************************)
(* The client's tables, after any calls in any order: no two circuits of   *)
(* tor_circuits have one number, a bootstrap that fails has taken no slot, *)
(* a dead circuit keeps no key, and SOCKS5 never reports a connection that *)
(* has no stream.                                                          *)
(***************************************************************************)
THEOREM TorTablesSound == TRSpec => []TorClient
  <1>1. TRInit => TorInv
    <2> SUFFICES ASSUME TRInit PROVE TorInv
      OBVIOUS
    <2>1. Slots(tr_circ) = {}
      BY DEF TRInit, Slots, NoCirc
    <2>2. CircuitInv
      BY <2>1, FS_EmptySet, TRAssumption DEF TRInit, CircuitInv, Circuit, NoCirc
    <2>3. DOMAIN tr_socks = {}
      BY DEF TRInit
    <2> QED BY <2>2, <2>3 DEF TRInit, TorInv, ClientInv, NoCirc
  <1>2. TorInv => TorClient
    <2> SUFFICES ASSUME TorInv PROVE TorClient
      OBVIOUS
    <2>1. CircuitsDistinct
      BY TRAssumption DEF TorInv, CircuitInv, CircuitsDistinct, Slots
    <2>2. FailedTakesNone
      BY DEF TorInv, CircuitInv, FailedTakesNone, Slots
    <2>3. NothingLeft
      <3>1. \A i \in 1 .. TR_CIRCUITS : tr_circ[i].hops = <<>> /\ DOMAIN tr_circ = 1 .. TR_CIRCUITS
        BY DEF TorInv, CircuitInv, Circuit
      <3>2. \A i \in DOMAIN tr_socks : tr_socks[i].state # "connected"
        BY DEF TorInv, ClientInv
      <3>3. tr_copy.state = "dead" => \A i \in DOMAIN tr_copy.hops : tr_copy.hops[i] = "zero"
        BY DEF TorInv, ClientInv
      <3>4. DOMAIN <<>> = {}
        OBVIOUS
      <3> QED BY <3>1, <3>2, <3>3, <3>4 DEF NothingLeft, TorInv, CircuitInv
    <2> QED BY <2>1, <2>2, <2>3 DEF TorClient
  <1> QED BY <1>1, <1>2, TorInductive, PTL DEF TRSpec

-----------------------------------------------------------------------------
LEMMA LeastIsIn ==
  ASSUME NEW T, T \subseteq Nat, T # {}
  PROVE  Min(T) \in T /\ \A y \in T : Min(T) <= y
  BY SmallestOf, Zenon DEF Min

(***************************************************************************)
(* Wi-Fi.  What the search finds are controllers of the machine.           *)
(***************************************************************************)
Controller == [vendor : Nat, device : Nat, wireless : BOOLEAN, bar : Nat]
Entries(m) == {Entry(f) : f \in Fitted(m)}

(* A loop over 1 .. n whose round keeps S starts and ends in S. *)
Rounds(f, start, step, n) == f = [k \in 0 .. n |-> IF k = 0 THEN start ELSE step[<<f[k - 1], k>>]]

LEMMA RoundsExist ==
  ASSUME NEW S, NEW start \in S, NEW n \in Nat, NEW step,
         \A x \in S : \A k \in 1 .. n : step[<<x, k>>] \in S
  PROVE  \E f : Rounds(f, start, step, n) /\ \A k \in 0 .. n : f[k] \in S
  <1> USE DEF Rounds
  <1> DEFINE Is(f, m) == /\ f = [k \in 0 .. m |-> IF k = 0 THEN start ELSE step[<<f[k - 1], k>>]]
                         /\ \A k \in 0 .. m : f[k] \in S
             T == {m \in 0 .. n : ~ \E f : Is(f, m)}
  <1>1. SUFFICES ASSUME T # {} PROVE FALSE
    <2>1. n \in 0 .. n
      OBVIOUS
    <2> QED BY <2>1
  <1>2. PICK m \in T : \A k \in T : m <= k
    <2>1. T \subseteq Nat
      OBVIOUS
    <2> HIDE DEF T
    <2> QED BY <1>1, <2>1, SmallestOf
  <1>3. m # 0
    <2>1. SUFFICES ASSUME m = 0 PROVE \E f : Is(f, 0)
      BY <1>2
    <2>2. Is([k \in 0 .. 0 |-> start], 0)
      OBVIOUS
    <2> QED BY <2>2
  <1>4. m \in 1 .. n /\ m - 1 \in 0 .. n /\ m - 1 \notin T
    <2>1. m \in 0 .. n
      BY <1>2
    <2> HIDE DEF T
    <2> QED BY <1>2, <1>3, <2>1
  <1>5. PICK f : Is(f, m - 1)
    BY <1>4
  <1> DEFINE g == [k \in 0 .. m |-> IF k = m THEN step[<<f[m - 1], m>>] ELSE f[k]]
  <1>6. \A k \in 0 .. m : g[k] \in S /\ g[k] = IF k = 0 THEN start ELSE step[<<g[k - 1], k>>]
    <2> SUFFICES ASSUME NEW k \in 0 .. m
                 PROVE  g[k] \in S /\ g[k] = IF k = 0 THEN start ELSE step[<<g[k - 1], k>>]
      OBVIOUS
    <2>1. CASE k = m
      <3>1. m - 1 \in 0 .. m /\ m - 1 # m /\ m - 1 \in 0 .. m - 1
        BY <1>4
      <3>2. f[m - 1] \in S
        BY <1>5, <3>1
      <3>3. g[m - 1] = f[m - 1] /\ g[m] = step[<<f[m - 1], m>>]
        BY <1>4, <3>1
      <3>4. step[<<f[m - 1], m>>] \in S
        BY <1>4, <3>2
      <3> HIDE DEF g
      <3> QED BY <1>3, <2>1, <3>3, <3>4
    <2>2. CASE k = 0
      BY <1>3, <1>4, <1>5, <2>2
    <2>3. CASE k \in 1 .. m - 1
      <3>1. k \in 0 .. m - 1 /\ k - 1 \in 0 .. m /\ k # m /\ k - 1 # m /\ k # 0
        BY <1>4, <2>3
      <3>2. f[k] = step[<<f[k - 1], k>>] /\ f[k] \in S
        BY <1>5, <3>1
      <3>3. g[k] = f[k] /\ g[k - 1] = f[k - 1]
        BY <3>1
      <3> HIDE DEF g
      <3> QED BY <3>1, <3>2, <3>3
    <2> QED BY <1>4, <2>1, <2>2, <2>3
  <1>7. Is(g, m)
    <2>1. g = [k \in 0 .. m |-> g[k]]
      OBVIOUS
    <2> HIDE DEF g
    <2>2. [k \in 0 .. m |-> g[k]] = [k \in 0 .. m |-> IF k = 0 THEN start ELSE step[<<g[k - 1], k>>]]
      BY <1>6
    <2> QED BY <1>6, <2>1, <2>2
  <1> QED BY <1>2, <1>7

LEMMA SlotFound ==
  ASSUME NEW m \in WFMachines, NEW k \in 1 .. Len(m)
  PROVE  SlotEntries(m[k]) \in Seq(Entries(m))
  <1>1. m \in Seq(Seq(Controller))
    BY WifiAssumption DEF Controller
  <1>2. k \in DOMAIN m /\ m[k] \in Seq(Controller)
    BY <1>1
  <1>3. <<>> \in Seq(Entries(m))
    BY EmptySeq
  <1>4. [i \in DOMAIN m[k] |-> Entry(m[k][i])] \in Seq(Entries(m))
    <2>1. DOMAIN m[k] = 1 .. Len(m[k]) /\ Len(m[k]) \in Nat
      BY <1>2
    <2>2. \A i \in DOMAIN m[k] : m[k][i] \in Fitted(m)
      BY <1>2 DEF Fitted, Range
    <2>3. [i \in DOMAIN m[k] |-> Entry(m[k][i])] \in [1 .. Len(m[k]) -> Entries(m)]
      BY <2>1, <2>2 DEF Entries
    <2> QED BY <2>1, <2>3, SeqDef
  <1> QED BY <1>3, <1>4 DEF SlotEntries

LEMMA SearchFinds ==
  ASSUME NEW m \in WFMachines
  PROVE  wifi_autodetect_scan(m).devices \in Seq(Entries(m))
  <1> DEFINE n     == Len(m)
             S     == Seq(Entries(m))
             Is(g) == g = [k \in 0 .. n |-> IF k = 0 THEN <<>> ELSE g[k - 1] \o SlotEntries(m[k])]
             step  == [y \in S \X (1 .. n) |-> y[1] \o SlotEntries(m[y[2]])]
             e     == CHOOSE g : Is(g)
  <1>1. n \in Nat
    BY WifiAssumption
  <1>2. <<>> \in S
    BY EmptySeq
  <1>3. \A x \in S, k \in 1 .. n : step[<<x, k>>] = x \o SlotEntries(m[k]) /\ step[<<x, k>>] \in S
    <2> SUFFICES ASSUME NEW x \in S, NEW k \in 1 .. n PROVE step[<<x, k>>] = x \o SlotEntries(m[k]) /\ step[<<x, k>>] \in S
      OBVIOUS
    <2>1. step[<<x, k>>] = x \o SlotEntries(m[k])
      OBVIOUS
    <2> HIDE DEF step
    <2> QED BY <2>1, SlotFound, ConcatProperties
  <1>4. \E g : Is(g) /\ \A k \in 0 .. n : g[k] \in S
    <2> HIDE DEF n, S, step
    <2>1. PICK g : Rounds(g, <<>>, step, n) /\ \A k \in 0 .. n : g[k] \in S
      <3>1. \A x \in S : \A k \in 1 .. n : step[<<x, k>>] \in S
        BY <1>3
      <3> HIDE DEF Is, e
      <3> QED BY <1>1, <1>2, <3>1, RoundsExist, Zenon
    <2>2. \A k \in 1 .. n : k - 1 \in 0 .. n /\ g[k - 1] \in S
      BY <1>1, <2>1
    <2>3. \A k \in 0 .. n : (IF k = 0 THEN <<>> ELSE step[<<g[k - 1], k>>])
                              = IF k = 0 THEN <<>> ELSE g[k - 1] \o SlotEntries(m[k])
      <3> SUFFICES ASSUME NEW k \in 0 .. n, k # 0
                   PROVE  step[<<g[k - 1], k>>] = g[k - 1] \o SlotEntries(m[k])
        OBVIOUS
      <3>1. k \in 1 .. n
        BY <1>1
      <3> HIDE DEF Is, e
      <3> QED BY <1>3, <2>2, <3>1, Zenon
    <2>4. [k \in 0 .. n |-> IF k = 0 THEN <<>> ELSE step[<<g[k - 1], k>>]]
            = [k \in 0 .. n |-> IF k = 0 THEN <<>> ELSE g[k - 1] \o SlotEntries(m[k])]
      BY <2>3
    <2> QED BY <2>1, <2>4 DEF Rounds
  <1>5. e[n] \in S
    <2>1. Is(e)
      <3> HIDE DEF Is
      <3> QED BY <1>4
    <2> HIDE DEF e
    <2>2. PICK g : Is(g) /\ \A k \in 0 .. n : g[k] \in S
      BY <1>4
    <2> DEFINE D == {k \in 0 .. n : e[k] # g[k]}
    <2>3. D = {}
      <3> SUFFICES ASSUME D # {} PROVE FALSE
        OBVIOUS
      <3>1. PICK k \in D : \A j \in D : k <= j
        <4>1. D \subseteq Nat
          OBVIOUS
        <4> HIDE DEF D
        <4> QED BY <4>1, SmallestOf
      <3>2. CASE k = 0
        BY <2>1, <2>2, <3>1, <3>2
      <3>3. CASE k # 0
        <4>1. k \in 0 .. n /\ k - 1 \in 0 .. n /\ k - 1 \notin D
          BY <1>1, <3>1, <3>3
        <4>2. e[k - 1] = g[k - 1]
          BY <4>1
        <4>3. e[k] = e[k - 1] \o SlotEntries(m[k]) /\ g[k] = g[k - 1] \o SlotEntries(m[k])
          BY <2>1, <2>2, <3>3, <4>1
        <4> QED BY <3>1, <4>2, <4>3
      <3> QED BY <3>2, <3>3
    <2>4. n \in 0 .. n
      BY <1>1
    <2> QED BY <2>2, <2>3, <2>4
  <1> DEFINE last == Min({Len(e[n]), WL_MAX_DETECTED})
  <1>6. wifi_autodetect_scan(m).devices = SubSeq(e[n], 1, last)
    BY DEF wifi_autodetect_scan
  <1> HIDE DEF e, n
  <1>7. last \in Nat /\ last <= Len(e[n])
    <2>1. Len(e[n]) \in Nat /\ WL_MAX_DETECTED \in Nat
      BY <1>5, LenProperties, WifiAssumption
    <2> QED BY <2>1, LeastIsIn
  <1>8. \A i \in 1 .. last : e[n][i] \in Entries(m)
    BY <1>5, <1>7, ElementOfSeq, LenProperties
  <1> HIDE DEF last
  <1> QED BY <1>6, <1>7, <1>8, SubSeqProperties

(* The seven drivers are for different controllers, all of them known. *)
LEMMA IdsDiffer ==
  /\ DOMAIN WFOps = {"iwl", "ath", "brcm", "rtl", "mt", "prism", "mrv"}
  /\ \A d \in DOMAIN WFOps : WFIds[d].vendor = mrv_start.vendor => d = "mrv"
  /\ wifi_match_driver(mrv_start.vendor, mrv_start.device)
  <1>1. DOMAIN WFOps = {"iwl", "ath", "brcm", "rtl", "mt", "prism", "mrv"}
    BY DEF WFOps
  <1>2. \A d \in DOMAIN WFOps : WFIds[d].vendor = mrv_start.vendor => d = "mrv"
    BY <1>1 DEF WFIds, iwl_start, ath_start, brcm_start, rtl_start, mt_start, prism_start, mrv_start
  <1>3. 7 \in DOMAIN WFKnown /\ mrv_start.vendor \in WFKnown[7][1] /\ mrv_start.device \in WFKnown[7][2]
    BY DEF WFKnown, mrv_start
  <1> QED BY <1>1, <1>2, <1>3 DEF wifi_match_driver

(***************************************************************************)
(* The interface's driver.  DriverServesDevice is not inductive: it must   *)
(* be known that the driver is one for a controller of the machine even    *)
(* while no search has succeeded, as a failed search keeps the driver and  *)
(* the core still calls it, and that only behind the base address of a     *)
(* Marvell controller the last request may not be on the air.              *)
(***************************************************************************)
Names == DOMAIN WFOps
WifiTyped ==
  /\ wf_machine \in WFMachines \cup {<<>>}
  /\ wf_drivers \in Seq(WFDrivers)
  /\ DOMAIN wf_iface = {"driver", "state", "channel", "scan", "bssid"}
  /\ wf_iface.driver \in Names \cup {"none"}
  /\ DOMAIN wf_drv = Names
  /\ \A d \in Names : DOMAIN wf_drv[d] = {"bar", "channel", "associated", "bssid"}
  /\ DOMAIN wf_dev = WFBars \cup {0}

\* The interface's driver is one for f and talks to it.
Serves(f) ==
  /\ f \in Fitted(wf_machine) /\ wifi_match_driver(f.vendor, f.device)
  /\ WFIds[wf_iface.driver].vendor = f.vendor /\ WFIds[wf_iface.driver].device = f.device
  /\ ~Op.rebar => Own.bar = f.bar

Attached == wf_iface.driver # "none" => \E f : Serves(f)
FoundIsServed == wf_ready => wf_iface.driver # "none" /\ \E f : Serves(f) /\ wf_found[wf_active] = Entry(f)
Late(b) == \E f \in Fitted(wf_machine) : f.vendor = mrv_start.vendor /\ f.device = mrv_start.device /\ f.bar = b
OnTheAir == \A b \in DOMAIN wf_dev : wf_dev[b].air # wf_dev[b].buf => Late(b)

WifiInv == WifiTyped /\ Attached /\ FoundIsServed /\ OnTheAir

LEMMA NotNone == "none" \notin Names
  BY IdsDiffer DEF Names

LEMMA MachineFitted ==
  ASSUME wf_machine \in WFMachines \cup {<<>>}, NEW f \in Fitted(wf_machine)
  PROVE  wf_machine \in WFMachines /\ f.bar \in WFBars
  <1>1. Fitted(<<>>) = {}
    BY DEF Fitted
  <1> QED BY <1>1 DEF WFBars

\* The three orders in which a driver writes its registers.
Orders == {<<"go">>, <<"request", "go">>, <<"go", "request">>}

LEMMA WriteOrders ==
  /\ \A d \in Names : WFIds[d].scan \in Orders /\ WFOps[d].mgmt \in Orders /\ WFOps[d].send \in Orders
  /\ \A d \in Names : <<"go", "request">> \in {WFIds[d].scan, WFOps[d].mgmt, WFOps[d].send} => d = "mrv"
  /\ \A d \in Names : WFOps[d].rebar => d = "iwl"
  <1>1. Names = {"iwl", "ath", "brcm", "rtl", "mt", "prism", "mrv"}
    BY IdsDiffer DEF Names
  <1>2. /\ WFIds.iwl.scan = <<"go">> /\ WFIds.ath.scan = <<"request", "go">> /\ WFIds.brcm.scan = <<"request", "go">>
        /\ WFIds.rtl.scan = <<"request", "go">> /\ WFIds.mt.scan = <<"request", "go">>
        /\ WFIds.prism.scan = <<"request", "go">> /\ WFIds.mrv.scan = <<"go", "request">>
    BY DEF WFIds, iwl_start, ath_start, brcm_start, rtl_start, mt_start, prism_start, mrv_start
  <1>3. /\ \A d \in Names \ {"mrv"} : WFOps[d].mgmt = <<"request", "go">>
        /\ WFOps.mrv.mgmt = <<"go", "request">>
        /\ \A d \in Names : WFOps[d].send = <<"request", "go">>
        /\ \A d \in Names : WFOps[d].rebar => d = "iwl"
    <2>1. /\ WriteThenGo.mgmt = <<"request", "go">> /\ WriteThenGo.send = <<"request", "go">> /\ ~WriteThenGo.rebar
          /\ iwl_driver.mgmt = WriteThenGo.mgmt /\ iwl_driver.send = WriteThenGo.send
          /\ ath_driver.mgmt = WriteThenGo.mgmt /\ ath_driver.send = WriteThenGo.send /\ ath_driver.rebar = WriteThenGo.rebar
          /\ mrv_driver.send = WriteThenGo.send /\ mrv_driver.mgmt = <<"go", "request">> /\ mrv_driver.rebar = WriteThenGo.rebar
      BY DEF WriteThenGo, iwl_driver, ath_driver, mrv_driver
    <2>2. /\ WFOps.iwl = iwl_driver /\ WFOps.ath = ath_driver /\ WFOps.brcm = WriteThenGo /\ WFOps.rtl = WriteThenGo
          /\ WFOps.mt = WriteThenGo /\ WFOps.prism = WriteThenGo /\ WFOps.mrv = mrv_driver
      BY DEF WFOps, brcm_driver, rtl_driver, mt_driver, prism_driver
    <2> QED BY <1>1, <2>1, <2>2
  <1>4. <<"request", "go">> # <<"go", "request">> /\ <<"go">> # <<"go", "request">>
    OBVIOUS
  <1> QED BY <1>1, <1>2, <1>3, <1>4 DEF Orders

\* Only Marvell's order leaves a request behind that is not on the air.
LEMMA ProgramSound ==
  ASSUME WifiInv, wf_iface.driver # "none", UNCHANGED wf_machine,
         NEW writes \in Orders, NEW request, Program(writes, request),
         writes = <<"go", "request">> => wf_iface.driver = "mrv"
  PROVE  OnTheAir' /\ DOMAIN wf_dev' = DOMAIN wf_dev
  <1> SUFFICES ASSUME NEW b \in DOMAIN wf_dev, wf_dev'[b].air # wf_dev'[b].buf PROVE Late(b)
    BY DEF OnTheAir, Late, Program
  <1>1. CASE b # Bar \/ writes = <<"go">>
    <2>1. wf_dev'[b].air = wf_dev[b].air /\ wf_dev'[b].buf = wf_dev[b].buf
      BY <1>1 DEF Program
    <2> QED BY <2>1 DEF WifiInv, OnTheAir
  <1>2. CASE b = Bar /\ writes = <<"request", "go">>
    BY <1>2 DEF Program
  <1>3. CASE b = Bar /\ writes = <<"go", "request">>
    <2>1. wf_iface.driver = "mrv" /\ ~Op.rebar
      BY <1>3, IdsDiffer, WriteOrders DEF Op, Names
    <2>2. PICK f : Serves(f)
      BY DEF WifiInv, Attached
    <2>3. f.vendor = mrv_start.vendor /\ f.device = mrv_start.device /\ f.bar = b
      BY <1>3, <2>1, <2>2 DEF Serves, WFIds, Bar
    <2> QED BY <2>2, <2>3 DEF Late, Serves
  <1> QED BY <1>1, <1>2, <1>3 DEF Orders

\* A call of the core: the driver keeps its base address, unless it takes over 0.
LEMMA CallSound ==
  ASSUME WifiInv, wf_iface.driver # "none",
         UNCHANGED <<wf_machine, wf_found, wf_active, wf_drivers, wf_ready>>,
         DOMAIN wf_iface' = DOMAIN wf_iface, wf_iface'.driver = wf_iface.driver,
         NEW own, DOMAIN own = {"bar", "channel", "associated", "bssid"}, own.bar = Own.bar,
         Driver(own) \/ wf_drv' = [wf_drv EXCEPT ![wf_iface.driver] = own],
         OnTheAir', DOMAIN wf_dev' = DOMAIN wf_dev
  PROVE  WifiInv'
  <1> DEFINE d == wf_iface.driver
  <1>1. d \in Names /\ d \in DOMAIN wf_drv
    BY DEF WifiInv, WifiTyped
  <1>2. PICK new : /\ wf_drv' = [wf_drv EXCEPT ![d] = new]
                   /\ DOMAIN new = {"bar", "channel", "associated", "bssid"}
                   /\ ~Op.rebar => new.bar = Own.bar
    BY DEF Driver, Bar
  <1>3. WifiTyped'
    BY <1>1, <1>2 DEF WifiInv, WifiTyped
  <1>4. ASSUME NEW f, Serves(f) PROVE Serves(f)'
    BY <1>1, <1>2, <1>4 DEF Serves, Op, Own, Fitted
  <1>5. Attached' /\ FoundIsServed'
    BY <1>4 DEF WifiInv, Attached, FoundIsServed
  <1> QED BY <1>3, <1>5 DEF WifiInv

\* A search that takes an entry attaches the driver for exactly this entry.
LEMMA SearchSound == WifiInv /\ wifi_autodetect_init => WifiInv'
  <1> SUFFICES ASSUME WifiInv, wifi_autodetect_init PROVE WifiInv'
    OBVIOUS
  <1>1. PICK r \in {Detected[wf_machine]} :
          /\ Searched(r)
          /\ \/ Usable(r) = {} /\ NoneFound(r)
             \/ Usable(r) # {} /\ \E i \in {Min(Usable(r))} : Selected(i, r.devices[i], DriverFor(r.devices[i]))
    BY DEF wifi_autodetect_init
  <1>2. wf_machine \in WFMachines
    <2>1. wf_machine # <<>>
      BY DEF wifi_autodetect_init
    <2> QED BY <2>1 DEF WifiInv, WifiTyped
  <1>3. r.devices \in Seq(Entries(wf_machine)) /\ wf_found' = r.devices /\ UNCHANGED <<wf_machine, wf_drivers, wf_dev>>
    <2>1. r = wifi_autodetect_scan(wf_machine)
      BY <1>1, <1>2 DEF Detected
    <2> QED BY <1>1, <1>2, <2>1, SearchFinds DEF Searched
  <1>4. OnTheAir'
    BY <1>3 DEF WifiInv, OnTheAir, Late
  <1>5. CASE NoneFound(r)
    <2>1. ~wf_ready' /\ UNCHANGED <<wf_iface, wf_drv>>
      BY <1>5 DEF NoneFound
    <2>2. \A f : Serves(f) => Serves(f)'
      BY <1>3, <2>1 DEF Serves, Op, Own
    <2> QED BY <1>3, <1>4, <2>1, <2>2 DEF WifiInv, WifiTyped, Attached, FoundIsServed
  <1>6. ASSUME NEW i \in Usable(r), Selected(i, r.devices[i], DriverFor(r.devices[i])) PROVE WifiInv'
    <2> DEFINE device == r.devices[i]
               d      == DriverFor(device)
    <2>1. device.matched /\ d # "none" /\ device \in Entries(wf_machine)
      BY <1>3, <1>6, ElementOfSeq DEF Usable
    <2>2. PICK f \in Fitted(wf_machine) : device = Entry(f)
      BY <2>1 DEF Entries
    <2>3. d \in Names /\ WFIds[d].vendor = device.vendor /\ WFIds[d].device = device.device
      <3> DEFINE hits == {j \in DOMAIN wf_drivers : WFIds[wf_drivers[j]].vendor = device.vendor /\ WFIds[wf_drivers[j]].device = device.device}
      <3>1. hits # {} /\ d = wf_drivers[Min(hits)]
        BY <2>1 DEF DriverFor, wifi_select_driver
      <3>2. wf_drivers \in Seq(WFDrivers) /\ DOMAIN wf_drivers = 1 .. Len(wf_drivers) /\ Len(wf_drivers) \in Nat
        BY LenProperties DEF WifiInv, WifiTyped
      <3>3. hits \subseteq Nat
        BY <3>2
      <3>4. Min(hits) \in hits
        <4> HIDE DEF hits
        <4> QED BY <3>1, <3>3, LeastIsIn
      <3>5. d \in WFDrivers
        <4>1. Min(hits) \in 1 .. Len(wf_drivers)
          BY <3>2, <3>4
        <4> HIDE DEF hits
        <4> QED BY <3>1, <3>2, <4>1, ElementOfSeq
      <3> QED BY <3>1, <3>4, <3>5, WifiAssumption DEF Names
    <2> HIDE DEF d
    <2>4. /\ wf_active' = i /\ wf_iface' = [wf_iface EXCEPT !.driver = d]
          /\ wf_drv' = [wf_drv EXCEPT ![d] = [@ EXCEPT !.bar = device.bar, !.associated = FALSE]]
      BY <1>6 DEF Selected, Started, d
    <2>5. wf_iface'.driver = d /\ DOMAIN wf_iface' = DOMAIN wf_iface /\ wf_drv'[d].bar = device.bar
      BY <2>3, <2>4 DEF WifiInv, WifiTyped
    <2>6. WifiTyped'
      BY <1>3, <2>3, <2>4, <2>5 DEF WifiInv, WifiTyped
    <2>7. /\ device.vendor = f.vendor /\ device.device = f.device /\ device.bar = f.bar
          /\ wifi_match_driver(f.vendor, f.device)
      BY <2>1, <2>2 DEF Entry
    <2> HIDE DEF device
    <2>8. Serves(f)'
      BY <1>3, <2>3, <2>5, <2>7 DEF Serves, Own
    <2>9. wf_found'[wf_active'] = Entry(f)
      BY <1>3, <2>2, <2>4 DEF device
    <2> QED BY <1>4, <2>1, <2>5, <2>6, <2>8, <2>9 DEF WifiInv, Attached, FoundIsServed
  <1>7. Usable(r) # {} => Min(Usable(r)) \in Usable(r)
    <2>1. DOMAIN r.devices = 1 .. Len(r.devices) /\ Len(r.devices) \in Nat
      BY <1>3, LenProperties
    <2>2. Usable(r) \subseteq Nat
      BY <2>1 DEF Usable
    <2> QED BY <2>2, LeastIsIn
  <1> QED BY <1>1, <1>5, <1>6, <1>7

\* The core's calls of the driver.
LEMMA CallsSound ==
  ASSUME WifiInv, wf_iface.driver # "none",
         \/ \E c \in WFChannels : wifi_scan_start(c)
         \/ \E b \in WFBssids, s \in WFRssi : wifi_scan_get(b, s)
         \/ \E b \in WFBssids : wifi_auth(b)
         \/ \E b \in WFBssids, c \in WFChannels : wifi_assoc(b, c)
         \/ wifi_deauth \/ wifi_send \/ wifi_recv
         \/ \E c \in WFChannels : wifi_set_channel(c)
  PROVE  WifiInv'
  <1> DEFINE d == wf_iface.driver
             Own4 == {"bar", "channel", "associated", "bssid"}
  <1>1. d \in Names /\ DOMAIN Own = Own4
    BY DEF WifiInv, WifiTyped, Own
  <1>2. OnTheAir' /\ DOMAIN wf_dev' = DOMAIN wf_dev
    <2>1. CASE UNCHANGED <<wf_dev, wf_machine>>
      BY <2>1 DEF WifiInv, OnTheAir, Late
    <2>2. CASE \E request : UNCHANGED wf_machine /\ Program(WFIds[d].scan, request)
      <3>1. WFIds[d].scan \in Orders /\ (WFIds[d].scan = <<"go", "request">> => d = "mrv")
        BY <1>1, WriteOrders
      <3>2. PICK request : UNCHANGED wf_machine /\ Program(WFIds[d].scan, request)
        BY <2>2
      <3> HIDE DEF Own4
      <3> QED BY <3>1, <3>2, ProgramSound
    <2>3. CASE \E request : UNCHANGED wf_machine /\ Program(Op.mgmt, request)
      <3>1. Op.mgmt \in Orders /\ (Op.mgmt = <<"go", "request">> => d = "mrv")
        BY <1>1, WriteOrders DEF Op
      <3>2. PICK request : UNCHANGED wf_machine /\ Program(Op.mgmt, request)
        BY <2>3
      <3> HIDE DEF Own4
      <3> QED BY <3>1, <3>2, ProgramSound
    <2>4. CASE \E request : UNCHANGED wf_machine /\ Program(Op.send, request)
      <3>1. Op.send \in Orders /\ (Op.send = <<"go", "request">> => d = "mrv")
        BY <1>1, WriteOrders DEF Op
      <3>2. PICK request : UNCHANGED wf_machine /\ Program(Op.send, request)
        BY <2>4
      <3> HIDE DEF Own4
      <3> QED BY <3>1, <3>2, ProgramSound
    <2> QED BY <2>1, <2>2, <2>3, <2>4 DEF wifi_scan_start, wifi_scan_get, wifi_auth, wifi_assoc, wifi_deauth,
                                          wifi_send, wifi_recv, wifi_set_channel
  <1>3. UNCHANGED <<wf_machine, wf_found, wf_active, wf_drivers, wf_ready>>
    BY DEF wifi_scan_start, wifi_scan_get, wifi_auth, wifi_assoc, wifi_deauth, wifi_send, wifi_recv, wifi_set_channel
  <1>4. DOMAIN wf_iface' = DOMAIN wf_iface /\ wf_iface'.driver = d
    BY DEF WifiInv, WifiTyped, wifi_scan_start, wifi_scan_get, wifi_auth, wifi_assoc, wifi_deauth, wifi_send, wifi_recv,
           wifi_set_channel
  <1>5. \E own : /\ DOMAIN own = Own4 /\ own.bar = Own.bar
                 /\ Driver(own) \/ wf_drv' = [wf_drv EXCEPT ![d] = own]
    <2>1. \A c, a, n : /\ DOMAIN [Own EXCEPT !.channel = c] = Own4 /\ [Own EXCEPT !.channel = c].bar = Own.bar
                       /\ DOMAIN [Own EXCEPT !.bssid = n, !.associated = a] = Own4
                       /\ [Own EXCEPT !.bssid = n, !.associated = a].bar = Own.bar
                       /\ DOMAIN [Own EXCEPT !.associated = a] = Own4 /\ [Own EXCEPT !.associated = a].bar = Own.bar
      BY <1>1
    <2>2. CASE Driver(Own)
      BY <1>1, <2>2
    <2>3. CASE \E c : Driver([Own EXCEPT !.channel = c]) \/ wf_drv' = [wf_drv EXCEPT ![d] = [Own EXCEPT !.channel = c]]
      BY <2>1, <2>3, Zenon
    <2>4. CASE \E a, n : Driver([Own EXCEPT !.bssid = n, !.associated = a])
      BY <2>1, <2>4, Zenon
    <2>5. CASE \E a : wf_drv' = [wf_drv EXCEPT ![d] = [Own EXCEPT !.associated = a]]
      BY <2>1, <2>5, Zenon
    <2>6. (\E c \in WFChannels : wifi_set_channel(c)) => \E c : wf_drv' = [wf_drv EXCEPT ![d] = [Own EXCEPT !.channel = c]]
      BY DEF wifi_set_channel, Own
    <2>7. wifi_deauth => \E a : wf_drv' = [wf_drv EXCEPT ![d] = [Own EXCEPT !.associated = a]]
      BY DEF wifi_deauth, Own
    <2>8. /\ \A c : wifi_scan_start(c) => Driver([Own EXCEPT !.channel = c])
          /\ \A b, s : wifi_scan_get(b, s) => Driver(Own)
          /\ \A b : wifi_auth(b) => Driver(Own)
          /\ \A b, c : wifi_assoc(b, c) => \E a, n : Driver([Own EXCEPT !.bssid = n, !.associated = a])
          /\ wifi_send \/ wifi_recv => Driver(Own)
      BY Zenon DEF wifi_scan_start, wifi_scan_get, wifi_auth, wifi_assoc, wifi_send, wifi_recv
    <2> HIDE DEF d, Own4
    <2> QED BY <2>2, <2>3, <2>4, <2>5, <2>6, <2>7, <2>8
  <1> HIDE DEF d
  <1> QED BY <1>2, <1>3, <1>4, <1>5, CallSound DEF d

LEMMA WifiInductive == WifiInv /\ [WFNext]_wfVars => WifiInv'
  <1> SUFFICES ASSUME WifiInv, [WFNext]_wfVars PROVE WifiInv'
    OBVIOUS
  <1> DEFINE Rest == UNCHANGED <<wf_machine, wf_found, wf_active, wf_drv, wf_dev>>
  <1>1. ASSUME NEW m \in WFMachines, PowerOn(m) PROVE WifiInv'
    <2>1. wf_machine = <<>> /\ wf_machine' = m /\ UNCHANGED <<wf_found, wf_active, wf_drivers, wf_iface, wf_drv, wf_dev, wf_ready>>
      BY <1>1 DEF PowerOn
    <2>2. Fitted(wf_machine) = {}
      BY <2>1 DEF Fitted
    <2>3. wf_iface.driver = "none" /\ ~wf_ready
      BY <2>2 DEF WifiInv, Attached, Serves, FoundIsServed
    <2>4. \A b : ~Late(b)
      BY <2>2 DEF Late
    <2>5. \A b \in DOMAIN wf_dev : wf_dev[b].air = wf_dev[b].buf
      BY <2>4 DEF WifiInv, OnTheAir
    <2> QED BY <2>1, <2>3, <2>5 DEF WifiInv, WifiTyped, Attached, FoundIsServed, OnTheAir
  <1>2. ASSUME NEW name \in WFDrivers, wifi_register_driver(name) PROVE WifiInv'
    <2>1. wf_drivers' \in Seq(WFDrivers)
      BY <1>2, AppendProperties DEF wifi_register_driver, WifiInv, WifiTyped
    <2>2. UNCHANGED <<wf_machine, wf_found, wf_active, wf_iface, wf_drv, wf_dev, wf_ready>>
      BY <1>2 DEF wifi_register_driver
    <2> QED BY <2>1, <2>2 DEF WifiInv, WifiTyped, Attached, FoundIsServed, OnTheAir, Serves, Late, Op, Own
  <1>3. CASE wifi_init
    <2>1. wf_drivers' = <<>> /\ ~wf_ready' /\ Rest /\ wf_iface'.driver = "none"
          /\ DOMAIN wf_iface' = {"driver", "state", "channel", "scan", "bssid"}
      BY <1>3 DEF wifi_init
    <2>2. wf_drivers' \in Seq(WFDrivers)
      BY <2>1, EmptySeq
    <2> QED BY <2>1, <2>2 DEF WifiInv, WifiTyped, Attached, FoundIsServed, OnTheAir, Late
  <1>4. ASSUME wf_iface.driver = "none", NEW c \in WFChannels, wifi_set_channel(c) PROVE WifiInv'
    <2>1. /\ UNCHANGED <<wf_machine, wf_found, wf_active, wf_drivers, wf_drv, wf_dev, wf_ready>>
          /\ wf_iface'.driver = wf_iface.driver /\ DOMAIN wf_iface' = DOMAIN wf_iface
      BY <1>4 DEF wifi_set_channel, WifiInv, WifiTyped
    <2> QED BY <1>4, <2>1 DEF WifiInv, WifiTyped, Attached, FoundIsServed, OnTheAir, Late
  <1>5. CASE UNCHANGED wfVars
    BY <1>5 DEF wfVars, WifiInv, WifiTyped, Attached, FoundIsServed, OnTheAir, Serves, Late, Op, Own
  <1>6. WFNext => \/ \E m \in WFMachines : PowerOn(m)
                  \/ \E name \in WFDrivers : wifi_register_driver(name)
                  \/ wifi_init \/ wifi_autodetect_init
                  \/ /\ wf_iface.driver # "none"
                     /\ \/ \E c \in WFChannels : wifi_scan_start(c)
                        \/ \E b \in WFBssids, s \in WFRssi : wifi_scan_get(b, s)
                        \/ \E b \in WFBssids : wifi_auth(b)
                        \/ \E b \in WFBssids, c \in WFChannels : wifi_assoc(b, c)
                        \/ wifi_deauth \/ wifi_send \/ wifi_recv
                  \/ \E c \in WFChannels : wifi_set_channel(c)
    BY DEF WFNext, wifi_scan_start, wifi_scan_get, wifi_auth, wifi_assoc, wifi_deauth, wifi_send, wifi_recv
  <1> QED BY <1>1, <1>2, <1>3, <1>4, <1>5, <1>6, SearchSound, CallsSound

LEMMA WifiStarts == WFInit => WifiInv
  <1> SUFFICES ASSUME WFInit PROVE WifiInv
    OBVIOUS
  <1>1. WifiTyped
    <2>1. <<>> \in Seq(WFDrivers)
      BY EmptySeq
    <2> QED BY <2>1 DEF WFInit, WifiTyped, Names
  <1>2. Attached /\ FoundIsServed /\ OnTheAir
    BY DEF WFInit, Attached, FoundIsServed, OnTheAir
  <1> QED BY <1>1, <1>2 DEF WifiInv

\* Where two known controllers have the same address they are the same, and
\* Marvell's are for no other driver.
LEMMA WifiServes == WifiInv => DriverServesDevice
  <1> SUFFICES ASSUME WifiInv, wf_ready
               PROVE  LET d == wf_found[wf_active]
                      IN /\ WFIds[wf_iface.driver].vendor = d.vendor /\ WFIds[wf_iface.driver].device = d.device
                         /\ ~Op.rebar => Own.bar = d.bar
                         /\ wf_iface.driver \notin {"iwl", "mrv"} => wf_dev[d.bar].air = wf_dev[d.bar].buf
    BY DEF DriverServesDevice
  <1>1. PICK f : Serves(f) /\ wf_found[wf_active] = Entry(f)
    BY DEF WifiInv, FoundIsServed
  <1>2. wf_iface.driver \in Names
    BY DEF WifiInv, WifiTyped, FoundIsServed
  <1>3. wf_machine \in WFMachines /\ f.bar \in DOMAIN wf_dev
    BY <1>1, MachineFitted DEF Serves, WifiInv, WifiTyped
  <1>4. Entry(f).vendor = f.vendor /\ Entry(f).device = f.device /\ Entry(f).bar = f.bar
    BY DEF Entry
  <1>5. ASSUME wf_dev[f.bar].air # wf_dev[f.bar].buf PROVE wf_iface.driver = "mrv"
    <2>1. PICK g \in Fitted(wf_machine) : g.vendor = mrv_start.vendor /\ g.device = mrv_start.device /\ g.bar = f.bar
      BY <1>3, <1>5 DEF WifiInv, OnTheAir, Late
    <2>2. f.vendor = mrv_start.vendor
      BY <1>1, <1>3, <2>1, IdsDiffer, WifiAssumption DEF Serves
    <2> QED BY <1>1, <1>2, <2>2, IdsDiffer DEF Serves, Names
  <1> QED BY <1>1, <1>4, <1>5 DEF Serves

(***************************************************************************)
(* For every machine whose controllers have addresses of their own, every  *)
(* set of drivers and size of the tables, and any order of searches,       *)
(* registrations and calls: the driver of a successful search is the one   *)
(* for the controller it found, and keeps talking to it.                   *)
(***************************************************************************)
THEOREM DriverFitsDevice == WFSpec => []DriverServesDevice
  BY WifiStarts, WifiServes, WifiInductive, PTL DEF WFSpec

-----------------------------------------------------------------------------
(***************************************************************************)
(* Memory of stage 2.  A call works on a memory w; R is the set of pages   *)
(* that clusters and callers have.  PageOwners is not inductive: between   *)
(* the calls of a walk a page is taken whose table is not linked yet, so   *)
(* every helper is shown to keep the owners apart by itself.               *)
(***************************************************************************)
PageEntryType == [present : BOOLEAN, huge : BOOLEAN, frame : Nat]
PageTableType == [0 .. SM_N - 1 -> PageEntryType]
WorkMemory == [bitmap : SUBSET PageFrame, free : Int, mem : UNION {[D -> PageTableType] : D \in SUBSET PageFrame}]

\* The count of free pages is exact and page 0 is never free.
Counted(w) == w \in WorkMemory /\ w.free = Cardinality(PageFrame \ w.bitmap)
OwnersApart(w, R) ==
  /\ Counted(w) /\ 0 \in w.bitmap
  /\ DOMAIN w.mem \cup R \subseteq w.bitmap
  /\ DOMAIN w.mem \cap R = {}

LEMMA LoopStays ==
  ASSUME NEW n \in Nat, NEW S, NEW e, e[0] \in S, \A k \in 1 .. n : e[k - 1] \in S => e[k] \in S
  PROVE  \A k \in 0 .. n : e[k] \in S
  <1> DEFINE D == {k \in 0 .. n : e[k] \notin S}
  <1> SUFFICES ASSUME D # {} PROVE FALSE
    OBVIOUS
  <1>1. PICK k \in D : \A j \in D : k <= j
    <2>1. D \subseteq Nat
      OBVIOUS
    <2> HIDE DEF D
    <2> QED BY <2>1, SmallestOf
  <1>2. k \in 1 .. n /\ k - 1 \in 0 .. n /\ k - 1 \notin D
    BY <1>1
  <1> QED BY <1>1, <1>2

LEMMA QuotientAtLeast ==
  ASSUME NEW a \in Nat, NEW d \in Nat \ {0}, a >= 4 * d
  PROVE  a \div d \in Nat /\ a \div d >= 4
  <1> DEFINE q == a \div d
  <1>1. q \in Nat /\ a < d * q + d
    OBVIOUS
  <1> HIDE DEF q
  <1>2. SUFFICES ASSUME q \in 0 .. 3 PROVE FALSE
    BY <1>1 DEF q
  <1>3. d * q <= d * 3
    BY <1>2
  <1> QED BY <1>1, <1>3

\* The end of memory.
LEMMA TotalPages == pmm_total_pages \in Nat /\ pmm_total_pages >= 4
  <1> DEFINE n      == Len(SM_E820)
             end(i) == SM_E820[i].base + SM_E820[i].len
             Ends   == {end(i) : i \in 1 .. n}
             Most(k) == \E j \in 1 .. n : \A i \in 1 .. k : end(i) <= end(j)
             T      == {k \in 1 .. n : ~Most(k)}
  <1>1. n \in Nat /\ n > 0 /\ DOMAIN SM_E820 = 1 .. n /\ \A i \in 1 .. n : end(i) \in Nat
    <2>1. SM_E820 \in Seq([base : Nat, len : Nat, usable : BOOLEAN]) /\ DOMAIN SM_E820 # {}
      BY SMAssumption
    <2>2. n \in Nat /\ DOMAIN SM_E820 = 1 .. n
      BY <2>1
    <2>3. n > 0
      BY <2>1, <2>2
    <2>4. \A i \in 1 .. n : SM_E820[i] \in [base : Nat, len : Nat, usable : BOOLEAN]
      BY <2>1, ElementOfSeq
    <2>5. \A i \in 1 .. n : end(i) \in Nat
      BY <2>4
    <2> HIDE DEF end, n
    <2> QED BY <2>2, <2>3, <2>5
  <1>2. PICK i4 \in 1 .. n : end(i4) >= 4 * SM_PAGE
    BY <1>1, SMAssumption
  <1>3. T = {}
    <2> HIDE DEF n, end
    <2> SUFFICES ASSUME T # {} PROVE FALSE
      OBVIOUS
    <2>1. PICK k \in T : \A x \in T : k <= x
      <3>1. T \subseteq Nat
        BY <1>1
      <3> HIDE DEF T
      <3> QED BY <3>1, SmallestOf
    <2>2. k # 1
      BY <1>1, <2>1
    <2>3. k - 1 \in 1 .. n /\ k - 1 \notin T
      <3>1. k \in 1 .. n
        BY <2>1
      <3> HIDE DEF T
      <3> QED BY <1>1, <2>1, <2>2, <3>1
    <2>4. PICK j \in 1 .. n : \A i \in 1 .. k - 1 : end(i) <= end(j)
      BY <2>3
    <2>5. \A i \in 1 .. k : i \in 1 .. k - 1 \/ i = k
      BY <1>1, <2>1
    <2>6. CASE end(k) <= end(j)
      BY <2>1, <2>4, <2>5, <2>6
    <2>7. CASE end(j) <= end(k)
      <3>1. \A i \in 1 .. k : end(i) <= end(k)
        <4> SUFFICES ASSUME NEW i \in 1 .. k PROVE end(i) <= end(k)
          OBVIOUS
        <4>1. i \in 1 .. n /\ end(i) \in Int /\ end(j) \in Int /\ end(k) \in Int
          BY <1>1, <2>1
        <4> QED BY <2>4, <2>5, <2>7, <4>1
      <3> QED BY <2>1, <3>1
    <2> QED BY <1>1, <2>1, <2>6, <2>7
  <1>4. PICK j \in 1 .. n : \A i \in 1 .. n : end(i) <= end(j)
    <2>1. n \in 1 .. n
      BY <1>1
    <2> HIDE DEF n, end
    <2> QED BY <1>3, <2>1
  <1> DEFINE m == SMMost(Ends)
  <1>5. m \in Nat /\ m >= 4 * SM_PAGE
    <2> HIDE DEF n, end
    <2>1. end(j) \in Ends /\ \A y \in Ends : y <= end(j)
      BY <1>4
    <2> HIDE DEF Ends
    <2>2. m \in Ends /\ \A y \in Ends : y <= m
      BY <2>1 DEF SMMost
    <2> HIDE DEF m
    <2>3. end(i4) \in Ends /\ end(i4) \in Nat /\ m \in Nat
      BY <1>1, <2>2 DEF Ends
    <2>4. SM_PAGE \in Nat
      BY SMAssumption
    <2> QED BY <1>2, <2>2, <2>3, <2>4
  <1>6. pmm_total_pages = m \div SM_PAGE
    BY <1>1 DEF pmm_total_pages
  <1> HIDE DEF m
  <1>7. m \div SM_PAGE \in Nat /\ m \div SM_PAGE >= 4
    BY <1>5, SMAssumption, QuotientAtLeast
  <1> QED BY <1>6, <1>7

LEMMA PageFrames ==
  /\ IsFiniteSet(PageFrame) /\ PageFrame \subseteq Nat /\ {0, 1, 2, 3} \subseteq PageFrame
  /\ \A A \in SUBSET PageFrame : IsFiniteSet(A) /\ Cardinality(A) \in Nat
  <1>1. IsFiniteSet(PageFrame) /\ PageFrame \subseteq Nat /\ {0, 1, 2, 3} \subseteq PageFrame
    <2>1. 0 \in Int /\ pmm_total_pages - 1 \in Int
      BY TotalPages
    <2> QED BY <2>1, TotalPages, FS_Interval DEF PageFrame
  <1> QED BY <1>1, FS_Subset, FS_CardinalityType

\* Taking free pages and giving taken ones back keep the count exact.
LEMMA CountTaken ==
  ASSUME NEW w, Counted(w), NEW S \in SUBSET PageFrame
  PROVE  /\ Counted([w EXCEPT !.bitmap = @ \cup S, !.free = @ - Cardinality(S \ w.bitmap)])
         /\ S \cap w.bitmap = {} => Counted(Taken(w, S))
  <1> DEFINE B == w.bitmap
             F == PageFrame \ B
             v == [w EXCEPT !.bitmap = @ \cup S, !.free = @ - Cardinality(S \ w.bitmap)]
  <1>1. w \in WorkMemory /\ B \in SUBSET PageFrame /\ w.free = Cardinality(F)
    BY DEF Counted, WorkMemory
  <1>2. v.bitmap = B \cup S /\ v.free = w.free - Cardinality(S \ B) /\ v.mem = w.mem
    BY <1>1 DEF WorkMemory
  <1>3. PageFrame \ (B \cup S) = F \ (S \ B) /\ F \cap (S \ B) = S \ B
    BY <1>1
  <1>4. Cardinality(F \ (S \ B)) = Cardinality(F) - Cardinality(F \cap (S \ B))
    <2>1. IsFiniteSet(F)
      BY PageFrames
    <2> QED BY <2>1, FS_Difference
  <1>5. Cardinality(F) \in Nat /\ Cardinality(S \ B) \in Nat
    BY PageFrames
  <1>6. v \in WorkMemory
    <2>1. B \cup S \in SUBSET PageFrame /\ w.free - Cardinality(S \ B) \in Int
      BY <1>1, <1>5
    <2> QED BY <1>1, <2>1 DEF WorkMemory
  <1>7. Counted(v)
    BY <1>1, <1>2, <1>3, <1>4, <1>6 DEF Counted
  <1>8. S \cap B = {} => Taken(w, S) = v
    <2>1. S \cap B = {} => S \ B = S
      OBVIOUS
    <2> QED BY <2>1 DEF Taken
  <1> QED BY <1>7, <1>8

LEMMA CountFreed ==
  ASSUME NEW w, Counted(w), NEW S \in SUBSET PageFrame
  PROVE  Counted([w EXCEPT !.bitmap = @ \ S, !.free = @ + Cardinality(S \cap w.bitmap)])
  <1> DEFINE B == w.bitmap
             F == PageFrame \ B
             v == [w EXCEPT !.bitmap = @ \ S, !.free = @ + Cardinality(S \cap w.bitmap)]
  <1>1. w \in WorkMemory /\ B \in SUBSET PageFrame /\ w.free = Cardinality(F)
    BY DEF Counted, WorkMemory
  <1>2. v.bitmap = B \ S /\ v.free = w.free + Cardinality(S \cap B)
    BY <1>1 DEF WorkMemory
  <1>3. PageFrame \ (B \ S) = F \cup (S \cap B) /\ F \cap (S \cap B) = {}
    BY <1>1
  <1>4. Cardinality(F \cup (S \cap B)) = Cardinality(F) + Cardinality(S \cap B) - Cardinality(F \cap (S \cap B))
    <2>1. IsFiniteSet(F) /\ IsFiniteSet(S \cap B)
      <3>1. F \in SUBSET PageFrame /\ S \cap B \in SUBSET PageFrame
        OBVIOUS
      <3> QED BY <3>1, PageFrames
    <2> QED BY <2>1, FS_Union
  <1>5. Cardinality(F) \in Nat /\ Cardinality(S \cap B) \in Nat
    <2>1. F \in SUBSET PageFrame /\ S \cap B \in SUBSET PageFrame
      OBVIOUS
    <2> QED BY <2>1, PageFrames
  <1>6. v \in WorkMemory
    <2>1. B \ S \in SUBSET PageFrame /\ w.free + Cardinality(S \cap B) \in Int
      BY <1>1, <1>5
    <2> QED BY <1>1, <2>1 DEF WorkMemory
  <1>7. Cardinality(F \cap (S \cap B)) = 0
    BY <1>3, FS_EmptySet
  <1>8. v.free = Cardinality(PageFrame \ v.bitmap)
    <2>1. PageFrame \ v.bitmap = F \cup (S \cap B)
      BY <1>2, <1>3
    <2> DEFINE c == Cardinality(F)
               d == Cardinality(S \cap B)
    <2>2. c \in Nat /\ d \in Nat /\ w.free = c /\ v.free = w.free + d /\ Cardinality(F \cup (S \cap B)) = c + d - 0
      BY <1>1, <1>2, <1>4, <1>5, <1>7
    <2>3. v.free = c + d /\ c + d - 0 = c + d
      <3> HIDE DEF v, c, d
      <3> QED BY <2>2
    <2>4. Cardinality(PageFrame \ v.bitmap) = Cardinality(F \cup (S \cap B))
      <3> HIDE DEF v, F, B
      <3> QED BY <2>1
    <2> HIDE DEF v, F, B, c, d
    <2> QED BY <2>2, <2>3, <2>4
  <1> QED BY <1>6, <1>8 DEF Counted

\* A first fit is free, and page 0 never is.
LEMMA FoundFree ==
  ASSUME NEW w, Counted(w), 0 \in w.bitmap, NEW count \in Nat \ {0}, NEW limit \in Nat,
         NEW p, p = pmm_find_free_pages(w, count, limit)
  PROVE  p = 0 \/ (p \in Nat \ {0} /\ p .. p + count - 1 \subseteq PageFrame \ w.bitmap)
  <1> DEFINE top  == SMMin(limit, pmm_total_pages)
             runs == {q \in 0 .. top - count : (q .. q + count - 1) \cap w.bitmap = {}}
  <1>1. top \in Nat /\ top <= pmm_total_pages
    BY TotalPages DEF SMMin
  <1>2. CASE runs = {}
    BY <1>2 DEF pmm_find_free_pages
  <1>3. CASE runs # {}
    <2>1. p = CHOOSE q \in runs : \A r \in runs : q <= r
      BY <1>3 DEF pmm_find_free_pages
    <2>2. runs \subseteq Nat
      OBVIOUS
    <2>3. p \in runs
      <3> HIDE DEF runs
      <3> QED BY <1>3, <2>1, <2>2, SmallestOf, Zenon
    <2>4. p \in Nat /\ p + count <= top /\ (p .. p + count - 1) \cap w.bitmap = {}
      BY <1>1, <2>3
    <2>5. p # 0
      BY <2>4
    <2>6. p .. p + count - 1 \subseteq PageFrame
      BY <1>1, <2>4, TotalPages DEF PageFrame
    <2> QED BY <2>4, <2>5, <2>6
  <1> QED BY <1>2, <1>3

LEMMA WorkRecord ==
  ASSUME NEW w \in WorkMemory
  PROVE  /\ w = [bitmap |-> w.bitmap, free |-> w.free, mem |-> w.mem]
         /\ w.bitmap \in SUBSET PageFrame /\ w.free \in Int
         /\ DOMAIN w.mem \in SUBSET PageFrame /\ w.mem \in [DOMAIN w.mem -> PageTableType]
  BY DEF WorkMemory

\* Writing tables that are there moves no page.
WithTables(w, m) == [w EXCEPT !.mem = m]
WithTable(w, t, table) == [w EXCEPT !.mem[t] = table]
WithEntry(w, t, idx, e) == [w EXCEPT !.mem[t][idx] = e]

LEMMA TablesWritten ==
  ASSUME NEW R, NEW w, OwnersApart(w, R), NEW m \in [DOMAIN w.mem -> PageTableType]
  PROVE  OwnersApart(WithTables(w, m), R)
  <1>1. w \in WorkMemory
    BY DEF OwnersApart, Counted
  <1>2. WithTables(w, m) = [bitmap |-> w.bitmap, free |-> w.free, mem |-> m]
    BY <1>1, WorkRecord DEF WithTables
  <1>3. WithTables(w, m) \in WorkMemory
    BY <1>1, <1>2, WorkRecord DEF WorkMemory
  <1> QED BY <1>2, <1>3 DEF OwnersApart, Counted

LEMMA EntryWritten ==
  ASSUME NEW R, NEW w, OwnersApart(w, R), NEW t, NEW idx, NEW e \in PageEntryType
  PROVE  OwnersApart(WithEntry(w, t, idx, e), R)
  <1>1. w \in WorkMemory
    BY DEF OwnersApart, Counted
  <1> DEFINE m == [w.mem EXCEPT ![t][idx] = e]
  <1>2. m \in [DOMAIN w.mem -> PageTableType]
    BY <1>1, WorkRecord DEF PageTableType
  <1>3. WithEntry(w, t, idx, e) = WithTables(w, m)
    BY <1>1, WorkRecord DEF WithEntry, WithTables
  <1> HIDE DEF m
  <1> QED BY <1>2, <1>3, TablesWritten

LEMMA TableWritten ==
  ASSUME NEW R, NEW w, OwnersApart(w, R), NEW t, NEW table \in PageTableType
  PROVE  OwnersApart(WithTable(w, t, table), R)
  <1>1. w \in WorkMemory
    BY DEF OwnersApart, Counted
  <1> DEFINE m == [w.mem EXCEPT ![t] = table]
  <1>2. m \in [DOMAIN w.mem -> PageTableType]
    BY <1>1, WorkRecord
  <1>3. WithTable(w, t, table) = WithTables(w, m)
    BY <1>1, WorkRecord DEF WithTable, WithTables
  <1> HIDE DEF m
  <1> QED BY <1>2, <1>3, TablesWritten

LEMMA TablesTyped ==
  /\ NoPage \in PageEntryType /\ EmptyTable \in PageTableType
  /\ \A f \in Nat : PageAt(f) \in PageEntryType /\ Small(f) \in PageTableType
  <1>1. NoPage \in PageEntryType /\ \A f \in Nat : PageAt(f) \in PageEntryType
    BY DEF PageEntryType, NoPage, PageAt
  <1>2. \A f \in Nat, i \in 0 .. SM_N - 1 : f + i \in Nat
    <2>1. SM_N \in Nat
      BY SMAssumption
    <2> QED BY <2>1
  <1> QED BY <1>1, <1>2 DEF PageTableType, EmptyTable, Small

\* Pages taken are free ones, which no one has.
LEMMA PagesTaken ==
  ASSUME NEW R, NEW w, OwnersApart(w, R), NEW S \in SUBSET (PageFrame \ w.bitmap)
  PROVE  OwnersApart(Taken(w, S), R \cup S)
  <1>1. Counted(Taken(w, S))
    BY CountTaken DEF OwnersApart
  <1>2. Taken(w, S).bitmap = w.bitmap \cup S /\ Taken(w, S).mem = w.mem
    BY DEF Taken, OwnersApart, Counted, WorkMemory
  <1> QED BY <1>1, <1>2 DEF OwnersApart

\* What is given back has been taken and was no table.
LEMMA PagesFreed ==
  ASSUME NEW R, NEW w, OwnersApart(w, R), NEW p \in Nat \ {0}, NEW count \in Nat, p .. p + count - 1 \subseteq R
  PROVE  OwnersApart(pmm_free_pages(w, p, count), R \ (p .. p + count - 1))
  <1> DEFINE S == (p .. p + count - 1) \cap PageFrame \cap w.bitmap
             v == [w EXCEPT !.bitmap = @ \ S, !.free = @ + Cardinality(S)]
  <1>1. pmm_free_pages(w, p, count) = v
    BY DEF pmm_free_pages
  <1>2. w \in WorkMemory /\ w.bitmap \subseteq PageFrame /\ S \in SUBSET PageFrame /\ S \cap w.bitmap = S
    BY DEF OwnersApart, Counted, WorkMemory
  <1>3. Counted(v)
    BY <1>2, CountFreed DEF OwnersApart
  <1>4. v.bitmap = w.bitmap \ S /\ v.mem = w.mem
    BY <1>2 DEF WorkMemory
  <1>5. 0 \notin S /\ S = p .. p + count - 1
    <2>1. p .. p + count - 1 \subseteq w.bitmap
      BY DEF OwnersApart
    <2> QED BY <1>2, <2>1
  <1> HIDE DEF S, v
  <1> QED BY <1>1, <1>3, <1>4, <1>5 DEF OwnersApart

LEMMA OwnersFewer ==
  ASSUME NEW R, NEW w, OwnersApart(w, R), NEW Q \in SUBSET R
  PROVE  OwnersApart(w, Q)
  BY DEF OwnersApart

\* What a call on tables returns: a memory and a table, or 0.
Results(R) == {r \in [w : WorkMemory, t : Nat] : OwnersApart(r.w, R)}

LEMMA TableAllocated ==
  ASSUME NEW R, NEW w, OwnersApart(w, R)
  PROVE  vmm_alloc_table(w) \in Results(R)
  <1> DEFINE t == pmm_find_free_pages(w, 1, pmm_total_pages)
             v == Taken(w, {t})
             m == [x \in DOMAIN w.mem \cup {t} |-> IF x = t THEN EmptyTable ELSE w.mem[x]]
  <1>1. w \in WorkMemory /\ Counted(w) /\ 0 \in w.bitmap
    BY DEF OwnersApart, Counted
  <1>2. t = 0 \/ (t \in Nat \ {0} /\ t .. t + 1 - 1 \subseteq PageFrame \ w.bitmap)
    BY <1>1, FoundFree, TotalPages
  <1>3. CASE t = 0
    BY <1>1, <1>3 DEF vmm_alloc_table, Cleared, Results
  <1>4. CASE t # 0
    <2>1. t \in Nat /\ t \in PageFrame \ w.bitmap
      <3> HIDE DEF t
      <3> QED BY <1>2, <1>4
    <2> HIDE DEF t
    <2>2. OwnersApart(v, R \cup {t})
      BY <2>1, PagesTaken
    <2>3. v \in WorkMemory /\ v.mem = w.mem
      BY <1>1, <2>2 DEF OwnersApart, Counted, Taken, WorkMemory
    <2>4. DOMAIN m = DOMAIN w.mem \cup {t} /\ m \in [DOMAIN m -> PageTableType]
      <3>1. \A x \in DOMAIN w.mem : w.mem[x] \in PageTableType
        BY <1>1, WorkRecord
      <3> QED BY <3>1, TablesTyped
    <2> DEFINE u == [v EXCEPT !.mem = m]
    <2>5. u = [bitmap |-> v.bitmap, free |-> v.free, mem |-> m]
      <3> HIDE DEF v, m
      <3> QED BY <2>3, WorkRecord
    <2>6. u \in WorkMemory
      <3>1. DOMAIN m \in SUBSET PageFrame
        BY <1>1, <2>1, <2>4, WorkRecord
      <3> HIDE DEF m, v, u
      <3> QED BY <2>3, <2>4, <2>5, <3>1, WorkRecord DEF WorkMemory
    <2>7. DOMAIN m \cap R = {} /\ DOMAIN m \cup R \subseteq v.bitmap
      <3>1. DOMAIN w.mem \cap R = {} /\ R \subseteq w.bitmap
        BY DEF OwnersApart
      <3>2. DOMAIN w.mem \cup R \cup {t} \subseteq v.bitmap
        BY <2>2, <2>3 DEF OwnersApart
      <3> HIDE DEF m, v
      <3> QED BY <2>1, <2>4, <3>1, <3>2
    <2>8. OwnersApart(u, R)
      <3> HIDE DEF m, v, u
      <3> QED BY <2>2, <2>5, <2>6, <2>7 DEF OwnersApart, Counted
    <2>9. vmm_alloc_table(w) = [w |-> u, t |-> t]
      <3>1. [v EXCEPT !.mem = [x \in DOMAIN @ \cup {t} |-> IF x = t THEN EmptyTable ELSE @[x]]] = u
        BY <2>3
      <3> HIDE DEF u, v, m
      <3> QED BY <1>4, <3>1 DEF vmm_alloc_table, Cleared, t, v
    <2> QED BY <2>1, <2>6, <2>8, <2>9 DEF Results
  <1> QED BY <1>3, <1>4

\* Each helper on tables keeps the owners apart, also where it finds no page.
LEMMA EntryEntered ==
  ASSUME NEW R, NEW n \in Results(R), NEW t, NEW idx
  PROVE  OwnersApart(Entered(n, t, idx).w, R)
  <1>1. OwnersApart(n.w, R) /\ n = [w |-> n.w, t |-> n.t] /\ PageAt(n.t) \in PageEntryType
    BY TablesTyped DEF Results
  <1>2. CASE n.t = 0
    BY <1>1, <1>2 DEF Entered
  <1>3. CASE n.t # 0
    <2> DEFINE e == PageAt(n.t)
    <2>1. Entered(n, t, idx).w = WithEntry(n.w, t, idx, e)
      BY <1>1, <1>3 DEF Entered, WithEntry
    <2>2. e \in PageEntryType
      BY <1>1
    <2> HIDE DEF e
    <2> QED BY <1>1, <2>1, <2>2, EntryWritten
  <1> QED BY <1>2, <1>3

LEMMA LevelPassed ==
  ASSUME NEW R, NEW w, OwnersApart(w, R), NEW t, NEW idx, NEW create \in BOOLEAN
  PROVE  OwnersApart(vmm_get_table(w, t, idx, create).w, R)
  <1> DEFINE e == w.mem[t][idx]
             r == vmm_get_table(w, t, idx, create)
  <1>1. CASE e.present \/ ~create
    <2>1. r.w = w
      BY <1>1 DEF vmm_get_table
    <2> QED BY <2>1
  <1>2. CASE ~e.present /\ create
    <2>1. r = Entered(vmm_alloc_table(w), t, idx)
      BY <1>2 DEF vmm_get_table
    <2> QED BY <2>1, TableAllocated, EntryEntered
  <1> QED BY <1>1, <1>2

LEMMA WalkPassed ==
  ASSUME NEW R, NEW w, OwnersApart(w, R), NEW v, NEW create \in BOOLEAN
  PROVE  OwnersApart(Walk(w, v, create).w, R)
  <1>1. \A r, idx : OwnersApart(r.w, R) => OwnersApart(TableBelow(r, idx, create).w, R)
    BY LevelPassed DEF TableBelow
  <1>2. OwnersApart(vmm_get_table(w, vmm_pml4, v[1], create).w, R)
    BY LevelPassed
  <1> DEFINE a == vmm_get_table(w, vmm_pml4, v[1], create)
             b == TableBelow(a, v[2], create)
  <1>3. Walk(w, v, create) = TableBelow(b, v[3], create)
    BY DEF Walk
  <1> HIDE DEF a
  <1>4. OwnersApart(b.w, R)
    BY <1>1, <1>2 DEF a
  <1> HIDE DEF b
  <1> QED BY <1>1, <1>3, <1>4

LEMMA PageMapped ==
  ASSUME NEW R, NEW w, OwnersApart(w, R), NEW v, NEW f \in Nat
  PROVE  OwnersApart(vmm_map_page(w, v, f), R) /\ OwnersApart(vmm_unmap_page(w, v), R)
  <1>1. PageAt(f) \in PageEntryType /\ NoPage \in PageEntryType
    BY TablesTyped
  <1>2. OwnersApart(vmm_map_page(w, v, f), R)
    <2> DEFINE r == Walk(w, v, TRUE)
               e == PageAt(f)
    <2>1. OwnersApart(r.w, R)
      BY WalkPassed
    <2>2. \/ vmm_map_page(w, v, f) = r.w
          \/ vmm_map_page(w, v, f) = WithEntry(r.w, r.t, v[4], e)
      BY DEF vmm_map_page, MappedAt, WithEntry
    <2>3. e \in PageEntryType
      BY <1>1
    <2> HIDE DEF r, e
    <2> QED BY <2>1, <2>2, <2>3, EntryWritten
  <1>3. OwnersApart(vmm_unmap_page(w, v), R)
    <2> DEFINE r == Walk(w, v, FALSE)
               e == NoPage
    <2>1. vmm_unmap_page(w, v) = w \/ vmm_unmap_page(w, v) = WithEntry(w, r.t, v[4], e)
      BY DEF vmm_unmap_page, UnmappedAt, WithEntry
    <2>2. e \in PageEntryType
      BY <1>1
    <2> HIDE DEF r, e
    <2> QED BY <2>1, <2>2, EntryWritten
  <1> QED BY <1>2, <1>3

(***************************************************************************)
(* Clusters.  H is the set of pages callers have.                          *)
(***************************************************************************)
BackingOf(phys) == {phys[c] : c \in Cluster} \ {0}
WindowApart(k, H) ==
  /\ k \in [w : WorkMemory, phys : [Cluster -> Nat]]
  /\ OwnersApart(k.w, BackingOf(k.phys) \cup H)
  /\ BackingOf(k.phys) \cap H = {}
  /\ \A c, d \in Cluster : c # d /\ k.phys[c] # 0 => k.phys[c] # k.phys[d]

\* A page that was just taken gets its cluster, or the cluster stays as it is.
MappedOrNot(m, k, c, f, H) ==
  \/ m.phys[c] = f
  \/ m.phys = k.phys /\ OwnersApart(m.w, BackingOf(k.phys) \cup H \cup {f})

LEMMA ClusterMapped ==
  ASSUME NEW H, NEW k, WindowApart(k, H), NEW c \in Cluster, NEW f \in Nat \ {0},
         f \notin BackingOf(k.phys) \cup H, NEW w, OwnersApart(w, BackingOf(k.phys) \cup H \cup {f}),
         NEW m, m = vmm_cluster_map([k EXCEPT !.w = w], c, f)
  PROVE  WindowApart(m, H) /\ MappedOrNot(m, k, c, f, H)
  <1> DEFINE j == [k EXCEPT !.w = w]
             r == Walk(w, vmm_cluster_virt(c), TRUE)
             Q == BackingOf(k.phys) \cup H \cup {f}
  <1>1. j = [w |-> w, phys |-> k.phys] /\ k.phys \in [Cluster -> Nat]
    BY DEF WindowApart
  <1>2. OwnersApart(r.w, Q)
    BY WalkPassed
  <1>3. m = Backed(j, r, c, f)
    BY <1>1 DEF vmm_cluster_map
  <1>4. OwnersApart(r.w, BackingOf(k.phys) \cup H)
    <2> HIDE DEF r
    <2> QED BY <1>2, OwnersFewer
  <1>5. CASE r.t = 0
    <2>1. m = [w |-> r.w, phys |-> k.phys]
      BY <1>1, <1>3, <1>5 DEF Backed
    <2>2. WindowApart(m, H)
      <3> HIDE DEF r
      <3> QED BY <1>1, <1>4, <2>1 DEF WindowApart, OwnersApart, Counted
    <2>3. m.phys = k.phys /\ OwnersApart(m.w, Q)
      <3> HIDE DEF r, Q
      <3> QED BY <1>2, <2>1
    <2> QED BY <2>2, <2>3 DEF MappedOrNot
  <1>6. CASE r.t # 0
    <2> DEFINE phys == [k.phys EXCEPT ![c] = f]
               e    == PageAt(f)
               w2   == WithEntry(r.w, r.t, vmm_cluster_virt(c)[4], e)
    <2>1. m = [w |-> w2, phys |-> phys]
      BY <1>1, <1>3, <1>6 DEF Backed, WithEntry
    <2>2. e \in PageEntryType
      BY TablesTyped
    <2>3. OwnersApart(w2, Q)
      <3> HIDE DEF r, e, Q
      <3> QED BY <1>2, <2>2, EntryWritten
    <2>4. phys \in [Cluster -> Nat] /\ \A d \in Cluster : phys[d] = IF d = c THEN f ELSE k.phys[d]
      BY <1>1
    <2> HIDE DEF w2, r, phys
    <2>5. BackingOf(phys) \subseteq BackingOf(k.phys) \cup {f}
      BY <2>4 DEF BackingOf
    <2>6. \A d \in Cluster : k.phys[d] # f
      BY DEF BackingOf
    <2>7. BackingOf(phys) \cap H = {} /\ \A a, d \in Cluster : a # d /\ phys[a] # 0 => phys[a] # phys[d]
      BY <2>4, <2>5, <2>6 DEF WindowApart
    <2>8. OwnersApart(w2, BackingOf(phys) \cup H)
      BY <2>3, <2>5, OwnersFewer
    <2>9. m.phys[c] = f
      BY <2>1, <2>4
    <2>10. WindowApart(m, H)
      <3>1. w2 \in WorkMemory /\ m \in [w : WorkMemory, phys : [Cluster -> Nat]]
        BY <2>1, <2>4, <2>8 DEF OwnersApart, Counted
      <3>2. m.w = w2 /\ m.phys = phys
        BY <2>1
      <3> QED BY <2>7, <2>8, <3>1, <3>2 DEF WindowApart
    <2> QED BY <2>9, <2>10 DEF MappedOrNot
  <1> QED BY <1>5, <1>6

LEMMA PageFresh ==
  ASSUME NEW H, NEW k, WindowApart(k, H), NEW f, f = pmm_find_free_pages(k.w, 1, pmm_total_pages), f # 0
  PROVE  /\ f \in Nat \ {0} /\ f \notin BackingOf(k.phys) \cup H
         /\ OwnersApart(Taken(k.w, {f}), BackingOf(k.phys) \cup H \cup {f})
  <1> DEFINE w == k.w
             R == BackingOf(k.phys) \cup H
  <1>1. OwnersApart(w, R) /\ Counted(w) /\ 0 \in w.bitmap /\ R \subseteq w.bitmap
    BY DEF WindowApart, OwnersApart
  <1> HIDE DEF w, R
  <1>2. f \in Nat \ {0} /\ f .. f + 1 - 1 \subseteq PageFrame \ w.bitmap
    <2>1. f = pmm_find_free_pages(w, 1, pmm_total_pages)
      BY DEF w
    <2> QED BY <1>1, <2>1, FoundFree, TotalPages
  <1>3. f \in PageFrame \ w.bitmap
    BY <1>2
  <1>4. OwnersApart(Taken(w, {f}), R \cup {f})
    BY <1>1, <1>3, PagesTaken
  <1> QED BY <1>1, <1>2, <1>3, <1>4 DEF w, R

LEMMA ClusterAllocated ==
  ASSUME NEW H, NEW k, WindowApart(k, H)
  PROVE  WindowApart(brainfs_fat_alloc_cluster(k), H)
  <1> DEFINE f == pmm_find_free_pages(k.w, 1, pmm_total_pages)
             w == Taken(k.w, {f})
             m == vmm_cluster_map([k EXCEPT !.w = w], 2, f)
  <1>1. brainfs_fat_alloc_cluster(k) = IF f = 0 THEN k ELSE m
    BY DEF brainfs_fat_alloc_cluster, ClusterWith
  <1>2. 2 \in Cluster
    BY SMAssumption DEF Cluster
  <1>3. ASSUME f # 0 PROVE WindowApart(m, H)
    <2>1. f \in Nat \ {0} /\ f \notin BackingOf(k.phys) \cup H /\ OwnersApart(w, BackingOf(k.phys) \cup H \cup {f})
      BY <1>3, PageFresh
    <2> HIDE DEF f, w, m
    <2>2. m = vmm_cluster_map([k EXCEPT !.w = w], 2, f)
      BY DEF m
    <2> QED BY <1>2, <2>1, <2>2, ClusterMapped
  <1> HIDE DEF f, m
  <1> QED BY <1>1, <1>3

LEMMA ClusterResolved ==
  ASSUME NEW H, NEW k, WindowApart(k, H), NEW c \in Cluster
  PROVE  WindowApart(vmm_cluster_resolve(k, c), H)
  <1> DEFINE f == pmm_find_free_pages(k.w, 1, pmm_total_pages)
             w == Taken(k.w, {f})
             m == vmm_cluster_map([k EXCEPT !.w = w], c, f)
             R == BackingOf(k.phys) \cup H
  <1>1. vmm_cluster_resolve(k, c) = k \/ (f # 0 /\ vmm_cluster_resolve(k, c) = Kept(m, c, f))
    BY DEF vmm_cluster_resolve, ResolvedWith
  <1>2. ASSUME f # 0 PROVE WindowApart(Kept(m, c, f), H)
    <2>1. f \in Nat \ {0} /\ f \notin R /\ OwnersApart(w, R \cup {f})
      BY <1>2, PageFresh
    <2> HIDE DEF f, w, m
    <2>2. m = vmm_cluster_map([k EXCEPT !.w = w], c, f)
      BY DEF m
    <2>3. /\ WindowApart(m, H)
          /\ m.phys[c] = f \/ (m.phys = k.phys /\ OwnersApart(m.w, R \cup {f}))
      <3>1. f \in Nat \ {0} /\ f \notin BackingOf(k.phys) \cup H /\ OwnersApart(w, BackingOf(k.phys) \cup H \cup {f})
        BY <2>1
      <3>2. WindowApart(m, H) /\ MappedOrNot(m, k, c, f, H)
        BY <2>2, <3>1, ClusterMapped
      <3> QED BY <3>2 DEF MappedOrNot
    <2>4. CASE m.phys[c] = f
      BY <2>3, <2>4 DEF Kept
    <2>5. CASE m.phys[c] # f
      <3> DEFINE v == pmm_free_pages(m.w, f, 1)
      <3>1. Kept(m, c, f) = [w |-> v, phys |-> k.phys]
        BY <2>3, <2>5 DEF Kept, WindowApart
      <3>2. f .. f + 1 - 1 = {f}
        BY <2>1
      <3>3. OwnersApart(v, (R \cup {f}) \ {f})
        <4>1. f .. f + 1 - 1 \subseteq R \cup {f} /\ 1 \in Nat
          BY <3>2
        <4> HIDE DEF R, v
        <4>2. OwnersApart(m.w, R \cup {f})
          BY <2>3, <2>5
        <4>3. OwnersApart(pmm_free_pages(m.w, f, 1), (R \cup {f}) \ (f .. f + 1 - 1))
          BY <2>1, <4>1, <4>2, PagesFreed
        <4> QED BY <3>2, <4>3 DEF v
      <3>4. OwnersApart(v, R)
        <4>1. (R \cup {f}) \ {f} = R
          BY <2>1
        <4> HIDE DEF R, v
        <4> QED BY <3>3, <4>1
      <3> HIDE DEF v
      <3> QED BY <3>1, <3>4 DEF WindowApart, OwnersApart, Counted
    <2> QED BY <2>4, <2>5
  <1> HIDE DEF f, m
  <1> QED BY <1>1, <1>2

\* The page of a cluster that is unmapped is still taken.
LEMMA ClusterUnmapped ==
  ASSUME NEW H, NEW k, WindowApart(k, H), NEW c \in Cluster, k.phys[c] # 0, NEW m, m = vmm_cluster_unmap(k, c)
  PROVE  /\ m \in [w : WorkMemory, phys : [Cluster -> Nat]]
         /\ BackingOf(m.phys) = BackingOf(k.phys) \ {k.phys[c]}
         /\ \A a, d \in Cluster : a # d /\ m.phys[a] # 0 => m.phys[a] # m.phys[d]
         /\ OwnersApart(m.w, BackingOf(k.phys) \cup H)
  <1> DEFINE w    == vmm_unmap_page(k.w, vmm_cluster_virt(c))
             phys == [k.phys EXCEPT ![c] = 0]
  <1>1. m = [w |-> w, phys |-> phys]
    BY DEF vmm_cluster_unmap
  <1>2. OwnersApart(w, BackingOf(k.phys) \cup H)
    BY PageMapped DEF WindowApart
  <1>3. phys \in [Cluster -> Nat] /\ \A d \in Cluster : phys[d] = IF d = c THEN 0 ELSE k.phys[d]
    BY DEF WindowApart
  <1> HIDE DEF w, phys
  <1>4. BackingOf(phys) = BackingOf(k.phys) \ {k.phys[c]}
    BY <1>3 DEF BackingOf, WindowApart
  <1>5. \A a, d \in Cluster : a # d /\ phys[a] # 0 => phys[a] # phys[d]
    BY <1>3 DEF WindowApart
  <1> QED BY <1>1, <1>2, <1>3, <1>4, <1>5 DEF OwnersApart, Counted

LEMMA ClusterLetGo ==
  ASSUME NEW H, NEW k, WindowApart(k, H), NEW c \in Cluster
  PROVE  WindowApart(vmm_cluster_unmap(k, c), H)
  <1>1. CASE k.phys[c] = 0
    BY <1>1 DEF vmm_cluster_unmap
  <1>2. CASE k.phys[c] # 0
    <2> DEFINE m == vmm_cluster_unmap(k, c)
    <2>1. /\ m \in [w : WorkMemory, phys : [Cluster -> Nat]]
          /\ BackingOf(m.phys) = BackingOf(k.phys) \ {k.phys[c]}
          /\ \A a, d \in Cluster : a # d /\ m.phys[a] # 0 => m.phys[a] # m.phys[d]
          /\ OwnersApart(m.w, BackingOf(k.phys) \cup H)
      BY <1>2, ClusterUnmapped
    <2> HIDE DEF m
    <2>2. OwnersApart(m.w, BackingOf(m.phys) \cup H)
      BY <2>1, OwnersFewer
    <2>3. BackingOf(m.phys) \cap H = {}
      BY <2>1 DEF WindowApart
    <2>4. WindowApart(m, H)
      BY <2>1, <2>2, <2>3 DEF WindowApart
    <2> QED BY <2>4 DEF m
  <1> QED BY <1>1, <1>2

LEMMA ChainFreed ==
  ASSUME NEW H, NEW k, WindowApart(k, H), NEW c \in Cluster
  PROVE  WindowApart(brainfs_fat_free_chain(k, c), H)
  <1>1. CASE c < 2 \/ k.phys[c] = 0
    BY <1>1 DEF brainfs_fat_free_chain
  <1>2. CASE ~(c < 2 \/ k.phys[c] = 0)
    <2> DEFINE m == vmm_cluster_unmap(k, c)
               f == k.phys[c]
               R == BackingOf(k.phys) \cup H
               v == pmm_free_pages(m.w, f, 1)
    <2>1. /\ m \in [w : WorkMemory, phys : [Cluster -> Nat]]
          /\ BackingOf(m.phys) = BackingOf(k.phys) \ {f}
          /\ \A a, d \in Cluster : a # d /\ m.phys[a] # 0 => m.phys[a] # m.phys[d]
          /\ OwnersApart(m.w, R)
      BY <1>2, ClusterUnmapped
    <2>2. brainfs_fat_free_chain(k, c) = [m EXCEPT !.w = v]
      BY <1>2 DEF brainfs_fat_free_chain
    <2>3. f \in Nat \ {0} /\ f \in BackingOf(k.phys)
      BY <1>2 DEF WindowApart, BackingOf
    <2> HIDE DEF m, v
    <2>4. [m EXCEPT !.w = v] = [w |-> v, phys |-> m.phys]
      BY <2>1
    <2>5. OwnersApart(v, R \ {f})
      <3>1. f .. f + 1 - 1 = {f}
        BY <2>3
      <3> HIDE DEF f
      <3>2. f .. f + 1 - 1 \subseteq R /\ 1 \in Nat
        BY <2>3, <3>1
      <3>3. OwnersApart(pmm_free_pages(m.w, f, 1), R \ (f .. f + 1 - 1))
        <4> HIDE DEF R
        <4> QED BY <2>1, <2>3, <3>2, PagesFreed
      <3> QED BY <3>1, <3>3 DEF v
    <2>6. BackingOf(m.phys) \cup H = R \ {f} /\ BackingOf(m.phys) \cap H = {}
      BY <2>1, <2>3 DEF WindowApart
    <2> HIDE DEF R, f
    <2>7. v \in WorkMemory /\ OwnersApart(v, BackingOf(m.phys) \cup H)
      BY <2>5, <2>6 DEF OwnersApart, Counted
    <2> QED BY <2>1, <2>2, <2>4, <2>6, <2>7 DEF WindowApart
  <1> QED BY <1>1, <1>2

(***************************************************************************)
(* What the boot leaves: pmm_init has the tables of long mode reserved     *)
(* whatever the regions of the map are, and vmm_init adds tables only.     *)
(***************************************************************************)
NoTables == {w \in WorkMemory : Counted(w) /\ w.mem = << >>}
Reserved3(w) == {1, 2, 3} \subseteq w.bitmap

LEMMA RangesCounted ==
  ASSUME NEW w \in NoTables, NEW base \in Nat, NEW len \in Nat
  PROVE  /\ pmm_reserve_range(w, base, len) \in NoTables /\ w.bitmap \subseteq pmm_reserve_range(w, base, len).bitmap
         /\ pmm_free_range(w, base, len) \in NoTables
  <1> DEFINE Up(a) == SMMin(a, pmm_total_pages) - 1
  <1>0. \A a \in Nat : Up(a) \in Int /\ Up(a) <= pmm_total_pages - 1
    BY TotalPages DEF SMMin
  <1>1. \A a \in Nat, b \in Nat : a .. Up(b) \in SUBSET PageFrame
    BY <1>0, TotalPages DEF PageFrame
  <1>2. SM_PAGE \in Nat \ {0}
    BY SMAssumption
  <1>3. /\ base \div SM_PAGE \in Nat /\ (base + len) \div SM_PAGE \in Nat
        /\ (base + SM_PAGE - 1) \div SM_PAGE \in Nat /\ (base + len + SM_PAGE - 1) \div SM_PAGE \in Nat
    <2>1. base + len \in Nat /\ base + SM_PAGE - 1 \in Nat /\ base + len + SM_PAGE - 1 \in Nat
      BY <1>2
    <2>2. \A a \in Nat : a \div SM_PAGE \in Nat
      BY <1>2
    <2> QED BY <2>1, <2>2
  <1>4. w \in WorkMemory /\ Counted(w) /\ w.mem = << >>
    BY DEF NoTables
  <1>5. pmm_reserve_range(w, base, len) \in NoTables /\ w.bitmap \subseteq pmm_reserve_range(w, base, len).bitmap
    <2> DEFINE S == (base \div SM_PAGE) .. Up((base + len + SM_PAGE - 1) \div SM_PAGE)
               v == [w EXCEPT !.bitmap = @ \cup S, !.free = @ - Cardinality(S \ w.bitmap)]
    <2>1. S \in SUBSET PageFrame
      BY <1>1, <1>3
    <2>2. pmm_reserve_range(w, base, len) = v
      BY DEF pmm_reserve_range
    <2> HIDE DEF S
    <2>3. Counted(v) /\ v.mem = << >> /\ v.bitmap = w.bitmap \cup S
      BY <1>4, <2>1, CountTaken DEF WorkMemory
    <2> QED BY <2>2, <2>3 DEF NoTables, Counted
  <1>6. pmm_free_range(w, base, len) \in NoTables
    <2> DEFINE S == ((base + SM_PAGE - 1) \div SM_PAGE) .. Up((base + len) \div SM_PAGE)
               v == [w EXCEPT !.bitmap = @ \ S, !.free = @ + Cardinality(S \cap w.bitmap)]
    <2>1. S \in SUBSET PageFrame
      BY <1>1, <1>3
    <2>2. pmm_free_range(w, base, len) = v
      BY DEF pmm_free_range
    <2> HIDE DEF S
    <2>3. Counted(v) /\ v.mem = << >>
      BY <1>4, <2>1, CountFreed DEF WorkMemory
    <2> QED BY <2>2, <2>3 DEF NoTables, Counted
  <1> QED BY <1>5, <1>6

\* The region that holds the first tables reserves their pages.
LEMMA FirstTablesReserved ==
  ASSUME NEW w \in NoTables, NEW base \in Nat, NEW len \in Nat, base \div SM_PAGE <= 1,
         (base + len + SM_PAGE - 1) \div SM_PAGE >= 4
  PROVE  Reserved3(pmm_reserve_range(w, base, len))
  <1> DEFINE a == base \div SM_PAGE
             b == (base + len + SM_PAGE - 1) \div SM_PAGE
             S == a .. SMMin(b, pmm_total_pages) - 1
  <1>1. SM_PAGE \in Nat \ {0}
    BY SMAssumption
  <1>2. a \in Nat /\ a <= 1 /\ b \in Nat /\ b >= 4
    <2>1. base + len + SM_PAGE - 1 \in Nat
      BY <1>1
    <2> QED BY <1>1, <2>1
  <1>3. pmm_reserve_range(w, base, len).bitmap = w.bitmap \cup S
    BY DEF pmm_reserve_range, NoTables, WorkMemory
  <1> HIDE DEF a, b
  <1>4. {1, 2, 3} \subseteq S
    BY <1>2, TotalPages DEF SMMin
  <1> QED BY <1>3, <1>4 DEF Reserved3

\* The rounds of a loop one by one.
Unfolded(g, S, start, step, n) ==
  /\ g = [k \in 0 .. n |-> g[k]]
  /\ g[0] = start /\ \A k \in 1 .. n : g[k] = step[<<g[k - 1], k>>]
  /\ \A k \in 0 .. n : g[k] \in S

LEMMA RoundsUnfold ==
  ASSUME NEW S, NEW start \in S, NEW n \in Nat, NEW step, \A x \in S : \A k \in 1 .. n : step[<<x, k>>] \in S
  PROVE  \E g : Unfolded(g, S, start, step, n)
  <1>1. PICK e : Rounds(e, start, step, n) /\ \A k \in 0 .. n : e[k] \in S
    BY RoundsExist
  <1> DEFINE body(k) == IF k = 0 THEN start ELSE step[<<e[k - 1], k>>]
  <1>2. e = [k \in 0 .. n |-> body(k)]
    BY <1>1 DEF Rounds
  <1>3. e = [k \in 0 .. n |-> e[k]] /\ \A k \in 0 .. n : e[k] = body(k)
    <2> HIDE DEF body
    <2> QED BY <1>2
  <1>4. 0 \in 0 .. n /\ \A k \in 1 .. n : k \in 0 .. n /\ k # 0
    OBVIOUS
  <1>5. e[0] = start
    BY <1>3, <1>4
  <1>6. ASSUME NEW k \in 1 .. n PROVE e[k] = step[<<e[k - 1], k>>]
    BY <1>3, <1>4
  <1> HIDE DEF body
  <1>7. Unfolded(e, S, start, step, n)
    BY <1>1, <1>3, <1>5, <1>6 DEF Unfolded
  <1> QED BY <1>7

LEMMA RegionsCounted ==
  ASSUME NEW start \in NoTables
  PROVE  LET n == Len(SM_E820)
             next(w, r) == IF r.usable THEN pmm_free_range(w, r.base, r.len) ELSE pmm_reserve_range(w, r.base, r.len)
             e[k \in 0 .. n] == IF k = 0 THEN start ELSE next(e[k - 1], SM_E820[k])
         IN  e[n] \in NoTables
  <1> DEFINE n       == Len(SM_E820)
             next(w, r) == IF r.usable THEN pmm_free_range(w, r.base, r.len) ELSE pmm_reserve_range(w, r.base, r.len)
             S       == NoTables
             Is(g)   == g = [k \in 0 .. n |-> IF k = 0 THEN start ELSE next(g[k - 1], SM_E820[k])]
             step    == [y \in S \X (1 .. n) |-> next(y[1], SM_E820[y[2]])]
             e       == CHOOSE g : Is(g)
  <1>1. n \in Nat /\ \A k \in 1 .. n : SM_E820[k] \in [base : Nat, len : Nat, usable : BOOLEAN]
    BY SMAssumption, LenProperties, ElementOfSeq
  <1>2. \A x \in S, k \in 1 .. n : step[<<x, k>>] = next(x, SM_E820[k]) /\ next(x, SM_E820[k]) \in S
    <2> SUFFICES ASSUME NEW x \in S, NEW k \in 1 .. n
                 PROVE  step[<<x, k>>] = next(x, SM_E820[k]) /\ next(x, SM_E820[k]) \in S
      OBVIOUS
    <2>1. SM_E820[k].base \in Nat /\ SM_E820[k].len \in Nat
      BY <1>1
    <2>2. next(x, SM_E820[k]) \in S
      BY <2>1, RangesCounted
    <2>3. <<x, k>> \in S \X (1 .. n)
      OBVIOUS
    <2> HIDE DEF next, n, S
    <2> QED BY <2>2, <2>3
  <1> HIDE DEF next, n, S
  <1>3. \E g : Is(g)
    <2>1. start \in S
      BY DEF S
    <2>2. \A x \in S : \A k \in 1 .. n : step[<<x, k>>] \in S
      BY <1>2
    <2>3. PICK g : /\ g = [k \in 0 .. n |-> g[k]]
                   /\ g[0] = start /\ \A k \in 1 .. n : g[k] = step[<<g[k - 1], k>>]
                   /\ \A k \in 0 .. n : g[k] \in S
      <3> HIDE DEF step, Is, e
      <3>1. \E g : Unfolded(g, S, start, step, n)
        BY <1>1, <2>1, <2>2, RoundsUnfold
      <3> QED BY <3>1 DEF Unfolded
    <2> HIDE DEF step
    <2>4. ASSUME NEW k \in 0 .. n PROVE g[k] = IF k = 0 THEN start ELSE next(g[k - 1], SM_E820[k])
      <3>1. CASE k = 0
        BY <2>3, <3>1
      <3>2. CASE k # 0
        <4>1. k \in 1 .. n /\ k - 1 \in 0 .. n
          BY <1>1, <3>2
        <4> QED BY <1>2, <2>3, <3>2, <4>1
      <3> QED BY <3>1, <3>2
    <2>5. [k \in 0 .. n |-> g[k]] = [k \in 0 .. n |-> IF k = 0 THEN start ELSE next(g[k - 1], SM_E820[k])]
      BY <2>4
    <2> QED BY <2>3, <2>5
  <1>4. Is(e)
    <2> HIDE DEF Is
    <2> QED BY <1>3
  <1> HIDE DEF e
  <1>5. e[0] \in S /\ \A k \in 1 .. n : e[k - 1] \in S => e[k] \in S
    <2>1. e[0] = start
      BY <1>1, <1>4
    <2>2. ASSUME NEW k \in 1 .. n PROVE e[k] = next(e[k - 1], SM_E820[k])
      BY <1>1, <1>4
    <2> QED BY <1>2, <2>1, <2>2 DEF S
  <1>6. e[n] \in S
    BY <1>1, <1>5, LoopStays
  <1> QED BY <1>6 DEF e, n, S, next

LEMMA FixedCounted ==
  ASSUME NEW start \in NoTables
  PROVE  LET n == Len(SM_FIXED)
             e[k \in 0 .. n] == IF k = 0 THEN start ELSE pmm_reserve_range(e[k - 1], SM_FIXED[k][1], SM_FIXED[k][2])
         IN  e[n] \in NoTables /\ Reserved3(e[n])
  <1> DEFINE n       == Len(SM_FIXED)
             next(w, r) == pmm_reserve_range(w, r[1], r[2])
             S       == NoTables
             Is(g)   == g = [k \in 0 .. n |-> IF k = 0 THEN start ELSE next(g[k - 1], SM_FIXED[k])]
             step    == [y \in S \X (1 .. n) |-> next(y[1], SM_FIXED[y[2]])]
             e       == CHOOSE g : Is(g)
  <1>1. n \in Nat /\ DOMAIN SM_FIXED = 1 .. n /\ \A k \in 1 .. n : SM_FIXED[k][1] \in Nat /\ SM_FIXED[k][2] \in Nat
    <2>1. SM_FIXED \in Seq(Nat \X Nat)
      BY SMAssumption
    <2>2. n \in Nat /\ DOMAIN SM_FIXED = 1 .. n
      BY <2>1
    <2>3. \A k \in 1 .. n : SM_FIXED[k] \in Nat \X Nat
      BY <2>1, ElementOfSeq
    <2> HIDE DEF n
    <2> QED BY <2>2, <2>3
  <1>2. \A x \in S, k \in 1 .. n : /\ step[<<x, k>>] = next(x, SM_FIXED[k]) /\ next(x, SM_FIXED[k]) \in S
                                   /\ x.bitmap \subseteq next(x, SM_FIXED[k]).bitmap
    <2> SUFFICES ASSUME NEW x \in S, NEW k \in 1 .. n
                 PROVE  /\ step[<<x, k>>] = next(x, SM_FIXED[k]) /\ next(x, SM_FIXED[k]) \in S
                        /\ x.bitmap \subseteq next(x, SM_FIXED[k]).bitmap
      OBVIOUS
    <2>1. SM_FIXED[k][1] \in Nat /\ SM_FIXED[k][2] \in Nat
      BY <1>1
    <2>2. next(x, SM_FIXED[k]) \in S /\ x.bitmap \subseteq next(x, SM_FIXED[k]).bitmap
      BY <2>1, RangesCounted
    <2>3. <<x, k>> \in S \X (1 .. n)
      OBVIOUS
    <2> HIDE DEF next, n, S
    <2> QED BY <2>2, <2>3
  <1>3. PICK i \in 1 .. n : \A x \in S : Reserved3(next(x, SM_FIXED[i]))
    <2>1. PICK i \in 1 .. n : /\ SM_FIXED[i][1] \div SM_PAGE <= 1
                              /\ (SM_FIXED[i][1] + SM_FIXED[i][2] + SM_PAGE - 1) \div SM_PAGE >= 4
      BY <1>1, SMAssumption
    <2> QED BY <1>1, <2>1, FirstTablesReserved
  <1> HIDE DEF next, n, S
  <1>4. \E g : Is(g)
    <2>1. start \in S
      BY DEF S
    <2>2. \A x \in S : \A k \in 1 .. n : step[<<x, k>>] \in S
      BY <1>2
    <2>3. PICK g : /\ g = [k \in 0 .. n |-> g[k]]
                   /\ g[0] = start /\ \A k \in 1 .. n : g[k] = step[<<g[k - 1], k>>]
                   /\ \A k \in 0 .. n : g[k] \in S
      <3> HIDE DEF step, Is, e
      <3>1. \E g : Unfolded(g, S, start, step, n)
        BY <1>1, <2>1, <2>2, RoundsUnfold
      <3> QED BY <3>1 DEF Unfolded
    <2> HIDE DEF step
    <2>4. ASSUME NEW k \in 0 .. n PROVE g[k] = IF k = 0 THEN start ELSE next(g[k - 1], SM_FIXED[k])
      <3>1. CASE k = 0
        BY <2>3, <3>1
      <3>2. CASE k # 0
        <4>1. k \in 1 .. n /\ k - 1 \in 0 .. n
          BY <1>1, <3>2
        <4> QED BY <1>2, <2>3, <3>2, <4>1
      <3> QED BY <3>1, <3>2
    <2>5. [k \in 0 .. n |-> g[k]] = [k \in 0 .. n |-> IF k = 0 THEN start ELSE next(g[k - 1], SM_FIXED[k])]
      BY <2>4
    <2> QED BY <2>3, <2>5
  <1>5. Is(e)
    <2> HIDE DEF Is
    <2> QED BY <1>4
  <1> HIDE DEF e
  <1>6. e[0] = start /\ \A k \in 1 .. n : e[k] = next(e[k - 1], SM_FIXED[k])
    <2>1. e[0] = start
      BY <1>1, <1>5
    <2>2. ASSUME NEW k \in 1 .. n PROVE e[k] = next(e[k - 1], SM_FIXED[k])
      BY <1>1, <1>5
    <2> QED BY <2>1, <2>2
  <1>7. \A k \in 0 .. n : e[k] \in S
    <2>1. e[0] \in S /\ \A k \in 1 .. n : e[k - 1] \in S => e[k] \in S
      BY <1>2, <1>6 DEF S
    <2> QED BY <1>1, <2>1, LoopStays
  <1> DEFINE Behind == {x \in S : Reserved3(x)}
             late  == [k \in 0 .. n - i |-> e[i + k]]
  <1>8. e[n] \in Behind
    <2>1. n - i \in Nat /\ i \in 1 .. n /\ late[0] = e[i]
      BY <1>1
    <2>2. e[i] \in Behind
      <3>1. i - 1 \in 0 .. n /\ i \in 0 .. n
        BY <1>1
      <3> QED BY <1>3, <1>6, <1>7, <3>1
    <2>3. ASSUME NEW k \in 1 .. n - i, late[k - 1] \in Behind PROVE late[k] \in Behind
      <3>1. i + k \in 1 .. n /\ k - 1 \in 0 .. n - i /\ i + k - 1 \in 0 .. n /\ k \in 0 .. n - i /\ i + (k - 1) = i + k - 1
        BY <1>1, <2>1
      <3>2. late[k - 1] = e[i + k - 1] /\ late[k] = e[i + k] /\ e[i + k] = next(e[i + k - 1], SM_FIXED[i + k])
        BY <1>6, <3>1
      <3>3. e[i + k - 1].bitmap \subseteq e[i + k].bitmap /\ e[i + k] \in S
        BY <1>2, <1>7, <3>1, <3>2
      <3> HIDE DEF late
      <3> QED BY <2>3, <3>2, <3>3 DEF Reserved3
    <2>4. \A k \in 0 .. n - i : late[k] \in Behind
      <3> HIDE DEF late, Behind
      <3> QED BY <2>1, <2>2, <2>3, LoopStays
    <2>5. n - i \in 0 .. n - i /\ i + (n - i) = n
      BY <1>1, <2>1
    <2>6. late[n - i] = e[n]
      BY <2>5
    <2> HIDE DEF late
    <2> QED BY <2>4, <2>5, <2>6
  <1> QED BY <1>8 DEF e, n, S, next

LEMMA BootBitmap == pmm_init \in NoTables /\ Reserved3(pmm_init) /\ 0 \in pmm_init.bitmap
  <1> DEFINE none == [bitmap |-> PageFrame, free |-> 0, mem |-> << >>]
             n1 == Len(SM_E820)
             n2 == Len(SM_FIXED)
             next(w, r) == IF r.usable THEN pmm_free_range(w, r.base, r.len) ELSE pmm_reserve_range(w, r.base, r.len)
             regions == CHOOSE e : e = [k \in 0 .. n1 |-> IF k = 0 THEN none ELSE next(e[k - 1], SM_E820[k])]
             a == regions[n1]
             fixed == CHOOSE e : e = [k \in 0 .. n2 |-> IF k = 0 THEN a
                                                        ELSE pmm_reserve_range(e[k - 1], SM_FIXED[k][1], SM_FIXED[k][2])]
             b == fixed[n2]
  <1>1. none \in NoTables
    <2>1. PageFrame \ PageFrame = {} /\ Cardinality({}) = 0
      BY FS_EmptySet
    <2>2. << >> \in [{} -> PageTableType] /\ {} \in SUBSET PageFrame
      BY PageFrames
    <2>3. none \in WorkMemory
      BY <2>2 DEF WorkMemory
    <2> QED BY <2>1, <2>3 DEF NoTables, Counted
  <1>2. a \in NoTables
    <2> HIDE DEF none
    <2> QED BY <1>1, RegionsCounted
  <1>3. b \in NoTables /\ Reserved3(b)
    <2> HIDE DEF a
    <2> QED BY <1>2, FixedCounted
  <1>4. pmm_init = pmm_reserve_range(b, 0, 1)
    BY DEF pmm_init
  <1> HIDE DEF b
  <1>5. pmm_init \in NoTables /\ b.bitmap \subseteq pmm_init.bitmap
    BY <1>3, <1>4, RangesCounted
  <1>6. 0 \in pmm_init.bitmap
    <2> DEFINE P == SM_PAGE
               S == (0 \div P) .. SMMin((0 + 1 + P - 1) \div P, pmm_total_pages) - 1
    <2>1. P \in Nat \ {0}
      BY SMAssumption
    <2>2. pmm_init.bitmap = b.bitmap \cup S
      BY <1>3, <1>4 DEF pmm_reserve_range, NoTables, WorkMemory
    <2> HIDE DEF P
    <2>3. 0 \div P = 0 /\ (0 + 1 + P - 1) \div P >= 1 /\ (0 + 1 + P - 1) \div P \in Nat
      <3> DEFINE q == P \div P
      <3>1. q \in Nat /\ P < P * q + P
        BY <2>1
      <3>2. 0 \div P = 0 /\ 0 + 1 + P - 1 = P
        BY <2>1
      <3> HIDE DEF q
      <3>3. q # 0
        BY <2>1, <3>1
      <3> QED BY <3>1, <3>2, <3>3 DEF q
    <2>4. 0 \in S
      BY <2>3, TotalPages DEF SMMin
    <2> QED BY <2>2, <2>4
  <1> QED BY <1>3, <1>5, <1>6 DEF Reserved3

LEMMA LongMode ==
  ASSUME NEW w \in NoTables, Reserved3(w), 0 \in w.bitmap
  PROVE  OwnersApart(enter_long_mode(w), {})
  <1> DEFINE T(x) == [EmptyTable EXCEPT ![0] = IF x = vmm_kpd THEN [PageAt(0) EXCEPT !.huge = TRUE] ELSE PageAt(x + 1)]
             m    == [x \in {vmm_pml4, vmm_kpdpt, vmm_kpd} |-> T(x)]
             v    == [w EXCEPT !.mem = m]
  <1>1. {vmm_pml4, vmm_kpdpt, vmm_kpd} = {1, 2, 3}
    BY DEF vmm_pml4, vmm_kpdpt, vmm_kpd
  <1>2. \A x \in {1, 2, 3} : T(x) \in PageTableType
    <2> SUFFICES ASSUME NEW x \in {1, 2, 3} PROVE T(x) \in PageTableType
      OBVIOUS
    <2>1. x + 1 \in Nat
      OBVIOUS
    <2>2. PageAt(x + 1) \in PageEntryType /\ PageAt(0) \in PageEntryType
      BY <2>1, TablesTyped
    <2>3. [PageAt(0) EXCEPT !.huge = TRUE] \in PageEntryType
      BY DEF PageAt, PageEntryType
    <2> DEFINE e == IF x = vmm_kpd THEN [PageAt(0) EXCEPT !.huge = TRUE] ELSE PageAt(x + 1)
    <2>4. e \in PageEntryType
      BY <2>2, <2>3
    <2> HIDE DEF e
    <2>5. [EmptyTable EXCEPT ![0] = e] \in PageTableType
      BY <2>4, TablesTyped DEF PageTableType
    <2> QED BY <2>5 DEF e
  <1>3. m \in [{1, 2, 3} -> PageTableType]
    <2> HIDE DEF T
    <2> QED BY <1>1, <1>2
  <1> HIDE DEF T, m
  <1>4. enter_long_mode(w) = v
    BY DEF enter_long_mode, m, T
  <1>5. w \in WorkMemory /\ Counted(w)
    BY DEF NoTables
  <1>6. v = [bitmap |-> w.bitmap, free |-> w.free, mem |-> m]
    BY <1>5, WorkRecord
  <1>7. v \in WorkMemory
    BY <1>3, <1>5, <1>6, WorkRecord, PageFrames DEF WorkMemory
  <1> HIDE DEF v
  <1>8. DOMAIN v.mem \subseteq v.bitmap
    BY <1>3, <1>6 DEF Reserved3
  <1>9. v.bitmap = w.bitmap /\ v.free = w.free
    BY <1>6
  <1> QED BY <1>4, <1>5, <1>7, <1>8, <1>9 DEF OwnersApart, Counted

\* A table that was just taken is filled and linked.
LEMMA TableLinked ==
  ASSUME NEW R, NEW n \in Results(R), NEW f \in Nat, NEW t, NEW idx, NEW r,
         r = [n EXCEPT !.w.mem[n.t] = Small(f), !.w.mem[t][idx] = PageAt(n.t)]
  PROVE  r \in Results(R)
  <1> DEFINE table == Small(f)
             e     == PageAt(n.t)
             w1    == WithTable(n.w, n.t, table)
             w2    == WithEntry(w1, t, idx, e)
  <1>1. n \in [w : WorkMemory, t : Nat] /\ OwnersApart(n.w, R)
    BY DEF Results
  <1>2. table \in PageTableType /\ e \in PageEntryType
    BY <1>1, TablesTyped
  <1>3. r = [w |-> w2, t |-> n.t]
    BY <1>1 DEF WithTable, WithEntry
  <1> HIDE DEF table, e
  <1>4. OwnersApart(w1, R)
    BY <1>1, <1>2, TableWritten
  <1> HIDE DEF w1
  <1>5. OwnersApart(w2, R)
    BY <1>2, <1>4, EntryWritten
  <1> HIDE DEF w2
  <1> QED BY <1>1, <1>3, <1>5 DEF Results, OwnersApart, Counted

LEMMA IdentityStepped ==
  ASSUME NEW R, NEW r \in Results(R), NEW g \in Nat, NEW m \in Nat
  PROVE  IdentityStep(r, <<g, m>>) \in Results(R) /\ FirstTable(r) \in Results(R)
  <1> DEFINE pd == r.w.mem[r.w.mem[vmm_pml4][0].frame][0].frame
             n  == vmm_alloc_table(r.w)
             f  == (g * SM_N + m) * SM_N
             t  == [n EXCEPT !.w.mem[n.t] = Small(f), !.w.mem[pd][g] = PageAt(n.t)]
             u  == [r EXCEPT !.w.mem[r.t] = Small(0), !.w.mem[vmm_kpd][0] = PageAt(r.t)]
  <1>1. n \in Results(R)
    BY TableAllocated DEF Results
  <1>2. f \in Nat
    <2>1. SM_N \in Nat
      BY SMAssumption
    <2> QED BY <2>1
  <1>3. IdentityStep(r, <<g, m>>) = r \/ IdentityStep(r, <<g, m>>) = n \/ IdentityStep(r, <<g, m>>) = t
    BY DEF IdentityStep, Replaced
  <1>4. t \in Results(R)
    <2> HIDE DEF n, f, pd
    <2> QED BY <1>1, <1>2, TableLinked
  <1>5. FirstTable(r) = r \/ FirstTable(r) = u
    BY DEF FirstTable
  <1>6. u \in Results(R)
    BY TableLinked
  <1> HIDE DEF n, t, u
  <1> QED BY <1>1, <1>3, <1>4, <1>5, <1>6

LEMMA KernelLinked ==
  ASSUME NEW R, NEW c \in Results(R)
  PROVE  OwnersApart(KernelMapped(c).w, R)
  <1> DEFINE d == vmm_get_table(c.w, vmm_pml4, SM_KERNEL[1], TRUE)
             e == TableBelow(d, SM_KERNEL[1], TRUE)
             f == vmm_alloc_table(e.w)
             g == [f EXCEPT !.w.mem[f.t] = Small(0), !.w.mem[e.t][SM_KERNEL[2]] = PageAt(f.t)]
  <1>1. OwnersApart(d.w, R)
    BY LevelPassed DEF Results
  <1>2. OwnersApart(e.w, R)
    <2> HIDE DEF d
    <2> QED BY <1>1, LevelPassed DEF TableBelow
  <1>3. f \in Results(R)
    <2> HIDE DEF e
    <2> QED BY <1>2, TableAllocated
  <1>4. KernelMapped(c) = c \/ KernelMapped(c) = e \/ KernelMapped(c) = f \/ KernelMapped(c) = g
    BY DEF KernelMapped, KernelBelow, KernelTable
  <1>5. g \in Results(R)
    <2> HIDE DEF f, e
    <2> QED BY <1>3, TableLinked
  <1> HIDE DEF e, f, g
  <1> QED BY <1>2, <1>3, <1>4, <1>5 DEF Results

\* The identity mapping, however far it gets before pages run out, keeps what
\* each of its steps keeps.
LEMMA IdentityMapped ==
  ASSUME NEW S, NEW start \in S, \A r \in S : \A g, m \in Nat : IdentityStep(r, <<g, m>>) \in S
  PROVE  LET n == SM_GIGABYTES * SM_N
             e[k \in 0 .. n] == IF k = 0 THEN start
                                ELSE IdentityStep(e[k - 1], <<(k - 1) \div SM_N, (k - 1) % SM_N>>)
         IN  e[n] \in S
  <1> DEFINE n       == SM_GIGABYTES * SM_N
             next(r, k) == IdentityStep(r, <<(k - 1) \div SM_N, (k - 1) % SM_N>>)
             Is(g)   == g = [k \in 0 .. n |-> IF k = 0 THEN start ELSE next(g[k - 1], k)]
             step    == [y \in S \X (1 .. n) |-> next(y[1], y[2])]
             e       == CHOOSE g : Is(g)
  <1>1. n \in Nat
    <2>1. SM_N \in Nat /\ SM_GIGABYTES \in Nat
      BY SMAssumption
    <2> QED BY <2>1
  <1>2. \A x \in S, k \in 1 .. n : step[<<x, k>>] = next(x, k) /\ next(x, k) \in S
    <2> SUFFICES ASSUME NEW x \in S, NEW k \in 1 .. n
                 PROVE  step[<<x, k>>] = next(x, k) /\ next(x, k) \in S
      OBVIOUS
    <2>1. (k - 1) \div SM_N \in Nat /\ (k - 1) % SM_N \in Nat
      <3>1. SM_N \in Nat \ {0} /\ k - 1 \in Nat
        BY <1>1, SMAssumption
      <3> HIDE DEF n
      <3> QED BY <3>1
    <2>2. next(x, k) \in S
      <3> HIDE DEF n
      <3> QED BY <2>1
    <2>3. <<x, k>> \in S \X (1 .. n)
      OBVIOUS
    <2> HIDE DEF next, n
    <2> QED BY <2>2, <2>3
  <1> HIDE DEF next, n
  <1>3. \E g : Is(g)
    <2>1. start \in S
      OBVIOUS
    <2>2. \A x \in S : \A k \in 1 .. n : step[<<x, k>>] \in S
      BY <1>2
    <2>3. PICK g : /\ g = [k \in 0 .. n |-> g[k]]
                   /\ g[0] = start /\ \A k \in 1 .. n : g[k] = step[<<g[k - 1], k>>]
                   /\ \A k \in 0 .. n : g[k] \in S
      <3> HIDE DEF step, Is, e
      <3>1. \E g : Unfolded(g, S, start, step, n)
        BY <1>1, <2>1, <2>2, RoundsUnfold
      <3> QED BY <3>1 DEF Unfolded
    <2> HIDE DEF step
    <2>4. ASSUME NEW k \in 0 .. n PROVE g[k] = IF k = 0 THEN start ELSE next(g[k - 1], k)
      <3>1. CASE k = 0
        BY <2>3, <3>1
      <3>2. CASE k # 0
        <4>1. k \in 1 .. n /\ k - 1 \in 0 .. n
          BY <1>1, <3>2
        <4> QED BY <1>2, <2>3, <3>2, <4>1
      <3> QED BY <3>1, <3>2
    <2>5. [k \in 0 .. n |-> g[k]] = [k \in 0 .. n |-> IF k = 0 THEN start ELSE next(g[k - 1], k)]
      BY <2>4
    <2> QED BY <2>3, <2>5
  <1>4. Is(e)
    <2> HIDE DEF Is
    <2> QED BY <1>3
  <1> HIDE DEF e
  <1>5. e[0] \in S /\ \A k \in 1 .. n : e[k - 1] \in S => e[k] \in S
    <2>1. e[0] = start
      BY <1>1, <1>4
    <2>2. ASSUME NEW k \in 1 .. n PROVE e[k] = next(e[k - 1], k)
      BY <1>1, <1>4
    <2> QED BY <1>2, <2>1, <2>2
  <1>6. e[n] \in S
    BY <1>1, <1>5, LoopStays
  <1> QED BY <1>6 DEF e, n, next

LEMMA PagingStarted ==
  ASSUME NEW w \in NoTables, Reserved3(w), 0 \in w.bitmap
  PROVE  OwnersApart(vmm_init(enter_long_mode(w)).w, {})
  <1> DEFINE R == {}
             v == enter_long_mode(w)
             a == vmm_alloc_table(v)
             start == FirstTable(a)
             n == SM_GIGABYTES * SM_N
             e == CHOOSE g : g = [k \in 0 .. n |-> IF k = 0 THEN start
                              ELSE IdentityStep(g[k - 1], <<(k - 1) \div SM_N, (k - 1) % SM_N>>)]
             c == e[n]
  <1> HIDE DEF R
  <1>1. OwnersApart(v, R)
    BY LongMode DEF R
  <1> HIDE DEF v
  <1>2. a \in Results(R)
    BY <1>1, TableAllocated
  <1>3. start \in Results(R)
    <2> HIDE DEF a
    <2> QED BY <1>2, IdentityStepped
  <1>4. c \in Results(R)
    <2> HIDE DEF start
    <2>1. \A r \in Results(R) : \A g, m \in Nat : IdentityStep(r, <<g, m>>) \in Results(R)
      BY IdentityStepped
    <2> QED BY <1>3, <2>1, IdentityMapped
  <1>5. vmm_init(v) = KernelMapped(c)
    BY DEF vmm_init
  <1> HIDE DEF c
  <1>6. OwnersApart(KernelMapped(c).w, R)
    BY <1>4, KernelLinked
  <1> QED BY <1>5, <1>6 DEF R, v

\* brainfs_umount keeps what vmm_cluster_unmap keeps.
LEMMA WindowLetGo ==
  ASSUME NEW S, NEW start \in S, \A k \in S : \A c \in Cluster : vmm_cluster_unmap(k, c) \in S
  PROVE  LET n == SM_CLUSTERS
             e[k \in 0 .. n] == IF k = 0 THEN start
                                ELSE IF k - 1 < 2 THEN e[k - 1] ELSE vmm_cluster_unmap(e[k - 1], k - 1)
         IN  e[n] \in S
  <1> DEFINE n       == SM_CLUSTERS
             next(r, k) == IF k - 1 < 2 THEN r ELSE vmm_cluster_unmap(r, k - 1)
             Is(g)   == g = [k \in 0 .. n |-> IF k = 0 THEN start ELSE next(g[k - 1], k)]
             step    == [y \in S \X (1 .. n) |-> next(y[1], y[2])]
             e       == CHOOSE g : Is(g)
  <1>1. n \in Nat
    BY SMAssumption
  <1>2. \A x \in S, k \in 1 .. n : step[<<x, k>>] = next(x, k) /\ next(x, k) \in S
    <2> SUFFICES ASSUME NEW x \in S, NEW k \in 1 .. n
                 PROVE  step[<<x, k>>] = next(x, k) /\ next(x, k) \in S
      OBVIOUS
    <2>1. k - 1 \in Cluster
      BY <1>1 DEF Cluster
    <2>2. next(x, k) \in S
      BY <2>1
    <2>3. <<x, k>> \in S \X (1 .. n)
      OBVIOUS
    <2> HIDE DEF next, n
    <2> QED BY <2>2, <2>3
  <1> HIDE DEF next, n
  <1>3. \E g : Is(g)
    <2>2. \A x \in S : \A k \in 1 .. n : step[<<x, k>>] \in S
      BY <1>2
    <2>3. PICK g : /\ g = [k \in 0 .. n |-> g[k]]
                   /\ g[0] = start /\ \A k \in 1 .. n : g[k] = step[<<g[k - 1], k>>]
                   /\ \A k \in 0 .. n : g[k] \in S
      <3> HIDE DEF step, Is, e
      <3>1. \E g : Unfolded(g, S, start, step, n)
        BY <1>1, <2>2, RoundsUnfold
      <3> QED BY <3>1 DEF Unfolded
    <2> HIDE DEF step
    <2>4. ASSUME NEW k \in 0 .. n PROVE g[k] = IF k = 0 THEN start ELSE next(g[k - 1], k)
      <3>1. CASE k = 0
        BY <2>3, <3>1
      <3>2. CASE k # 0
        <4>1. k \in 1 .. n /\ k - 1 \in 0 .. n
          BY <1>1, <3>2
        <4> QED BY <1>2, <2>3, <3>2, <4>1
      <3> QED BY <3>1, <3>2
    <2>5. [k \in 0 .. n |-> g[k]] = [k \in 0 .. n |-> IF k = 0 THEN start ELSE next(g[k - 1], k)]
      BY <2>4
    <2> QED BY <2>3, <2>5
  <1>4. Is(e)
    <2> HIDE DEF Is
    <2> QED BY <1>3
  <1> HIDE DEF e
  <1>5. e[0] \in S /\ \A k \in 1 .. n : e[k - 1] \in S => e[k] \in S
    <2>1. e[0] = start
      BY <1>1, <1>4
    <2>2. ASSUME NEW k \in 1 .. n PROVE e[k] = next(e[k - 1], k)
      BY <1>1, <1>4
    <2> QED BY <1>2, <2>1, <2>2
  <1>6. e[n] \in S
    BY <1>1, <1>5, LoopStays
  <1> QED BY <1>6 DEF e, n, next

\* The windows whose pages nobody else has.
Windows(H) == {k \in [w : WorkMemory, phys : [Cluster -> Nat]] : WindowApart(k, H)}

(***************************************************************************)
(* The invariant: before the tables are up nobody has a page; afterwards   *)
(* the owners are apart and what callers hold are distinct runs of pages.  *)
(***************************************************************************)
Pages(h) == h[1] .. h[1] + h[2] - 1
HeldApart ==
  /\ held \in SUBSET ((Nat \ {0}) \X (Nat \ {0}))
  /\ \A g, h \in held : g # h => Pages(g) \cap Pages(h) = {}
MemInv ==
  /\ phase \in {"pmm", "paging", "ready", "halted"}
  /\ HeldApart
  /\ phase \in {"pmm", "paging"} => held = {} /\ cluster_phys_map = [c \in Cluster |-> 0]
  /\ phase = "paging" => PageMemory \in NoTables /\ Reserved3(PageMemory) /\ 0 \in pmm_bitmap
  /\ phase \in {"ready", "halted"} => WindowApart(ClusterWindow, Held)

LEMMA MemoryStarts == SMInit => MemInv
  BY DEF SMInit, MemInv, HeldApart

LEMMA WindowOwners == MemInv => PageOwners
  <1> SUFFICES ASSUME MemInv, phase \in {"ready", "halted"} PROVE PageOwners
    BY DEF PageOwners
  <1>1. WindowApart(ClusterWindow, Held)
    BY DEF MemInv
  <1>2. BackingOf(cluster_phys_map) = Backing /\ ClusterWindow.phys = cluster_phys_map /\ ClusterWindow.w = PageMemory
    BY DEF BackingOf, Backing, ClusterWindow
  <1>3. OwnersApart(PageMemory, Backing \cup Held)
    BY <1>1, <1>2 DEF WindowApart
  <1>4. PageMemory.bitmap = pmm_bitmap /\ PageMemory.free = pmm_free_count /\ PageMemory.mem = mem
    BY DEF PageMemory
  <1>5. \A c, d \in Cluster : c # d /\ cluster_phys_map[c] # 0 => cluster_phys_map[c] # cluster_phys_map[d]
    BY <1>1, <1>2 DEF WindowApart
  <1>6. Backing \cap Held = {}
    BY <1>1, <1>2 DEF WindowApart
  <1>7. /\ DOMAIN mem \cup Backing \cup Held \subseteq pmm_bitmap
        /\ DOMAIN mem \cap Backing = {} /\ DOMAIN mem \cap Held = {}
        /\ pmm_free_count = Cardinality(PageFrame \ pmm_bitmap)
    <2> HIDE DEF PageMemory, Backing, Held
    <2> QED BY <1>3, <1>4 DEF OwnersApart, Counted
  <1> HIDE DEF Backing, Held, PageFrame, Cluster
  <1> QED BY <1>5, <1>6, <1>7 DEF PageOwners

LEMMA MemorySet ==
  ASSUME NEW w \in WorkMemory, SetMemory(w)
  PROVE  PageMemory' = w
  BY WorkRecord DEF SetMemory, PageMemory

LEMMA WindowSet ==
  ASSUME NEW k \in [w : WorkMemory, phys : [Cluster -> Nat]], SetMemory(k.w), cluster_phys_map' = k.phys
  PROVE  ClusterWindow' = k
  <1>1. PageMemory' = k.w
    BY MemorySet
  <1>2. k = [w |-> k.w, phys |-> k.phys]
    OBVIOUS
  <1> QED BY <1>1, <1>2 DEF ClusterWindow

\* A call that ends with a sound window, whoever holds what.
LEMMA CallKept ==
  ASSUME MemInv, PagingReady, UNCHANGED phase, HeldApart', NEW k, WindowApart(k, Held'),
         SetMemory(k.w), cluster_phys_map' = k.phys
  PROVE  MemInv'
  <1>1. ClusterWindow' = k
    BY WindowSet DEF WindowApart
  <1>2. phase' = "ready"
    BY DEF PagingReady
  <1>3. WindowApart(ClusterWindow, Held)'
    <2>1. WindowApart(ClusterWindow', Held')
      BY <1>1
    <2> QED BY <2>1 DEF WindowApart, BackingOf, OwnersApart, Counted, WorkMemory, PageFrame, Cluster
  <1> QED BY <1>2, <1>3 DEF MemInv

LEMMA HeldKept ==
  ASSUME MemInv, UNCHANGED held
  PROVE  HeldApart' /\ Held' = Held
  BY DEF MemInv, HeldApart, Held, Pages

LEMMA BootKept == MemInv /\ BootMemory => MemInv'
  <1> SUFFICES ASSUME MemInv, BootMemory PROVE MemInv'
    OBVIOUS
  <1>0. held' = held /\ cluster_phys_map' = cluster_phys_map
    BY DEF BootMemory
  <1>1. HeldApart' /\ Held' = Held
    BY <1>0, HeldKept
  <1>2. CASE phase = "pmm"
    <2>1. phase' = "paging" /\ SetMemory(pmm_init) /\ held = {} /\ cluster_phys_map = [c \in Cluster |-> 0]
      BY <1>2 DEF BootMemory, MemInv
    <2>2. PageMemory' = pmm_init
      BY <2>1, BootBitmap, MemorySet DEF NoTables
    <2>3. PageMemory' \in NoTables /\ Reserved3(PageMemory') /\ 0 \in pmm_bitmap'
      <3>1. pmm_bitmap' = PageMemory'.bitmap
        BY DEF PageMemory
      <3> HIDE DEF PageMemory
      <3> QED BY <2>2, <3>1, BootBitmap
    <2>4. (PageMemory \in NoTables /\ Reserved3(PageMemory))'
      BY <2>3 DEF Reserved3, NoTables
    <2> QED BY <1>0, <1>1, <2>1, <2>3, <2>4 DEF MemInv, Cluster
  <1>3. CASE phase = "paging"
    <2> DEFINE r == vmm_init(enter_long_mode(PageMemory))
               k == [w |-> r.w, phys |-> cluster_phys_map]
    <2>1. phase' \in {"ready", "halted"} /\ SetMemory(r.w)
      BY <1>3 DEF BootMemory
    <2>2. OwnersApart(r.w, {})
      <3>1. PageMemory \in NoTables /\ Reserved3(PageMemory) /\ 0 \in PageMemory.bitmap
        BY <1>3 DEF MemInv, PageMemory
      <3> HIDE DEF PageMemory
      <3> QED BY <3>1, PagingStarted
    <2>3. held = {} /\ cluster_phys_map = [c \in Cluster |-> 0]
      BY <1>3 DEF MemInv
    <2> HIDE DEF r
    <2>4. BackingOf(cluster_phys_map) = {} /\ Held = {}
      BY <2>3 DEF BackingOf, Held
    <2>5. WindowApart(k, Held)
      <3>1. OwnersApart(r.w, BackingOf(cluster_phys_map) \cup Held)
        BY <2>2, <2>4
      <3> HIDE DEF Held
      <3> QED BY <2>2, <2>3, <2>4, <3>1 DEF WindowApart, OwnersApart, Counted
    <2>6. k.w = r.w /\ k.phys = cluster_phys_map'
      BY <1>0
    <2>7. ClusterWindow' = k
      <3> HIDE DEF k
      <3> QED BY <2>1, <2>5, <2>6, WindowSet DEF WindowApart
    <2>8. WindowApart(ClusterWindow, Held)'
      <3>1. WindowApart(ClusterWindow', Held')
        BY <1>1, <2>5, <2>7
      <3> QED BY <3>1 DEF WindowApart, BackingOf, OwnersApart, Counted, WorkMemory, PageFrame, Cluster
    <2> QED BY <1>1, <2>1, <2>8 DEF MemInv
  <1> QED BY <1>2, <1>3 DEF BootMemory

\* pmm_alloc_page, pmm_alloc_pages and pmm_alloc_dma
LEMMA AllocKept ==
  ASSUME MemInv, NEW count \in Nat \ {0}, NEW limit \in Nat, pmm_alloc(count, limit)
  PROVE  MemInv'
  <1> DEFINE p == pmm_find_free_pages(PageMemory, count, limit)
             h == <<p, count>>
             v == Taken(PageMemory, Pages(h))
             k == [w |-> v, phys |-> cluster_phys_map]
  <1>1. /\ PagingReady /\ phase' = phase /\ p # 0 /\ cluster_phys_map' = cluster_phys_map
        /\ SetMemory(v) /\ held' = held \cup {h}
    BY DEF pmm_alloc, Pages
  <1>2. WindowApart(ClusterWindow, Held) /\ HeldApart
    BY <1>1 DEF MemInv, PagingReady
  <1>3. ClusterWindow = [w |-> PageMemory, phys |-> cluster_phys_map]
    BY DEF ClusterWindow
  <1> DEFINE R == BackingOf(cluster_phys_map) \cup Held
  <1>4. OwnersApart(PageMemory, R) /\ Counted(PageMemory) /\ 0 \in PageMemory.bitmap /\ R \subseteq PageMemory.bitmap
    BY <1>2, <1>3 DEF WindowApart, OwnersApart
  <1>5. p \in Nat \ {0} /\ Pages(h) \subseteq PageFrame \ PageMemory.bitmap
    <2> HIDE DEF PageMemory, PageFrame
    <2> QED BY <1>1, <1>4, FoundFree DEF Pages
  <1> HIDE DEF p
  <1>6. h \in (Nat \ {0}) \X (Nat \ {0})
    BY <1>5
  <1>7. Held' = Held \cup Pages(h)
    BY <1>1 DEF Held, Pages
  <1>8. Pages(h) \cap R = {}
    <2> HIDE DEF h, R, PageMemory
    <2> QED BY <1>4, <1>5
  <1>9. HeldApart'
    <2>1. held' \in SUBSET ((Nat \ {0}) \X (Nat \ {0}))
      <3> HIDE DEF h
      <3> QED BY <1>1, <1>2, <1>6 DEF HeldApart
    <2>2. \A g \in held : Pages(g) \subseteq Held
      BY DEF Held, Pages
    <2>3. \A g \in held : Pages(g) \cap Pages(h) = {}
      <3> HIDE DEF h, Held
      <3> QED BY <1>8, <2>2
    <2>4. \A g, i \in held' : g # i => Pages(g) \cap Pages(i) = {}
      <3> HIDE DEF h
      <3> QED BY <1>1, <1>2, <2>3 DEF HeldApart
    <2> QED BY <2>1, <2>4 DEF HeldApart, Pages
  <1>10. WindowApart(k, Held')
    <2> HIDE DEF h, v, PageMemory, Held
    <2>1. OwnersApart(v, R \cup Pages(h))
      <3>1. v = Taken(PageMemory, Pages(h))
        BY DEF v
      <3> HIDE DEF R, v
      <3> QED BY <1>4, <1>5, <3>1, PagesTaken
    <2>2. R \cup Pages(h) = BackingOf(cluster_phys_map) \cup Held'
      BY <1>7
    <2>3. k.w = v /\ k.phys = cluster_phys_map /\ v \in WorkMemory
      BY <2>1 DEF OwnersApart, Counted
    <2>4. BackingOf(cluster_phys_map) \cap Held' = {}
      BY <1>2, <1>3, <1>7, <1>8 DEF WindowApart
    <2>5. /\ cluster_phys_map \in [Cluster -> Nat]
          /\ \A c, d \in Cluster : c # d /\ cluster_phys_map[c] # 0 => cluster_phys_map[c] # cluster_phys_map[d]
      BY <1>2, <1>3 DEF WindowApart
    <2>6. OwnersApart(v, BackingOf(cluster_phys_map) \cup Held')
      <3> HIDE DEF R
      <3> QED BY <2>1, <2>2
    <2> HIDE DEF R
    <2> QED BY <2>3, <2>4, <2>5, <2>6 DEF WindowApart
  <1> HIDE DEF v, h
  <1>11. k.w = v /\ k.phys = cluster_phys_map'
    BY <1>1
  <1> HIDE DEF k
  <1> QED BY <1>1, <1>9, <1>10, <1>11, CallKept

\* pmm_free_page, pmm_free_pages and pmm_free_dma
LEMMA FreeKept ==
  ASSUME MemInv, NEW h \in held, pmm_free(h)
  PROVE  MemInv'
  <1> DEFINE v == pmm_free_pages(PageMemory, h[1], h[2])
             k == [w |-> v, phys |-> cluster_phys_map]
             R == BackingOf(cluster_phys_map) \cup Held
  <1>1. /\ PagingReady /\ phase' = phase /\ cluster_phys_map' = cluster_phys_map
        /\ SetMemory(v) /\ held' = held \ {h}
    BY DEF pmm_free
  <1>2. WindowApart(ClusterWindow, Held) /\ HeldApart
    BY <1>1 DEF MemInv, PagingReady
  <1>3. ClusterWindow = [w |-> PageMemory, phys |-> cluster_phys_map]
    BY DEF ClusterWindow
  <1>4. OwnersApart(PageMemory, R)
    BY <1>2, <1>3 DEF WindowApart
  <1>5. h[1] \in Nat \ {0} /\ h[2] \in Nat /\ Pages(h) \subseteq Held
    BY <1>2 DEF HeldApart, Held, Pages
  <1>6. Held' = Held \ Pages(h)
    <2>1. \A g \in held : g # h => Pages(g) \cap Pages(h) = {}
      BY <1>2 DEF HeldApart
    <2>2. Held = UNION {Pages(g) : g \in held} /\ Held' = UNION {Pages(g) : g \in held \ {h}}
      BY <1>1 DEF Held, Pages
    <2> HIDE DEF Held
    <2> QED BY <2>1, <2>2
  <1>7. HeldApart'
    BY <1>1, <1>2 DEF HeldApart, Pages
  <1>8. BackingOf(cluster_phys_map) \cap Held = {}
    BY <1>2, <1>3 DEF WindowApart
  <1>9. OwnersApart(v, R \ Pages(h))
    <2>1. h[1] .. h[1] + h[2] - 1 = Pages(h)
      BY DEF Pages
    <2>2. Pages(h) \subseteq R
      BY <1>5
    <2> HIDE DEF R, PageMemory
    <2> QED BY <1>4, <1>5, <2>1, <2>2, PagesFreed
  <1>10. WindowApart(k, Held')
    <2>1. R \ Pages(h) = BackingOf(cluster_phys_map) \cup Held'
      BY <1>5, <1>6, <1>8
    <2> HIDE DEF v, R
    <2>2. k.w = v /\ k.phys = cluster_phys_map /\ v \in WorkMemory
      BY <1>9 DEF OwnersApart, Counted
    <2>3. BackingOf(cluster_phys_map) \cap Held' = {}
      BY <1>6, <1>8
    <2>4. /\ cluster_phys_map \in [Cluster -> Nat]
          /\ \A c, d \in Cluster : c # d /\ cluster_phys_map[c] # 0 => cluster_phys_map[c] # cluster_phys_map[d]
      BY <1>2, <1>3 DEF WindowApart
    <2>5. OwnersApart(v, BackingOf(cluster_phys_map) \cup Held')
      BY <1>9, <2>1
    <2> QED BY <2>2, <2>3, <2>4, <2>5 DEF WindowApart
  <1> HIDE DEF v
  <1>11. k.w = v /\ k.phys = cluster_phys_map'
    BY <1>1
  <1> HIDE DEF k
  <1> QED BY <1>1, <1>7, <1>10, <1>11, CallKept

\* vmm_map_page and vmm_unmap_page of a page a caller has.
LEMMA UserKept ==
  ASSUME MemInv, NEW v, UnmapUser(v) \/ \E h \in held : MapUser(v, h)
  PROVE  MemInv'
  <1> DEFINE R == BackingOf(cluster_phys_map) \cup Held
  <1>1. PagingReady /\ UNCHANGED <<phase, cluster_phys_map, held>>
    BY DEF MapUser, UnmapUser
  <1>2. WindowApart(ClusterWindow, Held) /\ HeldApart' /\ Held' = Held /\ \A h \in held : h[1] \in Nat
    BY <1>1, HeldKept DEF MemInv, PagingReady, HeldApart
  <1>3. ClusterWindow = [w |-> PageMemory, phys |-> cluster_phys_map]
    BY DEF ClusterWindow
  <1>4. OwnersApart(PageMemory, R)
    BY <1>2, <1>3 DEF WindowApart
  <1>5. \E w : SetMemory(w) /\ OwnersApart(w, R)
    <2> HIDE DEF R, PageMemory
    <2>1. CASE UnmapUser(v)
      <3>1. OwnersApart(vmm_unmap_page(PageMemory, v), R)
        <4>1. 0 \in Nat
          OBVIOUS
        <4> QED BY <1>4, <4>1, PageMapped
      <3> QED BY <2>1, <3>1 DEF UnmapUser
    <2>2. CASE \E h \in held : MapUser(v, h)
      <3>1. PICK h \in held : MapUser(v, h)
        BY <2>2
      <3>2. OwnersApart(vmm_map_page(PageMemory, v, h[1]), R)
        BY <1>2, <1>4, PageMapped
      <3> QED BY <3>1, <3>2 DEF MapUser
    <2> QED BY <2>1, <2>2
  <1>6. PICK w : SetMemory(w) /\ OwnersApart(w, R)
    BY <1>5
  <1> DEFINE k == [w |-> w, phys |-> cluster_phys_map]
  <1>7. WindowApart(k, Held')
    BY <1>2, <1>3, <1>6 DEF WindowApart, OwnersApart, Counted
  <1>8. k.w = w /\ k.phys = cluster_phys_map'
    BY <1>1
  <1> HIDE DEF k, Held
  <1> QED BY <1>1, <1>2, <1>6, <1>7, <1>8, CallKept

\* The calls of BrainFS on the window.
LEMMA FilesKept ==
  ASSUME MemInv, NEW d, NEW c \in Cluster, brainfs_umount(d) \/ brainfs_dir_create \/ ClusterAccess(c) \/ FreeChain(c)
  PROVE  MemInv'
  <1>0. PagingReady /\ UNCHANGED <<phase, held>>
    BY DEF brainfs_umount, brainfs_dir_create, ClusterAccess, FreeChain, SetWindow, Mounted
  <1>1. WindowApart(ClusterWindow, Held) /\ HeldApart' /\ Held' = Held
    BY <1>0, HeldKept DEF MemInv, PagingReady
  <1>2. \E k : WindowApart(k, Held) /\ SetMemory(k.w) /\ cluster_phys_map' = k.phys
    <2> HIDE DEF ClusterWindow, Held
    <2>1. CASE brainfs_umount(d)
      <3> DEFINE n == SM_CLUSTERS
                 e == CHOOSE g : g = [i \in 0 .. n |-> IF i = 0 THEN ClusterWindow
                        ELSE IF i - 1 < 2 THEN g[i - 1] ELSE vmm_cluster_unmap(g[i - 1], i - 1)]
                 k == e[n]
      <3>1. WindowApart(k, Held)
        <4>1. \A x \in Windows(Held) : \A y \in Cluster : vmm_cluster_unmap(x, y) \in Windows(Held)
          <5>1. \A x \in Windows(Held) : \A y \in Cluster : WindowApart(vmm_cluster_unmap(x, y), Held)
            BY ClusterLetGo DEF Windows
          <5> QED BY <5>1 DEF Windows, WindowApart
        <4>2. ClusterWindow \in Windows(Held)
          BY <1>1 DEF Windows, WindowApart
        <4>3. k \in Windows(Held)
          BY <4>1, <4>2, WindowLetGo
        <4> QED BY <4>3 DEF Windows
      <3>2. SetMemory(k.w) /\ cluster_phys_map' = k.phys
        BY <2>1 DEF brainfs_umount
      <3> HIDE DEF k
      <3> QED BY <3>1, <3>2
    <2>2. CASE brainfs_dir_create
      <3> DEFINE a == brainfs_fat_alloc_cluster(ClusterWindow)
                 k == vmm_cluster_resolve(a, 2)
      <3>1. WindowApart(a, Held)
        BY <1>1, ClusterAllocated
      <3>2. WindowApart(k, Held)
        <4>1. 2 \in Cluster
          BY SMAssumption DEF Cluster
        <4> HIDE DEF a
        <4> QED BY <3>1, <4>1, ClusterResolved
      <3>3. SetMemory(k.w) /\ cluster_phys_map' = k.phys
        BY <2>2 DEF brainfs_dir_create, SetWindow
      <3> HIDE DEF k
      <3> QED BY <3>2, <3>3
    <2>3. CASE ClusterAccess(c)
      BY <1>1, <2>3, ClusterResolved DEF ClusterAccess, SetWindow
    <2>4. CASE FreeChain(c)
      BY <1>1, <2>4, ChainFreed DEF FreeChain, SetWindow
    <2> QED BY <2>1, <2>2, <2>3, <2>4
  <1>3. PICK k : WindowApart(k, Held) /\ SetMemory(k.w) /\ cluster_phys_map' = k.phys
    BY <1>2
  <1>4. WindowApart(k, Held')
    BY <1>1, <1>3
  <1> HIDE DEF Held
  <1> QED BY <1>0, <1>1, <1>3, <1>4, CallKept

LEMMA MemoryStutters ==
  ASSUME MemInv, UNCHANGED <<phase, pmm_bitmap, pmm_free_count, mem, cluster_phys_map, held>>
  PROVE  MemInv'
  <1>1. PageMemory' = PageMemory /\ ClusterWindow' = ClusterWindow /\ HeldApart' /\ Held' = Held
    BY HeldKept DEF PageMemory, ClusterWindow
  <1>2. (WindowApart(ClusterWindow, Held))' <=> WindowApart(ClusterWindow, Held)
    BY <1>1 DEF WindowApart, BackingOf, OwnersApart, Counted, WorkMemory, PageFrame, Cluster
  <1>3. /\ (PageMemory \in NoTables)' <=> PageMemory \in NoTables
        /\ Reserved3(PageMemory)' <=> Reserved3(PageMemory)
    BY <1>1 DEF NoTables, Reserved3
  <1> HIDE DEF PageMemory, ClusterWindow, Held, HeldApart, NoTables, Reserved3, WindowApart
  <1> QED BY <1>1, <1>2, <1>3 DEF MemInv

LEMMA MemoryInductive == MemInv /\ [SMNext]_smVars => MemInv'
  <1> SUFFICES ASSUME MemInv, [SMNext]_smVars PROVE MemInv'
    OBVIOUS
  <1>1. CASE BootMemory
    BY <1>1, BootKept
  <1>2. CASE pmm_alloc(1, pmm_total_pages) \/ pmm_alloc(2, pmm_total_pages) \/ pmm_alloc(1, SM_DMA)
    <2>1. pmm_total_pages \in Nat /\ SM_DMA \in Nat /\ 1 \in Nat \ {0} /\ 2 \in Nat \ {0}
      BY TotalPages, SMAssumption
    <2> QED BY <1>2, <2>1, AllocKept
  <1>3. CASE \E h \in held : pmm_free(h) \/ \E v \in SM_USER : MapUser(v, h)
    BY <1>3, FreeKept, UserKept
  <1>4. CASE \E v \in SM_USER : UnmapUser(v)
    BY <1>4, UserKept
  <1>5. CASE \E d \in SM_DRIVES : brainfs_mount(d) \/ brainfs_umount(d)
    <2> PICK d \in SM_DRIVES : brainfs_mount(d) \/ brainfs_umount(d)
      BY <1>5
    <2>1. CASE brainfs_mount(d)
      BY <2>1, MemoryStutters DEF brainfs_mount
    <2>2. CASE brainfs_umount(d)
      <3>1. 2 \in Cluster
        BY SMAssumption DEF Cluster
      <3> QED BY <2>2, <3>1, FilesKept
    <2> QED BY <2>1, <2>2
  <1>6. CASE brainfs_dir_create
    <2>1. 2 \in Cluster
      BY SMAssumption DEF Cluster
    <2> QED BY <1>6, <2>1, FilesKept
  <1>7. CASE \E c \in Cluster : ClusterAccess(c) \/ FreeChain(c)
    BY <1>7, FilesKept
  <1>8. CASE UNCHANGED smVars
    BY <1>8, MemoryStutters DEF smVars
  <1> QED BY <1>1, <1>2, <1>3, <1>4, <1>5, <1>6, <1>7, <1>8 DEF SMNext

(***************************************************************************)
(* A page has one owner, whichever of stage 2's memory calls runs out of   *)
(* pages, and pmm_free_count is the number of free pages: PageOwners for   *)
(* every memory map, table size, volume and sequence of calls.             *)
(***************************************************************************)
THEOREM PagesHaveOneOwner == SMSpec => []PageOwners
  <1>1. SMInit => MemInv
    BY MemoryStarts
  <1>2. MemInv /\ [SMNext]_smVars => MemInv'
    BY MemoryInductive
  <1>3. MemInv => PageOwners
    BY WindowOwners
  <1> QED BY <1>1, <1>2, <1>3, PTL DEF SMSpec
(***************************************************************************)
(* Page tables.  Idle tables aside, the tables of a memory are a tree of   *)
(* four levels: L gives each its level, and no table below the top hangs   *)
(* from two entries.  Below is the table an entry leads to, 0 for none;    *)
(* Reaches is the table of the last level for an address, Shown its entry. *)
(***************************************************************************)
Idx == 0 .. SM_N - 1
Address == Idx \X Idx \X Idx \X Idx
Below(w, t, i) == IF t # 0 /\ w.mem[t][i].present /\ ~w.mem[t][i].huge THEN w.mem[t][i].frame ELSE 0
Reaches(w, v) == Below(w, Below(w, Below(w, vmm_pml4, v[1]), v[2]), v[3])
Shown(w, v) == IF Reaches(w, v) = 0 THEN NoPage ELSE w.mem[Reaches(w, v)][v[4]]

Tree(w, L) ==
  /\ 0 \notin DOMAIN w.mem /\ vmm_pml4 \in DOMAIN w.mem
  /\ L \in [DOMAIN w.mem -> 1 .. 4] /\ L[vmm_pml4] = 1
  /\ \A t \in DOMAIN w.mem, i \in Idx : L[t] < 4 /\ Below(w, t, i) # 0 =>
       Below(w, t, i) \in DOMAIN w.mem /\ L[Below(w, t, i)] = L[t] + 1
  /\ \A t, u \in DOMAIN w.mem, i, j \in Idx :
       L[t] < 4 /\ L[u] < 4 /\ Below(w, t, i) # 0 /\ Below(w, t, i) = Below(w, u, j) => t = u /\ i = j

\* z has the tables of w and its links, and shows the same.
Extends(w, L, z, M) ==
  /\ Tree(z, M)
  /\ \A x \in DOMAIN w.mem : x \in DOMAIN z.mem /\ M[x] = L[x]
  /\ \A x \in DOMAIN w.mem, j \in Idx : L[x] < 4 /\ Below(w, x, j) # 0 => Below(z, x, j) = Below(w, x, j)
  /\ \A u \in Address : Shown(z, u) = Shown(w, u)

LEMMA AddressIndices ==
  /\ \A v \in Address : v[1] \in Idx /\ v[2] \in Idx /\ v[3] \in Idx /\ v[4] \in Idx
  /\ \A u, v \in Address : u[1] = v[1] /\ u[2] = v[2] /\ u[3] = v[3] /\ u[4] = v[4] => u = v
  BY DEF Address

\* vmm_get_page_entry and the walks that create nothing.
LEMMA WalkShows ==
  ASSUME NEW w, NEW v
  PROVE  Walk(w, v, FALSE) = [w |-> w, t |-> Reaches(w, v)] /\ vmm_get_page_entry(w, v) = Shown(w, v)
  <1>1. \A t, i : t # 0 => vmm_get_table(w, t, i, FALSE) = [w |-> w, t |-> Below(w, t, i)]
    BY DEF vmm_get_table, Below
  <1>2. \A t, i : TableBelow([w |-> w, t |-> t], i, FALSE) = [w |-> w, t |-> Below(w, t, i)]
    <2> SUFFICES ASSUME NEW t, NEW i PROVE TableBelow([w |-> w, t |-> t], i, FALSE) = [w |-> w, t |-> Below(w, t, i)]
      OBVIOUS
    <2>1. CASE t = 0
      BY <2>1 DEF TableBelow, Below
    <2>2. CASE t # 0
      BY <1>1, <2>2 DEF TableBelow
    <2> QED BY <2>1, <2>2
  <1>3. Walk(w, v, FALSE) = [w |-> w, t |-> Reaches(w, v)]
    <2>0. vmm_pml4 # 0
      BY DEF vmm_pml4
    <2>1. vmm_get_table(w, vmm_pml4, v[1], FALSE) = [w |-> w, t |-> Below(w, vmm_pml4, v[1])]
      BY <1>1, <2>0
    <2> QED BY <1>2, <2>1 DEF Walk, Reaches
  <1>4. PageEntry([w |-> w, t |-> Reaches(w, v)], v[4]) = Shown(w, v)
    BY DEF PageEntry, Shown
  <1> QED BY <1>3, <1>4 DEF vmm_get_page_entry

\* Where a walk goes, level by level.
LEMMA WalkDescends ==
  ASSUME NEW w, NEW L, Tree(w, L), NEW v \in Address
  PROVE  /\ \A x \in DOMAIN w.mem \cup {0}, i \in Idx : x = 0 \/ L[x] < 4 => Below(w, x, i) \in DOMAIN w.mem \cup {0}
         /\ LET a == Below(w, vmm_pml4, v[1])
                b == Below(w, a, v[2])
                c == Below(w, b, v[3])
            IN  /\ a # 0 => a \in DOMAIN w.mem /\ L[a] = 2
                /\ b # 0 => a # 0 /\ b \in DOMAIN w.mem /\ L[b] = 3
                /\ c # 0 => b # 0 /\ c \in DOMAIN w.mem /\ L[c] = 4
  <1>1. \A i : Below(w, 0, i) = 0
    BY DEF Below
  <1>2. v[1] \in Idx /\ v[2] \in Idx /\ v[3] \in Idx
    BY AddressIndices
  <1> DEFINE a == Below(w, vmm_pml4, v[1])
             b == Below(w, a, v[2])
             c == Below(w, b, v[3])
  <1>3. a # 0 => a \in DOMAIN w.mem /\ L[a] = 2
    BY <1>2 DEF Tree
  <1> HIDE DEF a
  <1>4. b # 0 => a # 0 /\ b \in DOMAIN w.mem /\ L[b] = 3
    BY <1>1, <1>2, <1>3 DEF Tree
  <1> HIDE DEF b
  <1>5. c # 0 => b # 0 /\ c \in DOMAIN w.mem /\ L[c] = 4
    BY <1>1, <1>2, <1>4 DEF Tree
  <1>6. \A x \in DOMAIN w.mem \cup {0}, i \in Idx : x = 0 \/ L[x] < 4 => Below(w, x, i) \in DOMAIN w.mem \cup {0}
    BY <1>1 DEF Tree
  <1> QED BY <1>3, <1>4, <1>5, <1>6 DEF a, b

\* Two addresses that reach the same table differ in the last index only.
LEMMA OneTableEach ==
  ASSUME NEW w, NEW L, Tree(w, L), NEW u \in Address, NEW v \in Address, Reaches(w, u) # 0, Reaches(w, u) = Reaches(w, v)
  PROVE  u[1] = v[1] /\ u[2] = v[2] /\ u[3] = v[3]
  <1> DEFINE a(x) == Below(w, vmm_pml4, x[1])
             b(x) == Below(w, a(x), x[2])
             c(x) == Below(w, b(x), x[3])
  <1>1. \A x \in {u, v} : /\ a(x) # 0 => a(x) \in DOMAIN w.mem /\ L[a(x)] = 2
                          /\ b(x) # 0 => a(x) # 0 /\ b(x) \in DOMAIN w.mem /\ L[b(x)] = 3
                          /\ c(x) # 0 => b(x) # 0 /\ c(x) \in DOMAIN w.mem /\ L[c(x)] = 4
    BY WalkDescends
  <1>2. c(u) # 0 /\ c(u) = c(v)
    BY DEF Reaches
  <1>3. \A x \in {u, v} : x[1] \in Idx /\ x[2] \in Idx /\ x[3] \in Idx
    BY AddressIndices
  <1>4. b(u) = b(v) /\ u[3] = v[3]
    <2> HIDE DEF b
    <2> QED BY <1>1, <1>2, <1>3 DEF Tree
  <1>5. a(u) = a(v) /\ u[2] = v[2]
    <2>1. b(u) # 0
      BY <1>1, <1>2
    <2> HIDE DEF a
    <2> QED BY <1>1, <1>3, <1>4, <2>1 DEF Tree
  <1>6. u[1] = v[1]
    <2>1. a(u) # 0
      BY <1>1, <1>2
    <2> QED BY <1>3, <1>5, <2>1 DEF Tree
  <1> QED BY <1>4, <1>5, <1>6

\* Writing an entry of the last level changes what one address shows.
LEMMA LeafWritten ==
  ASSUME NEW w \in WorkMemory, NEW L, Tree(w, L), NEW t \in DOMAIN w.mem, L[t] = 4, NEW i \in Idx, NEW e,
         NEW z, z = WithEntry(w, t, i, e)
  PROVE  /\ Tree(z, L)
         /\ \A u \in Address : Reaches(z, u) = Reaches(w, u)
         /\ \A u \in Address : Shown(z, u) = IF Reaches(w, u) = t /\ u[4] = i THEN e ELSE Shown(w, u)
  <1>1. /\ DOMAIN z.mem = DOMAIN w.mem
        /\ \A x \in DOMAIN w.mem, j \in Idx : z.mem[x][j] = IF x = t /\ j = i THEN e ELSE w.mem[x][j]
    <2>1. z.mem = [w.mem EXCEPT ![t][i] = e]
      BY DEF WithEntry, WorkMemory
    <2>2. \A x \in DOMAIN w.mem : w.mem[x] \in [Idx -> PageEntryType]
      BY WorkRecord DEF PageTableType, Idx
    <2> QED BY <2>1, <2>2
  <1>2. \A x \in DOMAIN w.mem, j \in Idx : L[x] < 4 => Below(z, x, j) = Below(w, x, j)
    <2>1. \A x \in DOMAIN w.mem, j \in Idx : L[x] < 4 => z.mem[x][j] = w.mem[x][j]
      BY <1>1
    <2> QED BY <2>1 DEF Below
  <1>3. \A j : Below(z, 0, j) = 0 /\ Below(w, 0, j) = 0
    BY DEF Below
  <1>4. Tree(z, L)
    BY <1>1, <1>2 DEF Tree
  <1>5. ASSUME NEW u \in Address
        PROVE  /\ Reaches(z, u) = Reaches(w, u)
               /\ Reaches(w, u) # 0 => Reaches(w, u) \in DOMAIN w.mem
    <2> DEFINE a == Below(w, vmm_pml4, u[1])
               b == Below(w, a, u[2])
               c == Below(w, b, u[3])
    <2>0. u[1] \in Idx /\ u[2] \in Idx /\ u[3] \in Idx
      BY AddressIndices
    <2>1. /\ a # 0 => a \in DOMAIN w.mem /\ L[a] = 2
          /\ b # 0 => a # 0 /\ b \in DOMAIN w.mem /\ L[b] = 3
          /\ c # 0 => b # 0 /\ c \in DOMAIN w.mem /\ L[c] = 4
      BY WalkDescends
    <2>2. Below(z, vmm_pml4, u[1]) = a
      BY <1>2, <2>0 DEF Tree
    <2> HIDE DEF a
    <2>3. Below(z, a, u[2]) = b
      BY <1>2, <1>3, <2>0, <2>1
    <2> HIDE DEF b
    <2>4. Below(z, b, u[3]) = c
      BY <1>2, <1>3, <2>0, <2>1
    <2> QED BY <2>1, <2>2, <2>3, <2>4 DEF Reaches, a, b
  <1>6. ASSUME NEW u \in Address PROVE Shown(z, u) = IF Reaches(w, u) = t /\ u[4] = i THEN e ELSE Shown(w, u)
    <2>1. t # 0
      BY DEF Tree
    <2>2. u[4] \in Idx
      BY AddressIndices
    <2> QED BY <1>1, <1>5, <2>1, <2>2 DEF Shown
  <1> QED BY <1>4, <1>5, <1>6

\* Two steps of growth are one.
LEMMA ExtendsTwice ==
  ASSUME NEW w, NEW L, NEW y, NEW M, NEW z, NEW N, Extends(w, L, y, M), Extends(y, M, z, N)
  PROVE  Extends(w, L, z, N)
  <1>1. \A x \in DOMAIN w.mem : x \in DOMAIN z.mem /\ N[x] = L[x]
    BY DEF Extends
  <1>2. \A x \in DOMAIN w.mem, j \in Idx : L[x] < 4 /\ Below(w, x, j) # 0 => Below(z, x, j) = Below(w, x, j)
    BY DEF Extends
  <1>3. Tree(z, N) /\ \A u \in Address : Shown(z, u) = Shown(w, u)
    BY DEF Extends
  <1> QED BY <1>1, <1>2, <1>3 DEF Extends

\* A table that was just taken is linked where there was none.
Grown(w, z, p, i, n) ==
  /\ n # 0 /\ n \notin DOMAIN w.mem /\ DOMAIN z.mem = DOMAIN w.mem \cup {n}
  /\ z.mem[n] = EmptyTable
  /\ \A x \in DOMAIN w.mem, j \in Idx : z.mem[x][j] = IF x = p /\ j = i THEN PageAt(n) ELSE w.mem[x][j]

\* All other entries lead where they led.
Elsewhere(w, z, p, i) == \A x \in DOMAIN w.mem, j \in Idx : ~(x = p /\ j = i) => Below(z, x, j) = Below(w, x, j)

LEMMA TreeGrown ==
  ASSUME NEW w, NEW L, Tree(w, L), NEW p \in DOMAIN w.mem, L[p] < 4, NEW i \in Idx, Below(w, p, i) = 0,
         NEW z, NEW n, Grown(w, z, p, i, n)
  PROVE  Elsewhere(w, z, p, i) /\ \E M : Extends(w, L, z, M) /\ Below(z, p, i) = n
  <1> DEFINE M == [x \in DOMAIN w.mem \cup {n} |-> IF x = n THEN L[p] + 1 ELSE L[x]]
  <1>1. /\ n # 0 /\ n \notin DOMAIN w.mem /\ DOMAIN z.mem = DOMAIN w.mem \cup {n}
        /\ \A j \in Idx : z.mem[n][j] = NoPage
        /\ \A x \in DOMAIN w.mem, j \in Idx : z.mem[x][j] = IF x = p /\ j = i THEN PageAt(n) ELSE w.mem[x][j]
    BY DEF Grown, EmptyTable, Idx
  <1>2. /\ PageAt(n).present /\ ~PageAt(n).huge /\ PageAt(n).frame = n /\ ~NoPage.present
        /\ \A x, j : Below(w, 0, j) = 0 /\ Below(z, 0, j) = 0
    BY DEF PageAt, NoPage, Below
  <1>3. \A x \in DOMAIN z.mem, j \in Idx : Below(z, x, j) = IF x = n THEN 0 ELSE IF x = p /\ j = i THEN n ELSE Below(w, x, j)
    <2> SUFFICES ASSUME NEW x \in DOMAIN z.mem, NEW j \in Idx
                 PROVE  Below(z, x, j) = IF x = n THEN 0 ELSE IF x = p /\ j = i THEN n ELSE Below(w, x, j)
      OBVIOUS
    <2>1. CASE x = n
      BY <1>1, <1>2, <2>1 DEF Below
    <2>2. CASE x # n /\ x = p /\ j = i
      <3>1. z.mem[x][j] = PageAt(n) /\ x # 0
        BY <1>1, <2>2 DEF Tree
      <3> QED BY <1>2, <2>2, <3>1 DEF Below
    <2>3. CASE x # n /\ ~(x = p /\ j = i)
      <3>1. z.mem[x][j] = w.mem[x][j]
        BY <1>1, <2>3
      <3> QED BY <2>3, <3>1 DEF Below
    <2> QED BY <2>1, <2>2, <2>3
  <1>4. /\ DOMAIN M = DOMAIN z.mem /\ M \in [DOMAIN z.mem -> 1 .. 4] /\ M[n] = L[p] + 1
        /\ \A x \in DOMAIN w.mem : M[x] = L[x] /\ x # n
    BY <1>1 DEF Tree
  <1> HIDE DEF M
  <1>5. Tree(z, M)
    <2>1. 0 \notin DOMAIN z.mem /\ vmm_pml4 \in DOMAIN z.mem /\ M[vmm_pml4] = 1
      BY <1>1, <1>4 DEF Tree
    <2>2. ASSUME NEW t \in DOMAIN z.mem, NEW j \in Idx, M[t] < 4, Below(z, t, j) # 0
          PROVE  Below(z, t, j) \in DOMAIN z.mem /\ M[Below(z, t, j)] = M[t] + 1
      <3>1. t # n /\ t \in DOMAIN w.mem
        BY <1>1, <1>3, <2>2
      <3>2. CASE t = p /\ j = i
        BY <1>1, <1>3, <1>4, <3>1, <3>2
      <3>3. CASE ~(t = p /\ j = i)
        <4>1. Below(z, t, j) = Below(w, t, j)
          BY <1>3, <3>1, <3>3
        <4> QED BY <1>1, <1>4, <2>2, <3>1, <4>1 DEF Tree
      <3> QED BY <3>2, <3>3
    <2>3. ASSUME NEW t \in DOMAIN z.mem, NEW u \in DOMAIN z.mem, NEW j \in Idx, NEW k \in Idx,
                 M[t] < 4, M[u] < 4, Below(z, t, j) # 0, Below(z, t, j) = Below(z, u, k)
          PROVE  t = u /\ j = k
      <3>1. t # n /\ u # n /\ t \in DOMAIN w.mem /\ u \in DOMAIN w.mem
        BY <1>1, <1>3, <2>3
      <3>2. L[t] < 4 /\ L[u] < 4
        BY <1>4, <2>3, <3>1
      <3>3. Below(w, t, j) # n /\ Below(w, u, k) # n
        BY <1>1, <3>1, <3>2 DEF Tree
      <3>4. CASE t = p /\ j = i
        BY <1>3, <2>3, <3>1, <3>3, <3>4
      <3>5. CASE u = p /\ k = i
        BY <1>3, <2>3, <3>1, <3>3, <3>5
      <3>6. CASE ~(t = p /\ j = i) /\ ~(u = p /\ k = i)
        <4>1. Below(z, t, j) = Below(w, t, j) /\ Below(z, u, k) = Below(w, u, k)
          BY <1>3, <3>1, <3>6
        <4>2. Below(w, t, j) # 0 /\ Below(w, t, j) = Below(w, u, k)
          BY <2>3, <4>1
        <4> QED BY <3>1, <3>2, <4>2 DEF Tree
      <3> QED BY <3>4, <3>5, <3>6
    <2> QED BY <1>4, <2>1, <2>2, <2>3 DEF Tree
  <1>6. \A x \in DOMAIN w.mem, j \in Idx : L[x] < 4 /\ Below(w, x, j) # 0 => Below(z, x, j) = Below(w, x, j)
    BY <1>1, <1>3
  <1>7. ASSUME NEW u \in Address PROVE Shown(z, u) = Shown(w, u)
    <2> DEFINE a == Below(w, vmm_pml4, u[1])
               b == Below(w, a, u[2])
               c == Below(w, b, u[3])
               x == Below(z, vmm_pml4, u[1])
               y == Below(z, x, u[2])
               l == Below(z, y, u[3])
    <2>0. u[1] \in Idx /\ u[2] \in Idx /\ u[3] \in Idx /\ u[4] \in Idx
      BY AddressIndices
    <2>1. /\ a # 0 => a \in DOMAIN w.mem /\ L[a] = 2
          /\ b # 0 => a # 0 /\ b \in DOMAIN w.mem /\ L[b] = 3
          /\ c # 0 => b # 0 /\ c \in DOMAIN w.mem /\ L[c] = 4
      BY WalkDescends
    <2>2. vmm_pml4 \in DOMAIN w.mem
      BY DEF Tree
    <2>3. \A d \in DOMAIN w.mem \cup {0}, j \in Idx :
            Below(z, d, j) = Below(w, d, j) \/ (Below(z, d, j) = n /\ Below(w, d, j) = 0)
      BY <1>1, <1>2, <1>3
    <2>4. \A j \in Idx : Below(z, n, j) = 0 /\ Below(z, 0, j) = 0
      BY <1>1, <1>2, <1>3
    <2>5. x = a \/ (x = n /\ a = 0)
      BY <2>0, <2>2, <2>3
    <2>9. a \in DOMAIN w.mem \cup {0} /\ (a = 0 => b = 0)
      BY <1>2, <2>1
    <2> HIDE DEF a, x
    <2>6. y = b \/ ((y = n \/ y = 0) /\ b = 0)
      BY <2>0, <2>3, <2>4, <2>5, <2>9
    <2>10. b \in DOMAIN w.mem \cup {0} /\ (b = 0 => c = 0)
      BY <1>2, <2>1
    <2> HIDE DEF b, y
    <2>7. l = c \/ ((l = n \/ l = 0) /\ c = 0)
      BY <2>0, <2>3, <2>4, <2>6, <2>10
    <2> HIDE DEF c, l
    <2>8. Reaches(w, u) = c /\ Reaches(z, u) = l
      BY DEF Reaches, a, b, c, x, y, l
    <2>11. CASE c = 0
      BY <1>1, <2>0, <2>7, <2>8, <2>11 DEF Shown
    <2>12. CASE c # 0
      <3>1. l = c /\ c \in DOMAIN w.mem /\ c # p
        BY <2>1, <2>7, <2>12
      <3>2. z.mem[c][u[4]] = w.mem[c][u[4]]
        BY <1>1, <2>0, <3>1
      <3> QED BY <2>8, <3>1, <3>2 DEF Shown
    <2> QED BY <2>11, <2>12
  <1>8. Below(z, p, i) = n
    BY <1>1, <1>3
  <1>9. Extends(w, L, z, M)
    BY <1>1, <1>4, <1>5, <1>6, <1>7 DEF Extends
  <1>10. Elsewhere(w, z, p, i)
    BY <1>1, <1>3 DEF Elsewhere
  <1> QED BY <1>8, <1>9, <1>10

\* vmm_alloc_table takes a page that is no table yet, and empties it.
WithNew(w, t) == [x \in DOMAIN w.mem \cup {t} |-> IF x = t THEN EmptyTable ELSE w.mem[x]]
FreshTable(n, w) ==
  \/ n.t = 0 /\ n.w = w
  \/ n.t # 0 /\ n.t \notin DOMAIN w.mem /\ n.w.mem = WithNew(w, n.t)

LEMMA TableFresh ==
  ASSUME NEW R, NEW w, OwnersApart(w, R)
  PROVE  FreshTable(vmm_alloc_table(w), w)
  <1> DEFINE t == pmm_find_free_pages(w, 1, pmm_total_pages)
  <1>1. w \in WorkMemory /\ Counted(w) /\ 0 \in w.bitmap /\ DOMAIN w.mem \subseteq w.bitmap
    BY DEF OwnersApart, Counted
  <1>2. t = 0 \/ (t \in Nat \ {0} /\ t .. t + 1 - 1 \subseteq PageFrame \ w.bitmap)
    BY <1>1, FoundFree, TotalPages
  <1> HIDE DEF t
  <1>3. CASE t = 0
    BY <1>3 DEF vmm_alloc_table, Cleared, FreshTable, t
  <1>4. CASE t # 0
    <2>1. t \notin DOMAIN w.mem
      BY <1>1, <1>2, <1>4
    <2> DEFINE v == Taken(w, {t})
               u == [v EXCEPT !.mem = WithNew(v, t)]
    <2>2. v.mem = w.mem /\ v = [bitmap |-> v.bitmap, free |-> v.free, mem |-> v.mem]
      <3> DEFINE n == Cardinality({t})
      <3>1. v = [bitmap |-> w.bitmap \cup {t}, free |-> w.free - n, mem |-> w.mem]
        <4>1. w = [bitmap |-> w.bitmap, free |-> w.free, mem |-> w.mem]
          BY <1>1, WorkRecord
        <4>2. v = [w EXCEPT !.bitmap = w.bitmap \cup {t}, !.free = w.free - n]
          BY DEF Taken
        <4> HIDE DEF v, n
        <4> QED BY <4>1, <4>2
      <3> HIDE DEF v
      <3> QED BY <3>1
    <2>3. [v EXCEPT !.mem = [x \in DOMAIN @ \cup {t} |-> IF x = t THEN EmptyTable ELSE @[x]]] = u
      <3> HIDE DEF v
      <3> QED BY <2>2 DEF WithNew
    <2>4. vmm_alloc_table(w) = [w |-> u, t |-> t]
      <3> HIDE DEF u
      <3> QED BY <1>4, <2>3 DEF vmm_alloc_table, Cleared, t
    <2>5. u.mem = WithNew(v, t) /\ WithNew(v, t) = WithNew(w, t)
      <3> HIDE DEF v
      <3> QED BY <2>2 DEF WithNew
    <2> HIDE DEF u, v
    <2> QED BY <1>4, <2>1, <2>4, <2>5 DEF FreshTable
  <1> QED BY <1>3, <1>4

\* One level of a walk that creates tables.
Reached(r, w, L, t, i) ==
  /\ Elsewhere(w, r.w, t, i)
  /\ \E M : Extends(w, L, r.w, M) /\ (r.t = 0 \/ (r.t = Below(r.w, t, i) /\ t \in DOMAIN w.mem))

LEMMA ExtendsItself ==
  ASSUME NEW w, NEW L, Tree(w, L)
  PROVE  Extends(w, L, w, L)
  BY DEF Extends

LEMMA LevelReached ==
  ASSUME NEW R, NEW w, OwnersApart(w, R), NEW L, Tree(w, L), NEW t \in DOMAIN w.mem, L[t] < 4, NEW i \in Idx
  PROVE  Reached(vmm_get_table(w, t, i, TRUE), w, L, t, i)
  <1> DEFINE e == w.mem[t][i]
             r == vmm_get_table(w, t, i, TRUE)
  <1> SUFFICES Reached(r, w, L, t, i)
    OBVIOUS
  <1>0. t # 0
    BY DEF Tree
  <1>1. CASE e.present
    <2>1. r = [w |-> w, t |-> IF e.huge THEN 0 ELSE e.frame]
      BY <1>1 DEF vmm_get_table
    <2> HIDE DEF r
    <2>2. r.t = 0 \/ r.t = Below(w, t, i)
      BY <1>0, <1>1, <2>1 DEF Below
    <2>3. r.w = w
      BY <2>1
    <2> QED BY <2>2, <2>3, ExtendsItself DEF Reached, Elsewhere
  <1>2. CASE ~e.present
    <2> DEFINE n == vmm_alloc_table(w)
    <2>1. r = Entered(n, t, i)
      BY <1>2 DEF vmm_get_table
    <2>2. FreshTable(n, w) /\ n \in Results(R)
      BY TableFresh, TableAllocated
    <2>3. Below(w, t, i) = 0
      BY <1>2 DEF Below
    <2> HIDE DEF n, r
    <2>4. CASE n.t = 0
      <3>1. r.w = w /\ r.t = 0
        BY <2>1, <2>2, <2>4 DEF Entered, FreshTable
      <3> QED BY <3>1, ExtendsItself DEF Reached, Elsewhere
    <2>5. CASE n.t # 0
      <3>1. n.t \notin DOMAIN w.mem /\ n.w.mem = WithNew(w, n.t) /\ n.w \in WorkMemory
        BY <2>2, <2>5 DEF FreshTable, Results
      <3>2. r.t = n.t /\ r.w.mem = [WithNew(w, n.t) EXCEPT ![t][i] = PageAt(n.t)]
        BY <2>1, <2>2, <2>5, <3>1 DEF Entered, Results, WorkMemory
      <3>3. \A x \in DOMAIN w.mem : w.mem[x] \in [Idx -> PageEntryType]
        <4>1. w \in WorkMemory
          BY DEF OwnersApart, Counted
        <4> QED BY <4>1, WorkRecord DEF PageTableType, Idx
      <3>4. /\ DOMAIN r.w.mem = DOMAIN w.mem \cup {n.t}
            /\ r.w.mem[n.t] = EmptyTable
            /\ \A x \in DOMAIN w.mem, j \in Idx : r.w.mem[x][j] = IF x = t /\ j = i THEN PageAt(n.t) ELSE w.mem[x][j]
        BY <3>1, <3>2, <3>3 DEF WithNew
      <3>5. Grown(w, r.w, t, i, n.t)
        BY <2>5, <3>1, <3>4 DEF Grown
      <3>6. Elsewhere(w, r.w, t, i) /\ \E M : Extends(w, L, r.w, M) /\ Below(r.w, t, i) = n.t
        BY <2>3, <3>5, TreeGrown
      <3> QED BY <3>2, <3>6 DEF Reached
    <2> QED BY <2>4, <2>5
  <1> QED BY <1>1, <1>2

\* A walk that creates tables shows nothing new, and ends at the table of the
\* address unless pages run out.
WalkedTo(r, w, L, v) ==
  \E M : Extends(w, L, r.w, M) /\ (r.t = 0 \/ (r.t = Reaches(r.w, v) /\ r.t \in DOMAIN r.w.mem /\ M[r.t] = 4))

LEMMA WalkReached ==
  ASSUME NEW R, NEW w, OwnersApart(w, R), NEW L, Tree(w, L), NEW v \in Address
  PROVE  WalkedTo(Walk(w, v, TRUE), w, L, v) /\ OwnersApart(Walk(w, v, TRUE).w, R)
  <1> DEFINE r1 == vmm_get_table(w, vmm_pml4, v[1], TRUE)
             r2 == TableBelow(r1, v[2], TRUE)
             r3 == TableBelow(r2, v[3], TRUE)
  <1>0. v[1] \in Idx /\ v[2] \in Idx /\ v[3] \in Idx /\ vmm_pml4 \in DOMAIN w.mem /\ L[vmm_pml4] = 1
    BY AddressIndices DEF Tree
  <1>1. OwnersApart(r1.w, R) /\ OwnersApart(r2.w, R) /\ OwnersApart(r3.w, R)
    <2>1. OwnersApart(r1.w, R)
      BY LevelPassed
    <2> HIDE DEF r1
    <2>2. OwnersApart(r2.w, R)
      BY <2>1, LevelPassed DEF TableBelow
    <2> HIDE DEF r2
    <2> QED BY <2>1, <2>2, LevelPassed DEF TableBelow
  <1>10. Reached(r1, w, L, vmm_pml4, v[1])
    <2>1. L[vmm_pml4] < 4
      BY <1>0
    <2> QED BY <1>0, <2>1, LevelReached
  <1> HIDE DEF r1
  <1>2. PICK M1 : Extends(w, L, r1.w, M1) /\ (r1.t = 0 \/ r1.t = Below(r1.w, vmm_pml4, v[1]))
    BY <1>10 DEF Reached
  <1>3. /\ Tree(r1.w, M1) /\ vmm_pml4 \in DOMAIN r1.w.mem /\ M1[vmm_pml4] = 1
        /\ r1.t # 0 => r1.t \in DOMAIN r1.w.mem /\ M1[r1.t] = 2
    BY <1>0, <1>2 DEF Extends, Tree
  <1>4. PICK M2 : /\ Extends(r1.w, M1, r2.w, M2)
                  /\ r2.t = 0 \/ (r2.t = Below(r2.w, r1.t, v[2]) /\ r1.t # 0 /\ r1.t = Below(r2.w, vmm_pml4, v[1]))
    <2>1. CASE r1.t = 0
      BY <1>3, <2>1, ExtendsItself DEF TableBelow
    <2>2. CASE r1.t # 0
      <3>1. Reached(r2, r1.w, M1, r1.t, v[2])
        <4>1. r2 = vmm_get_table(r1.w, r1.t, v[2], TRUE)
          BY <2>2 DEF TableBelow
        <4>2. v[2] \in Idx /\ r1.t \in DOMAIN r1.w.mem /\ M1[r1.t] < 4 /\ Tree(r1.w, M1)
          BY <1>0, <1>3, <2>2
        <4>3. Reached(vmm_get_table(r1.w, r1.t, v[2], TRUE), r1.w, M1, r1.t, v[2])
          BY <1>1, <4>2, LevelReached
        <4> HIDE DEF r2
        <4> QED BY <4>1, <4>3
      <3> HIDE DEF r2
      <3>2. PICK M : Extends(r1.w, M1, r2.w, M) /\ (r2.t = 0 \/ r2.t = Below(r2.w, r1.t, v[2]))
        BY <3>1 DEF Reached
      <3>3. Below(r2.w, vmm_pml4, v[1]) = r1.t
        BY <1>0, <1>2, <1>3, <2>2, <3>2 DEF Extends
      <3> QED BY <2>2, <3>2, <3>3
    <2> QED BY <2>1, <2>2
  <1> HIDE DEF r2
  <1>5. /\ Tree(r2.w, M2) /\ vmm_pml4 \in DOMAIN r2.w.mem /\ M2[vmm_pml4] = 1
        /\ r2.t # 0 => /\ r1.t \in DOMAIN r2.w.mem /\ M2[r1.t] = 2
                       /\ r2.t \in DOMAIN r2.w.mem /\ M2[r2.t] = 3
    BY <1>0, <1>3, <1>4 DEF Extends, Tree
  <1>6. PICK M3 : /\ Extends(r2.w, M2, r3.w, M3)
                  /\ r3.t = 0 \/ (r3.t = Below(r3.w, r2.t, v[3]) /\ r2.t # 0 /\ r2.t = Below(r3.w, r1.t, v[2])
                                  /\ r1.t = Below(r3.w, vmm_pml4, v[1]))
    <2>1. CASE r2.t = 0
      BY <1>5, <2>1, ExtendsItself DEF TableBelow
    <2>2. CASE r2.t # 0
      <3>1. Reached(r3, r2.w, M2, r2.t, v[3])
        <4>1. r3 = vmm_get_table(r2.w, r2.t, v[3], TRUE)
          BY <2>2 DEF TableBelow
        <4>2. v[3] \in Idx /\ r2.t \in DOMAIN r2.w.mem /\ M2[r2.t] < 4 /\ Tree(r2.w, M2)
          BY <1>0, <1>5, <2>2
        <4>3. Reached(vmm_get_table(r2.w, r2.t, v[3], TRUE), r2.w, M2, r2.t, v[3])
          BY <1>1, <4>2, LevelReached
        <4> HIDE DEF r3
        <4> QED BY <4>1, <4>3
      <3> HIDE DEF r3
      <3>2. PICK M : Extends(r2.w, M2, r3.w, M) /\ (r3.t = 0 \/ r3.t = Below(r3.w, r2.t, v[3]))
        BY <3>1 DEF Reached
      <3>3. Below(r3.w, vmm_pml4, v[1]) = r1.t /\ Below(r3.w, r1.t, v[2]) = r2.t
        BY <1>0, <1>4, <1>5, <2>2, <3>2 DEF Extends
      <3> QED BY <2>2, <3>2, <3>3
    <2> QED BY <2>1, <2>2
  <1> HIDE DEF r3
  <1>7. Extends(w, L, r3.w, M3)
    BY <1>2, <1>4, <1>6, ExtendsTwice
  <1>8. r3.t # 0 => r3.t = Reaches(r3.w, v) /\ r3.t \in DOMAIN r3.w.mem /\ M3[r3.t] = 4
    <2> SUFFICES ASSUME r3.t # 0 PROVE r3.t = Reaches(r3.w, v) /\ r3.t \in DOMAIN r3.w.mem /\ M3[r3.t] = 4
      OBVIOUS
    <2>1. r3.t = Reaches(r3.w, v)
      BY <1>6 DEF Reaches
    <2>2. Tree(r3.w, M3) /\ r2.t \in DOMAIN r3.w.mem /\ M3[r2.t] = 3
      BY <1>5, <1>6 DEF Extends
    <2> QED BY <1>0, <1>6, <2>1, <2>2 DEF Tree
  <1>9. Walk(w, v, TRUE) = r3
    BY DEF Walk, r1, r2, r3
  <1> QED BY <1>1, <1>7, <1>8, <1>9 DEF WalkedTo

LEMMA QuotientBelow ==
  ASSUME NEW a \in Nat, NEW d \in Nat \ {0}, NEW n \in Nat, a < d * n
  PROVE  a \div d \in 0 .. n - 1 /\ a % d \in 0 .. d - 1 /\ a = d * (a \div d) + (a % d)
  <1> DEFINE q == a \div d
             m == a % d
  <1>1. q \in Nat /\ m \in 0 .. d - 1 /\ a = d * q + m
    OBVIOUS
  <1> HIDE DEF q, m
  <1>2. q < n
    <2> SUFFICES ASSUME q >= n PROVE FALSE
      BY <1>1
    <2>1. PICK k \in Nat : q = n + k
      <3>1. q - n \in Nat /\ q = n + (q - n)
        BY <1>1
      <3> QED BY <3>1
    <2>2. d * q = d * n + d * k /\ d * k \in Nat /\ d * n \in Nat
      BY <2>1
    <2> QED BY <1>1, <2>2
  <1> QED BY <1>1, <1>2 DEF q, m

\* Every cluster has an address of its own, in the part of the window.
LEMMA ClusterAddress ==
  /\ \A c \in Cluster : vmm_cluster_virt(c) \in Address /\ vmm_cluster_virt(c)[1] = SM_WINDOW
  /\ \A c, d \in Cluster : vmm_cluster_virt(c) = vmm_cluster_virt(d) => c = d
  <1> DEFINE N == SM_N
  <1>1. N \in Nat \ {0} /\ SM_CLUSTERS \in Nat /\ SM_CLUSTERS <= N * N * N /\ SM_WINDOW \in 0 .. N - 1
    BY SMAssumption, WindowAssumption
  <1> HIDE DEF N
  <1>2. ASSUME NEW c \in Cluster
        PROVE  LET a == c \div N
               IN  /\ c % N \in 0 .. N - 1 /\ a % N \in 0 .. N - 1 /\ a \div N \in 0 .. N - 1
                   /\ c = N * a + (c % N) /\ a = N * (a \div N) + (a % N)
    <2> DEFINE a == c \div N
    <2>1. c \in Nat /\ c < N * (N * N) /\ N * N \in Nat
      <3>1. c \in Nat /\ c < SM_CLUSTERS
        BY <1>1 DEF Cluster
      <3> QED BY <1>1, <3>1
    <2>2. a \in 0 .. N * N - 1 /\ c % N \in 0 .. N - 1 /\ c = N * a + (c % N)
      BY <1>1, <2>1, QuotientBelow
    <2> HIDE DEF a
    <2>3. a \in Nat /\ a < N * N
      BY <1>1, <2>1, <2>2
    <2>4. a \div N \in 0 .. N - 1 /\ a % N \in 0 .. N - 1 /\ a = N * (a \div N) + (a % N)
      BY <1>1, <2>3, QuotientBelow
    <2> QED BY <2>2, <2>4 DEF a
  <1> DEFINE hi(c)  == (c \div N) \div N
             mid(c) == (c \div N) % N
             lo(c)  == c % N
             q(c)   == c \div N
  <1>3. \A c : vmm_cluster_virt(c) = <<SM_WINDOW, hi(c), mid(c), lo(c)>>
    BY DEF vmm_cluster_virt, N
  <1>4. \A c \in Cluster : /\ hi(c) \in 0 .. N - 1 /\ mid(c) \in 0 .. N - 1 /\ lo(c) \in 0 .. N - 1
                           /\ c = N * q(c) + lo(c) /\ q(c) = N * hi(c) + mid(c)
    BY <1>2
  <1> HIDE DEF hi, mid, lo, q
  <1>5. Idx = 0 .. N - 1
    BY DEF Idx, N
  <1>6. \A c \in Cluster : vmm_cluster_virt(c) \in Address /\ vmm_cluster_virt(c)[1] = SM_WINDOW
    BY <1>1, <1>3, <1>4, <1>5 DEF Address
  <1>7. ASSUME NEW c \in Cluster, NEW d \in Cluster, vmm_cluster_virt(c) = vmm_cluster_virt(d) PROVE c = d
    <2>1. hi(c) = hi(d) /\ mid(c) = mid(d) /\ lo(c) = lo(d)
      BY <1>3, <1>7
    <2>2. q(c) = q(d)
      BY <1>4, <2>1
    <2> QED BY <1>4, <2>1, <2>2
  <1> QED BY <1>6, <1>7

\* What vmm_unmap_page and a map show.
LEMMA UnmapShows ==
  ASSUME NEW R, NEW w, OwnersApart(w, R), NEW L, Tree(w, L), NEW v \in Address, NEW z, z = vmm_unmap_page(w, v)
  PROVE  Tree(z, L) /\ \A u \in Address : Shown(z, u) = IF u = v THEN NoPage ELSE Shown(w, u)
  <1> DEFINE t == Reaches(w, v)
             i == v[4]
  <1>1. z = IF t = 0 THEN w ELSE WithEntry(w, t, i, NoPage)
    <2>1. Walk(w, v, FALSE) = [w |-> w, t |-> t]
      BY WalkShows
    <2> DEFINE x == Walk(w, v, FALSE)
    <2>2. z = IF x.t = 0 THEN w ELSE WithEntry(w, x.t, v[4], NoPage)
      BY DEF vmm_unmap_page, UnmappedAt, WithEntry
    <2>3. x.t = t
      <3>1. x = [w |-> w, t |-> t]
        BY <2>1
      <3> HIDE DEF t, x
      <3> QED BY <3>1
    <2> HIDE DEF x, t
    <2> QED BY <2>2, <2>3
  <1>2. CASE t = 0
    BY <1>1, <1>2 DEF Shown
  <1>3. CASE t # 0
    <2>1. t \in DOMAIN w.mem /\ L[t] = 4
      BY <1>3, WalkDescends DEF Reaches
    <2>2. w \in WorkMemory /\ i \in Idx
      BY AddressIndices DEF OwnersApart, Counted
    <2>3. /\ Tree(z, L)
          /\ \A u \in Address : Shown(z, u) = IF Reaches(w, u) = t /\ u[4] = i THEN NoPage ELSE Shown(w, u)
      <3> HIDE DEF t, i
      <3>1. z = WithEntry(w, t, i, NoPage)
        BY <1>1, <1>3
      <3> QED BY <2>1, <2>2, <3>1, LeafWritten
    <2>4. \A u \in Address : Reaches(w, u) = t /\ u[4] = i <=> u = v
      BY <1>3, OneTableEach, AddressIndices
    <2> QED BY <2>3, <2>4
  <1> QED BY <1>2, <1>3

\* A walk to the table of v and a write there.
WrittenAt(z, w, v, e) == \E M : Tree(z, M) /\ \A u \in Address : Shown(z, u) = IF u = v THEN e ELSE Shown(w, u)
ShowsSame(z, w) == \E M : Tree(z, M) /\ \A u \in Address : Shown(z, u) = Shown(w, u)

LEMMA WalkWrites ==
  ASSUME NEW R, NEW w, OwnersApart(w, R), NEW L, Tree(w, L), NEW v \in Address, NEW e,
         NEW r, r = Walk(w, v, TRUE)
  PROVE  ShowsSame(r.w, w) /\ (r.t # 0 => WrittenAt(WithEntry(r.w, r.t, v[4], e), w, v, e))
  <1>1. WalkedTo(r, w, L, v) /\ OwnersApart(r.w, R)
    BY WalkReached
  <1>2. PICK M : Extends(w, L, r.w, M) /\ (r.t = 0 \/ (r.t = Reaches(r.w, v) /\ r.t \in DOMAIN r.w.mem /\ M[r.t] = 4))
    BY <1>1 DEF WalkedTo
  <1>3. Tree(r.w, M) /\ \A u \in Address : Shown(r.w, u) = Shown(w, u)
    BY <1>2 DEF Extends
  <1>4. ASSUME r.t # 0 PROVE WrittenAt(WithEntry(r.w, r.t, v[4], e), w, v, e)
    <2> DEFINE y == r.w
               t == r.t
               i == v[4]
               z == WithEntry(y, t, i, e)
    <2>1. y \in WorkMemory /\ i \in Idx
      BY <1>1, AddressIndices DEF OwnersApart, Counted
    <2>5. /\ t # 0 /\ t = Reaches(y, v) /\ t \in DOMAIN y.mem /\ M[t] = 4 /\ Tree(y, M)
          /\ \A u \in Address : Shown(y, u) = Shown(w, u)
      BY <1>2, <1>3, <1>4
    <2> HIDE DEF y, t, i
    <2>2. /\ Tree(z, M)
          /\ \A u \in Address : Shown(z, u) = IF Reaches(y, u) = t /\ u[4] = i THEN e ELSE Shown(y, u)
      BY <2>1, <2>5, LeafWritten
    <2> HIDE DEF z
    <2>3. ASSUME NEW u \in Address PROVE Reaches(y, u) = t /\ u[4] = i <=> u = v
      <3>1. Reaches(y, u) = t => u[1] = v[1] /\ u[2] = v[2] /\ u[3] = v[3]
        BY <2>5, OneTableEach
      <3> QED BY <2>5, <3>1, AddressIndices DEF i
    <2>4. \A u \in Address : Shown(z, u) = IF u = v THEN e ELSE Shown(w, u)
      BY <2>2, <2>3, <2>5
    <2>6. WrittenAt(z, w, v, e)
      BY <2>2, <2>4 DEF WrittenAt
    <2> QED BY <2>6 DEF z, y, t, i
  <1> QED BY <1>3, <1>4 DEF ShowsSame

LEMMA MapShows ==
  ASSUME NEW R, NEW w, OwnersApart(w, R), NEW L, Tree(w, L), NEW v \in Address, NEW f,
         NEW z, z = vmm_map_page(w, v, f)
  PROVE  \E M : Tree(z, M) /\ \A u \in Address : u # v => Shown(z, u) = Shown(w, u)
  <1> DEFINE r == Walk(w, v, TRUE)
             e == PageAt(f)
  <1>1. ShowsSame(r.w, w) /\ (r.t # 0 => WrittenAt(WithEntry(r.w, r.t, v[4], e), w, v, e))
    BY WalkWrites
  <1>2. z = r.w \/ (r.t # 0 /\ z = WithEntry(r.w, r.t, v[4], e))
    BY DEF vmm_map_page, MappedAt, WithEntry
  <1> HIDE DEF r, e
  <1>3. ShowsSame(z, w) \/ WrittenAt(z, w, v, e)
    BY <1>1, <1>2
  <1>4. CASE ShowsSame(z, w)
    BY <1>4 DEF ShowsSame
  <1>5. CASE WrittenAt(z, w, v, e)
    BY <1>5 DEF WrittenAt
  <1> QED BY <1>3, <1>4, <1>5

\* cluster_phys_map and the tables agree.
RecordedAs(k, c) == IF k.phys[c] = 0 THEN NoPage ELSE PageAt(k.phys[c])
WindowShows(k) == (\E L : Tree(k.w, L)) /\ \A c \in Cluster : Shown(k.w, vmm_cluster_virt(c)) = RecordedAs(k, c)

LEMMA ClusterMapShows ==
  ASSUME NEW R, NEW k \in [w : WorkMemory, phys : [Cluster -> Nat]], WindowShows(k),
         NEW w, OwnersApart(w, R), w.mem = k.w.mem, NEW c \in Cluster, NEW f \in Nat \ {0},
         NEW m, m = vmm_cluster_map([k EXCEPT !.w = w], c, f)
  PROVE  WindowShows(m)
  <1> DEFINE v == vmm_cluster_virt(c)
             r == Walk(w, v, TRUE)
             e == PageAt(f)
             z == WithEntry(r.w, r.t, v[4], e)
  <1>1. PICK L : Tree(k.w, L)
    BY DEF WindowShows
  <1>2. Tree(w, L) /\ \A u \in Address : Shown(w, u) = Shown(k.w, u)
    BY <1>1 DEF Tree, Below, Shown, Reaches
  <1>3. ShowsSame(r.w, w) /\ (r.t # 0 => WrittenAt(z, w, v, e))
    <2>1. v \in Address
      BY ClusterAddress
    <2> HIDE DEF v, e
    <2> QED BY <1>2, <2>1, WalkWrites
  <1>4. \/ r.t = 0 /\ m = [w |-> r.w, phys |-> k.phys]
        \/ r.t # 0 /\ m = [w |-> z, phys |-> [k.phys EXCEPT ![c] = f]]
    <2> DEFINE j == [k EXCEPT !.w = w]
    <2>1. j = [w |-> w, phys |-> k.phys]
      OBVIOUS
    <2>2. m = Backed(j, Walk(j.w, v, TRUE), c, f)
      BY DEF vmm_cluster_map
    <2> HIDE DEF j
    <2>3. j.w = w /\ j.phys = k.phys /\ m = Backed(j, r, c, f)
      BY <2>1, <2>2
    <2> HIDE DEF r
    <2>4. CASE r.t = 0
      BY <2>1, <2>3, <2>4 DEF Backed
    <2>5. CASE r.t # 0
      BY <2>3, <2>5 DEF Backed, WithEntry
    <2> QED BY <2>4, <2>5
  <1> HIDE DEF r, z, e
  <1>5. CASE r.t = 0
    <2>1. m.w = r.w /\ m.phys = k.phys
      BY <1>4, <1>5
    <2>2. \A d \in Cluster : RecordedAs(m, d) = RecordedAs(k, d)
      BY <2>1 DEF RecordedAs
    <2>3. PICK M : Tree(r.w, M) /\ \A u \in Address : Shown(r.w, u) = Shown(w, u)
      BY <1>3 DEF ShowsSame
    <2>4. \A d \in Cluster : Shown(m.w, vmm_cluster_virt(d)) = RecordedAs(m, d)
      BY <1>2, <2>1, <2>2, <2>3, ClusterAddress DEF WindowShows
    <2> QED BY <2>1, <2>3, <2>4 DEF WindowShows
  <1>6. CASE r.t # 0
    <2>1. m.w = z /\ m.phys = [k.phys EXCEPT ![c] = f]
      BY <1>4, <1>6
    <2>2. \A d \in Cluster : RecordedAs(m, d) = IF d = c THEN e ELSE RecordedAs(k, d)
      BY <2>1 DEF RecordedAs, e
    <2>3. PICK M : Tree(z, M) /\ \A u \in Address : Shown(z, u) = IF u = v THEN e ELSE Shown(w, u)
      BY <1>3, <1>6 DEF WrittenAt
    <2>4. ASSUME NEW d \in Cluster PROVE Shown(m.w, vmm_cluster_virt(d)) = RecordedAs(m, d)
      <3>1. vmm_cluster_virt(d) \in Address /\ (vmm_cluster_virt(d) = v <=> d = c)
        BY ClusterAddress
      <3> HIDE DEF v
      <3>2. Shown(k.w, vmm_cluster_virt(d)) = RecordedAs(k, d)
        BY DEF WindowShows
      <3> QED BY <1>2, <2>1, <2>2, <2>3, <3>1, <3>2
    <2> QED BY <2>1, <2>3, <2>4 DEF WindowShows
  <1> QED BY <1>5, <1>6

LEMMA ClusterUnmapShows ==
  ASSUME NEW H, NEW k, WindowApart(k, H), WindowShows(k), NEW c \in Cluster
  PROVE  WindowShows(vmm_cluster_unmap(k, c))
  <1>1. CASE k.phys[c] = 0
    BY <1>1 DEF vmm_cluster_unmap
  <1>2. CASE k.phys[c] # 0
    <2> DEFINE v == vmm_cluster_virt(c)
               z == vmm_unmap_page(k.w, v)
               m == [w |-> z, phys |-> [k.phys EXCEPT ![c] = 0]]
    <2>1. vmm_cluster_unmap(k, c) = m
      BY <1>2 DEF vmm_cluster_unmap
    <2>2. PICK L : Tree(k.w, L)
      BY DEF WindowShows
    <2>3. Tree(z, L) /\ \A u \in Address : Shown(z, u) = IF u = v THEN NoPage ELSE Shown(k.w, u)
      <3>1. v \in Address /\ OwnersApart(k.w, BackingOf(k.phys) \cup H)
        BY ClusterAddress DEF WindowApart
      <3> HIDE DEF v
      <3> QED BY <2>2, <3>1, UnmapShows
    <2> HIDE DEF z
    <2>4. ASSUME NEW d \in Cluster PROVE Shown(m.w, vmm_cluster_virt(d)) = RecordedAs(m, d)
      <3>1. vmm_cluster_virt(d) \in Address /\ (vmm_cluster_virt(d) = v <=> d = c)
        BY ClusterAddress
      <3>2. RecordedAs(m, d) = IF d = c THEN NoPage ELSE RecordedAs(k, d)
        BY DEF RecordedAs, WindowApart
      <3>3. Shown(k.w, vmm_cluster_virt(d)) = RecordedAs(k, d)
        BY DEF WindowShows
      <3> HIDE DEF v
      <3> QED BY <2>3, <3>1, <3>2, <3>3
    <2>5. WindowShows(m)
      BY <2>3, <2>4 DEF WindowShows
    <2> QED BY <2>1, <2>5
  <1> QED BY <1>1, <1>2

\* Pages of the window are taken and given back without a change to the tables.
LEMMA SameTablesShow ==
  ASSUME NEW k, WindowShows(k), NEW m, m.w.mem = k.w.mem, m.phys = k.phys
  PROVE  WindowShows(m)
  <1>1. PICK L : Tree(k.w, L)
    BY DEF WindowShows
  <1>2. Tree(m.w, L) /\ \A u : Shown(m.w, u) = Shown(k.w, u)
    BY <1>1 DEF Tree, Below, Shown, Reaches
  <1> QED BY <1>2 DEF WindowShows, RecordedAs

LEMMA TablesUntouched ==
  /\ \A w, S : w \in WorkMemory => Taken(w, S).mem = w.mem
  /\ \A w, p, n : w \in WorkMemory => pmm_free_pages(w, p, n).mem = w.mem
  BY DEF Taken, pmm_free_pages, WorkMemory

LEMMA AllocatedShows ==
  ASSUME NEW H, NEW k, WindowApart(k, H), WindowShows(k)
  PROVE  WindowShows(brainfs_fat_alloc_cluster(k))
  <1> DEFINE f == pmm_find_free_pages(k.w, 1, pmm_total_pages)
             w == Taken(k.w, {f})
             m == vmm_cluster_map([k EXCEPT !.w = w], 2, f)
  <1>1. brainfs_fat_alloc_cluster(k) = IF f = 0 THEN k ELSE m
    BY DEF brainfs_fat_alloc_cluster, ClusterWith
  <1>2. ASSUME f # 0 PROVE WindowShows(m)
    <2>1. f \in Nat \ {0} /\ OwnersApart(w, BackingOf(k.phys) \cup H \cup {f})
      BY <1>2, PageFresh
    <2>2. w.mem = k.w.mem /\ k \in [w : WorkMemory, phys : [Cluster -> Nat]] /\ 2 \in Cluster
      <3>1. k \in [w : WorkMemory, phys : [Cluster -> Nat]]
        BY DEF WindowApart
      <3>2. 2 \in Cluster
        BY SMAssumption DEF Cluster
      <3> QED BY <3>1, <3>2, TablesUntouched
    <2> HIDE DEF f, w, m
    <2>3. m = vmm_cluster_map([k EXCEPT !.w = w], 2, f)
      BY DEF m
    <2> QED BY <2>1, <2>2, <2>3, ClusterMapShows
  <1> HIDE DEF f, m
  <1> QED BY <1>1, <1>2

LEMMA ResolvedShows ==
  ASSUME NEW H, NEW k, WindowApart(k, H), WindowShows(k), NEW c \in Cluster
  PROVE  WindowShows(vmm_cluster_resolve(k, c))
  <1> DEFINE f == pmm_find_free_pages(k.w, 1, pmm_total_pages)
             w == Taken(k.w, {f})
             m == vmm_cluster_map([k EXCEPT !.w = w], c, f)
  <1>1. vmm_cluster_resolve(k, c) = k \/ (f # 0 /\ vmm_cluster_resolve(k, c) = Kept(m, c, f))
    BY DEF vmm_cluster_resolve, ResolvedWith
  <1>2. ASSUME f # 0 PROVE WindowShows(Kept(m, c, f))
    <2>1. f \in Nat \ {0} /\ f \notin BackingOf(k.phys) \cup H /\ OwnersApart(w, BackingOf(k.phys) \cup H \cup {f})
      BY <1>2, PageFresh
    <2>2. w.mem = k.w.mem /\ k \in [w : WorkMemory, phys : [Cluster -> Nat]]
      BY TablesUntouched DEF WindowApart
    <2> HIDE DEF f, w, m
    <2>3. m = vmm_cluster_map([k EXCEPT !.w = w], c, f)
      BY DEF m
    <2>4. WindowShows(m)
      BY <2>1, <2>2, <2>3, ClusterMapShows
    <2>5. m \in [w : WorkMemory, phys : [Cluster -> Nat]]
      <3>1. WindowApart(m, H)
        BY <2>1, <2>3, ClusterMapped
      <3> QED BY <3>1 DEF WindowApart
    <2>6. CASE Kept(m, c, f) = m
      BY <2>4, <2>6
    <2>7. CASE Kept(m, c, f) # m
      <3> DEFINE v == pmm_free_pages(m.w, f, 1)
      <3>1. v.mem = m.w.mem
        BY <2>5, TablesUntouched
      <3>2. Kept(m, c, f) = [m EXCEPT !.w = v]
        BY <2>7 DEF Kept
      <3> HIDE DEF v
      <3>3. Kept(m, c, f) = [w |-> v, phys |-> m.phys]
        BY <2>5, <3>2
      <3>4. Kept(m, c, f).w.mem = m.w.mem /\ Kept(m, c, f).phys = m.phys
        BY <3>1, <3>3
      <3> QED BY <2>4, <3>4, SameTablesShow
    <2> QED BY <2>6, <2>7
  <1> HIDE DEF f, m
  <1> QED BY <1>1, <1>2

LEMMA ChainFreedShows ==
  ASSUME NEW H, NEW k, WindowApart(k, H), WindowShows(k), NEW c \in Cluster
  PROVE  WindowShows(brainfs_fat_free_chain(k, c))
  <1> DEFINE m == vmm_cluster_unmap(k, c)
             v == pmm_free_pages(m.w, k.phys[c], 1)
  <1>1. WindowShows(m) /\ m \in [w : WorkMemory, phys : [Cluster -> Nat]]
    BY ClusterUnmapShows, ClusterLetGo DEF WindowApart
  <1>2. brainfs_fat_free_chain(k, c) = k \/ brainfs_fat_free_chain(k, c) = [m EXCEPT !.w = v]
    BY DEF brainfs_fat_free_chain
  <1>3. v.mem = m.w.mem
    <2> HIDE DEF m
    <2> QED BY <1>1, TablesUntouched
  <1> HIDE DEF m, v
  <1>4. [m EXCEPT !.w = v] = [w |-> v, phys |-> m.phys]
    BY <1>1
  <1> DEFINE y == [w |-> v, phys |-> m.phys]
  <1>5. y.w.mem = m.w.mem /\ y.phys = m.phys
    BY <1>3
  <1> HIDE DEF y
  <1>6. WindowShows(y)
    BY <1>1, <1>5, SameTablesShow
  <1> QED BY <1>2, <1>4, <1>6 DEF y

(***************************************************************************)
(* The tables the boot leaves: the tables of long mode at their places,    *)
(* nothing in the window.                                                  *)
(***************************************************************************)
WindowEmpty(w) == \E L : Tree(w, L) /\ Below(w, vmm_pml4, SM_WINDOW) = 0
BootTree(w) ==
  \E L : /\ Tree(w, L) /\ Below(w, vmm_pml4, SM_WINDOW) = 0
         /\ Below(w, vmm_pml4, 0) = vmm_kpdpt /\ Below(w, vmm_kpdpt, 0) = vmm_kpd

LEMMA LongModeTree ==
  ASSUME NEW w \in NoTables
  PROVE  BootTree(enter_long_mode(w))
  <1> DEFINE z == enter_long_mode(w)
             E(x) == IF x = vmm_kpd THEN [PageAt(0) EXCEPT !.huge = TRUE] ELSE PageAt(x + 1)
             m == [x \in {vmm_pml4, vmm_kpdpt, vmm_kpd} |-> [EmptyTable EXCEPT ![0] = E(x)]]
             L == [x \in {1, 2, 3} |-> x]
  <1>1. z.mem = m
    BY DEF enter_long_mode, NoTables, WorkMemory
  <1>2. vmm_pml4 = 1 /\ vmm_kpdpt = 2 /\ vmm_kpd = 3
    BY DEF vmm_pml4, vmm_kpdpt, vmm_kpd
  <1>3. 0 \in Idx /\ SM_WINDOW \in Idx /\ SM_WINDOW # 0
    BY SMAssumption, WindowAssumption DEF Idx
  <1>4. /\ DOMAIN z.mem = {1, 2, 3}
        /\ \A x \in {1, 2, 3}, j \in Idx : z.mem[x][j] = IF j = 0 THEN E(x) ELSE NoPage
    <2> HIDE DEF E
    <2>1. m = [x \in {1, 2, 3} |-> [EmptyTable EXCEPT ![0] = E(x)]]
      BY <1>2
    <2>2. EmptyTable = [i \in Idx |-> NoPage]
      BY DEF EmptyTable, Idx
    <2> HIDE DEF m
    <2> QED BY <1>1, <1>3, <2>1, <2>2
  <1>5. /\ ~NoPage.present /\ E(3).huge
        /\ E(1).present /\ ~E(1).huge /\ E(1).frame = 2
        /\ E(2).present /\ ~E(2).huge /\ E(2).frame = 3
    BY <1>2 DEF PageAt, NoPage
  <1> HIDE DEF z, E, m
  <1>6. \A x \in {1, 2, 3}, j \in Idx : Below(z, x, j) = IF j = 0 /\ x = 1 THEN 2 ELSE IF j = 0 /\ x = 2 THEN 3 ELSE 0
    BY <1>4, <1>5 DEF Below
  <1>7. L \in [{1, 2, 3} -> 1 .. 4] /\ L[1] = 1 /\ L[2] = 2 /\ L[3] = 3
    OBVIOUS
  <1> HIDE DEF L
  <1>8. Tree(z, L)
    <2>1. \A t \in DOMAIN z.mem, i \in Idx : L[t] < 4 /\ Below(z, t, i) # 0 =>
            Below(z, t, i) \in DOMAIN z.mem /\ L[Below(z, t, i)] = L[t] + 1
      BY <1>4, <1>6, <1>7
    <2>2. \A t, u \in DOMAIN z.mem, i, j \in Idx : Below(z, t, i) # 0 /\ Below(z, t, i) = Below(z, u, j) => t = u /\ i = j
      BY <1>4, <1>6
    <2> QED BY <1>2, <1>4, <1>7, <2>1, <2>2 DEF Tree
  <1>9. /\ Below(z, vmm_pml4, SM_WINDOW) = 0
        /\ Below(z, vmm_pml4, 0) = vmm_kpdpt /\ Below(z, vmm_kpdpt, 0) = vmm_kpd
    BY <1>2, <1>3, <1>6
  <1>10. BootTree(z)
    BY <1>8, <1>9 DEF BootTree
  <1> QED BY <1>10 DEF z

\* A new table takes the place of what an entry of the third level led to.
Replaces(w, z, p, i, n) ==
  /\ n # 0 /\ n \notin DOMAIN w.mem /\ DOMAIN z.mem = DOMAIN w.mem \cup {n}
  /\ \A x \in DOMAIN w.mem, j \in Idx : z.mem[x][j] = IF x = p /\ j = i THEN PageAt(n) ELSE w.mem[x][j]

LEMMA TreeReplaced ==
  ASSUME NEW w, NEW L, Tree(w, L), NEW p \in DOMAIN w.mem, L[p] = 3, NEW i, NEW z, NEW n, Replaces(w, z, p, i, n)
  PROVE  (\E M : Tree(z, M)) /\ Elsewhere(w, z, p, i)
  <1> DEFINE M == [x \in DOMAIN w.mem \cup {n} |-> IF x = n THEN 4 ELSE L[x]]
  <1>1. /\ n # 0 /\ n \notin DOMAIN w.mem /\ DOMAIN z.mem = DOMAIN w.mem \cup {n}
        /\ \A x \in DOMAIN w.mem, j \in Idx : z.mem[x][j] = IF x = p /\ j = i THEN PageAt(n) ELSE w.mem[x][j]
    BY DEF Replaces
  <1>2. PageAt(n).present /\ ~PageAt(n).huge /\ PageAt(n).frame = n
    BY DEF PageAt
  <1>3. \A x \in DOMAIN w.mem, j \in Idx : Below(z, x, j) = IF x = p /\ j = i THEN n ELSE Below(w, x, j)
    <2> SUFFICES ASSUME NEW x \in DOMAIN w.mem, NEW j \in Idx
                 PROVE  Below(z, x, j) = IF x = p /\ j = i THEN n ELSE Below(w, x, j)
      OBVIOUS
    <2>1. CASE x = p /\ j = i
      <3>1. z.mem[x][j] = PageAt(n) /\ x # 0
        BY <1>1, <2>1 DEF Tree
      <3> QED BY <1>2, <2>1, <3>1 DEF Below
    <2>2. CASE ~(x = p /\ j = i)
      <3>1. z.mem[x][j] = w.mem[x][j]
        BY <1>1, <2>2
      <3> QED BY <2>2, <3>1 DEF Below
    <2> QED BY <2>1, <2>2
  <1>4. /\ M \in [DOMAIN z.mem -> 1 .. 4] /\ M[n] = 4
        /\ \A x \in DOMAIN w.mem : M[x] = L[x] /\ x # n
    BY <1>1 DEF Tree
  <1> HIDE DEF M
  <1>5. Tree(z, M)
    <2>1. 0 \notin DOMAIN z.mem /\ vmm_pml4 \in DOMAIN z.mem /\ M[vmm_pml4] = 1
      BY <1>1, <1>4 DEF Tree
    <2>2. ASSUME NEW t \in DOMAIN z.mem, NEW j \in Idx, M[t] < 4, Below(z, t, j) # 0
          PROVE  Below(z, t, j) \in DOMAIN z.mem /\ M[Below(z, t, j)] = M[t] + 1
      <3>1. t \in DOMAIN w.mem
        BY <1>1, <1>4, <2>2
      <3>2. CASE t = p /\ j = i
        BY <1>1, <1>3, <1>4, <3>1, <3>2
      <3>3. CASE ~(t = p /\ j = i)
        <4>1. Below(z, t, j) = Below(w, t, j)
          BY <1>3, <3>1, <3>3
        <4> QED BY <1>1, <1>4, <2>2, <3>1, <4>1 DEF Tree
      <3> QED BY <3>2, <3>3
    <2>3. ASSUME NEW t \in DOMAIN z.mem, NEW u \in DOMAIN z.mem, NEW j \in Idx, NEW k \in Idx,
                 M[t] < 4, M[u] < 4, Below(z, t, j) # 0, Below(z, t, j) = Below(z, u, k)
          PROVE  t = u /\ j = k
      <3>1. t \in DOMAIN w.mem /\ u \in DOMAIN w.mem /\ L[t] < 4 /\ L[u] < 4
        BY <1>1, <1>4, <2>3
      <3>3. Below(w, t, j) # n /\ Below(w, u, k) # n
        BY <1>1, <3>1 DEF Tree
      <3>4. CASE t = p /\ j = i
        BY <1>3, <2>3, <3>1, <3>3, <3>4
      <3>5. CASE u = p /\ k = i
        BY <1>3, <2>3, <3>1, <3>3, <3>5
      <3>6. CASE ~(t = p /\ j = i) /\ ~(u = p /\ k = i)
        <4>1. Below(z, t, j) = Below(w, t, j) /\ Below(z, u, k) = Below(w, u, k)
          BY <1>3, <3>1, <3>6
        <4>2. Below(w, t, j) # 0 /\ Below(w, t, j) = Below(w, u, k)
          BY <2>3, <4>1
        <4> QED BY <3>1, <4>2 DEF Tree
      <3> QED BY <3>4, <3>5, <3>6
    <2> QED BY <1>4, <2>1, <2>2, <2>3 DEF Tree
  <1>6. Elsewhere(w, z, p, i)
    BY <1>3 DEF Elsewhere
  <1> QED BY <1>5, <1>6

LEMMA LinkReplaces ==
  ASSUME NEW R, NEW w, OwnersApart(w, R), NEW n, n = vmm_alloc_table(w), n.t # 0,
         NEW f, NEW p \in DOMAIN w.mem, NEW i,
         NEW u, u = [n EXCEPT !.w.mem[n.t] = Small(f), !.w.mem[p][i] = PageAt(n.t)]
  PROVE  Replaces(w, u.w, p, i, n.t)
  <1>1. n.t \notin DOMAIN w.mem /\ n.w.mem = WithNew(w, n.t) /\ n.w \in WorkMemory /\ n = [w |-> n.w, t |-> n.t]
    BY TableFresh, TableAllocated DEF FreshTable, Results
  <1> DEFINE table == Small(f)
             e == PageAt(n.t)
             w1 == WithTable(n.w, n.t, table)
  <1>2. u.w = WithEntry(w1, p, i, e)
    BY <1>1 DEF WithTable, WithEntry
  <1> HIDE DEF table
  <1>3. w1.mem = [WithNew(w, n.t) EXCEPT ![n.t] = table] /\ w1 = [bitmap |-> n.w.bitmap, free |-> n.w.free, mem |-> w1.mem]
    BY <1>1 DEF WithTable, WorkMemory
  <1>4. /\ DOMAIN w1.mem = DOMAIN w.mem \cup {n.t}
        /\ \A x \in DOMAIN w.mem : w1.mem[x] = w.mem[x]
    BY <1>1, <1>3 DEF WithNew
  <1> HIDE DEF w1, e
  <1>5. u.w.mem = [w1.mem EXCEPT ![p][i] = e]
    <2> DEFINE y == WithEntry(w1, p, i, e)
    <2>1. y = [bitmap |-> n.w.bitmap, free |-> n.w.free, mem |-> [w1.mem EXCEPT ![p][i] = e]]
      BY <1>3 DEF WithEntry
    <2>2. u.w = y
      BY <1>2
    <2> HIDE DEF y
    <2>3. y.mem = [w1.mem EXCEPT ![p][i] = e]
      BY <2>1
    <2> QED BY <2>2, <2>3
  <1>6. \A x \in DOMAIN w.mem : w.mem[x] \in [Idx -> PageEntryType]
    <2>1. w \in WorkMemory
      BY DEF OwnersApart, Counted
    <2> QED BY <2>1, WorkRecord DEF PageTableType, Idx
  <1>7. /\ DOMAIN u.w.mem = DOMAIN w.mem \cup {n.t}
        /\ \A x \in DOMAIN w.mem, j \in Idx : u.w.mem[x][j] = IF x = p /\ j = i THEN e ELSE w.mem[x][j]
    BY <1>4, <1>5, <1>6
  <1> QED BY <1>1, <1>7 DEF Replaces, e

\* One more table in the directory of the identity mapping.
Linked(n, f, i) ==
  IF n.t = 0 THEN n ELSE [n EXCEPT !.w.mem[n.t] = Small(f), !.w.mem[vmm_kpd][i] = PageAt(n.t)]

LEMMA BootReplaced ==
  ASSUME NEW R, NEW w, OwnersApart(w, R), BootTree(w), NEW n, n = vmm_alloc_table(w), NEW f, NEW i,
         NEW r, r = Linked(n, f, i)
  PROVE  BootTree(r.w)
  <1>1. CASE n.t = 0
    BY <1>1, TableFresh DEF FreshTable, Linked
  <1>2. CASE n.t # 0
    <2>1. PICK L : /\ Tree(w, L) /\ Below(w, vmm_pml4, SM_WINDOW) = 0
                   /\ Below(w, vmm_pml4, 0) = vmm_kpdpt /\ Below(w, vmm_kpdpt, 0) = vmm_kpd
      BY DEF BootTree
    <2>2. 0 \in Idx /\ SM_WINDOW \in Idx
      BY SMAssumption, WindowAssumption DEF Idx
    <2>3. vmm_pml4 = 1 /\ vmm_kpdpt = 2 /\ vmm_kpd = 3
      BY DEF vmm_pml4, vmm_kpdpt, vmm_kpd
    <2>4. {1, 2, 3} \subseteq DOMAIN w.mem /\ L[3] = 3
      <3>1. 1 \in DOMAIN w.mem /\ L[1] = 1 /\ L[1] < 4
        BY <2>1, <2>3 DEF Tree
      <3>2. 2 \in DOMAIN w.mem /\ L[2] = 2 /\ L[2] < 4
        BY <2>1, <2>2, <2>3, <3>1 DEF Tree
      <3>3. 3 \in DOMAIN w.mem /\ L[3] = 3
        BY <2>1, <2>2, <2>3, <3>2 DEF Tree
      <3> QED BY <3>1, <3>2, <3>3
    <2>5. vmm_kpd \in DOMAIN w.mem /\ L[vmm_kpd] = 3
      BY <2>3, <2>4
    <2>6. r = [n EXCEPT !.w.mem[n.t] = Small(f), !.w.mem[vmm_kpd][i] = PageAt(n.t)]
      BY <1>2 DEF Linked
    <2>7. Replaces(w, r.w, vmm_kpd, i, n.t)
      BY <1>2, <2>5, <2>6, LinkReplaces
    <2>8. (\E M : Tree(r.w, M)) /\ Elsewhere(w, r.w, vmm_kpd, i)
      BY <2>1, <2>5, <2>7, TreeReplaced
    <2>9. \A x \in {1, 2}, j \in Idx : Below(r.w, x, j) = Below(w, x, j)
      BY <2>3, <2>4, <2>8 DEF Elsewhere
    <2> QED BY <2>1, <2>2, <2>3, <2>8, <2>9 DEF BootTree
  <1> QED BY <1>1, <1>2

LEMMA BootStepped ==
  ASSUME NEW R, NEW r \in Results(R), BootTree(r.w), NEW gm
  PROVE  BootTree(IdentityStep(r, gm).w)
  <1> DEFINE w == r.w
             pd == w.mem[w.mem[vmm_pml4][0].frame][0].frame
             n == vmm_alloc_table(w)
             f == (gm[1] * SM_N + gm[2]) * SM_N
             u == Linked(n, f, gm[1])
  <1>1. pd = vmm_kpd
    <2>1. Below(w, vmm_pml4, 0) = vmm_kpdpt /\ Below(w, vmm_kpdpt, 0) = vmm_kpd
      BY DEF BootTree
    <2>2. vmm_kpdpt # 0 /\ vmm_kpd # 0
      BY DEF vmm_kpdpt, vmm_kpd
    <2>3. w.mem[vmm_pml4][0].frame = vmm_kpdpt /\ w.mem[vmm_kpdpt][0].frame = vmm_kpd
      BY <2>1, <2>2 DEF Below
    <2> QED BY <2>3
  <1>2. IdentityStep(r, gm) = r \/ IdentityStep(r, gm) = u
    <2>1. IdentityStep(r, gm) = IF r.t = 0 \/ gm[1] = 0 \/ r.w.mem[pd][gm[1]].huge THEN r ELSE Replaced(n, pd, gm)
      BY DEF IdentityStep
    <2> HIDE DEF pd, n
    <2> QED BY <1>1, <2>1 DEF Replaced, Linked
  <1>3. BootTree(u.w)
    <2>1. OwnersApart(w, R)
      BY DEF Results
    <2> DEFINE i == gm[1]
    <2>2. u = Linked(n, f, i)
      OBVIOUS
    <2>3. n = vmm_alloc_table(w) /\ BootTree(w)
      OBVIOUS
    <2> HIDE DEF u, f, i, n, w
    <2> QED BY <2>1, <2>2, <2>3, BootReplaced
  <1> QED BY <1>2, <1>3

LEMMA BootFirst ==
  ASSUME NEW R, NEW w, OwnersApart(w, R), BootTree(w)
  PROVE  BootTree(FirstTable(vmm_alloc_table(w)).w)
  <1> DEFINE n == vmm_alloc_table(w)
             u == FirstTable(n)
             f == 0
             i == 0
  <1>1. u = Linked(n, f, i)
    BY DEF FirstTable, Linked
  <1>2. n = vmm_alloc_table(w)
    OBVIOUS
  <1> HIDE DEF u, n, f, i
  <1>3. BootTree(u.w)
    BY <1>1, <1>2, BootReplaced
  <1> QED BY <1>3 DEF u, n

\* The kernel's tables are not in the window.
LEMMA KernelOutside ==
  ASSUME NEW R, NEW c \in Results(R), BootTree(c.w)
  PROVE  WindowEmpty(KernelMapped(c).w)
  <1> DEFINE K == SM_KERNEL[1]
             d == vmm_get_table(c.w, vmm_pml4, K, TRUE)
             e == TableBelow(d, K, TRUE)
             n == vmm_alloc_table(e.w)
             f == 0
             i == SM_KERNEL[2]
             g == [n EXCEPT !.w.mem[n.t] = Small(f), !.w.mem[e.t][i] = PageAt(n.t)]
  <1>1. KernelMapped(c) = IF c.t = 0 THEN c ELSE IF e.t = 0 THEN e ELSE IF n.t = 0 THEN n ELSE g
    BY DEF KernelMapped, KernelBelow, KernelTable
  <1>2. PICK L : Tree(c.w, L) /\ Below(c.w, vmm_pml4, SM_WINDOW) = 0
    BY DEF BootTree
  <1>3. K \in Idx /\ SM_WINDOW \in Idx /\ SM_WINDOW # K
    BY WindowAssumption DEF Idx
  <1>4. OwnersApart(d.w, R) /\ OwnersApart(e.w, R)
    <2>1. OwnersApart(d.w, R)
      BY LevelPassed DEF Results
    <2> HIDE DEF d
    <2> QED BY <2>1, LevelPassed DEF TableBelow
  <1>5. Reached(d, c.w, L, vmm_pml4, K)
    <2>1. vmm_pml4 \in DOMAIN c.w.mem /\ L[vmm_pml4] = 1 /\ L[vmm_pml4] < 4
      BY <1>2 DEF Tree
    <2>2. OwnersApart(c.w, R)
      BY DEF Results
    <2> HIDE DEF K
    <2> QED BY <1>2, <1>3, <2>1, <2>2, LevelReached
  <1> HIDE DEF d, K
  <1>6. Elsewhere(c.w, d.w, vmm_pml4, K)
    BY <1>5 DEF Reached
  <1>7. PICK L1 : Extends(c.w, L, d.w, L1) /\ (d.t = 0 \/ d.t = Below(d.w, vmm_pml4, K))
    BY <1>5 DEF Reached
  <1>8. /\ Tree(d.w, L1) /\ vmm_pml4 \in DOMAIN d.w.mem /\ L1[vmm_pml4] = 1
        /\ Below(d.w, vmm_pml4, SM_WINDOW) = 0
    <2>1. Tree(d.w, L1) /\ vmm_pml4 \in DOMAIN c.w.mem /\ vmm_pml4 \in DOMAIN d.w.mem /\ L1[vmm_pml4] = 1
      BY <1>2, <1>7 DEF Extends, Tree
    <2> QED BY <1>2, <1>3, <1>6, <2>1 DEF Elsewhere
  <1>9. d.t # 0 => d.t \in DOMAIN d.w.mem /\ L1[d.t] = 2
    <2>1. L1[vmm_pml4] < 4
      BY <1>8
    <2> QED BY <1>3, <1>7, <1>8, <2>1 DEF Tree
  <1>10. \E M : /\ Tree(e.w, M) /\ Below(e.w, vmm_pml4, SM_WINDOW) = 0 /\ vmm_pml4 \in DOMAIN e.w.mem /\ M[vmm_pml4] = 1
                /\ e.t # 0 => e.t \in DOMAIN e.w.mem /\ M[e.t] = 3
    <2>1. CASE d.t = 0
      BY <1>8, <2>1 DEF TableBelow
    <2>2. CASE d.t # 0
      <3>1. Reached(e, d.w, L1, d.t, K)
        <4>1. e = vmm_get_table(d.w, d.t, K, TRUE)
          BY <2>2 DEF TableBelow
        <4>2. d.t \in DOMAIN d.w.mem /\ L1[d.t] < 4
          BY <1>9, <2>2
        <4>3. Reached(vmm_get_table(d.w, d.t, K, TRUE), d.w, L1, d.t, K)
          BY <1>3, <1>4, <1>8, <4>2, LevelReached
        <4> HIDE DEF e
        <4> QED BY <4>1, <4>3
      <3> HIDE DEF e
      <3>2. Elsewhere(d.w, e.w, d.t, K)
        BY <3>1 DEF Reached
      <3>3. PICK M : Extends(d.w, L1, e.w, M) /\ (e.t = 0 \/ e.t = Below(e.w, d.t, K))
        BY <3>1 DEF Reached
      <3>4. /\ Tree(e.w, M) /\ vmm_pml4 \in DOMAIN e.w.mem /\ M[vmm_pml4] = 1
            /\ d.t \in DOMAIN e.w.mem /\ M[d.t] = 2
        BY <1>8, <1>9, <2>2, <3>3 DEF Extends
      <3>5. d.t # vmm_pml4
        BY <1>8, <1>9, <2>2
      <3>6. Below(e.w, vmm_pml4, SM_WINDOW) = 0
        BY <1>3, <1>8, <3>2, <3>5 DEF Elsewhere
      <3>7. e.t # 0 => e.t \in DOMAIN e.w.mem /\ M[e.t] = 3
        <4>1. M[d.t] < 4
          BY <3>4
        <4> QED BY <1>3, <3>3, <3>4, <4>1 DEF Tree
      <3> QED BY <3>4, <3>6, <3>7
    <2> QED BY <2>1, <2>2
  <1> HIDE DEF e
  <1>11. PICK M : /\ Tree(e.w, M) /\ Below(e.w, vmm_pml4, SM_WINDOW) = 0 /\ vmm_pml4 \in DOMAIN e.w.mem /\ M[vmm_pml4] = 1
                  /\ e.t # 0 => e.t \in DOMAIN e.w.mem /\ M[e.t] = 3
    BY <1>10
  <1>12. WindowEmpty(e.w) /\ WindowEmpty(c.w)
    BY <1>2, <1>11 DEF WindowEmpty
  <1>13. CASE KernelMapped(c) = n /\ n.t = 0
    <2>1. n.w = e.w
      BY <1>4, <1>13, TableFresh DEF FreshTable
    <2> HIDE DEF n
    <2> QED BY <1>12, <1>13, <2>1
  <1>14. ASSUME e.t # 0, n.t # 0 PROVE WindowEmpty(g.w)
    <2>1. e.t \in DOMAIN e.w.mem /\ M[e.t] = 3 /\ e.t # vmm_pml4
      BY <1>11, <1>14
    <2>2. n = vmm_alloc_table(e.w) /\ g = [n EXCEPT !.w.mem[n.t] = Small(f), !.w.mem[e.t][i] = PageAt(n.t)]
      OBVIOUS
    <2> HIDE DEF n, g, f, i
    <2>3. Replaces(e.w, g.w, e.t, i, n.t)
      BY <1>4, <1>14, <2>1, <2>2, LinkReplaces
    <2>4. (\E N : Tree(g.w, N)) /\ Elsewhere(e.w, g.w, e.t, i)
      BY <1>11, <2>1, <2>3, TreeReplaced
    <2>5. Below(g.w, vmm_pml4, SM_WINDOW) = 0
      BY <1>3, <1>11, <2>1, <2>4 DEF Elsewhere
    <2> QED BY <2>4, <2>5 DEF WindowEmpty
  <1> HIDE DEF n, g
  <1> QED BY <1>1, <1>12, <1>13, <1>14

\* Paging starts with nothing in the window.
LEMMA WindowStarts ==
  ASSUME NEW w \in NoTables, Reserved3(w), 0 \in w.bitmap
  PROVE  WindowEmpty(vmm_init(enter_long_mode(w)).w)
  <1> DEFINE R == {}
             S == {r \in Results(R) : BootTree(r.w)}
             v == enter_long_mode(w)
             a == vmm_alloc_table(v)
             start == FirstTable(a)
             n == SM_GIGABYTES * SM_N
             e == CHOOSE g : g = [k \in 0 .. n |-> IF k = 0 THEN start
                              ELSE IdentityStep(g[k - 1], <<(k - 1) \div SM_N, (k - 1) % SM_N>>)]
             c == e[n]
  <1> HIDE DEF R
  <1>1. OwnersApart(v, R) /\ BootTree(v)
    BY LongMode, LongModeTree DEF R
  <1> HIDE DEF v
  <1>2. a \in Results(R)
    BY <1>1, TableAllocated
  <1>3. start \in S
    <2>1. BootTree(start.w)
      BY <1>1, BootFirst
    <2> HIDE DEF a
    <2>2. start \in Results(R)
      BY <1>2, IdentityStepped
    <2> QED BY <2>1, <2>2
  <1>4. \A r \in S : \A g, m \in Nat : IdentityStep(r, <<g, m>>) \in S
    BY IdentityStepped, BootStepped
  <1>5. c \in S
    <2> HIDE DEF start, S
    <2> QED BY <1>3, <1>4, IdentityMapped
  <1>6. vmm_init(v) = KernelMapped(c)
    BY DEF vmm_init
  <1> HIDE DEF c
  <1>7. WindowEmpty(KernelMapped(c).w)
    BY <1>5, KernelOutside
  <1> QED BY <1>6, <1>7 DEF v

LEMMA EmptyShows ==
  ASSUME NEW w, WindowEmpty(w), NEW k, k.w = w, k.phys = [c \in Cluster |-> 0]
  PROVE  WindowShows(k)
  <1>1. PICK L : Tree(w, L) /\ Below(w, vmm_pml4, SM_WINDOW) = 0
    BY DEF WindowEmpty
  <1>2. ASSUME NEW c \in Cluster PROVE Shown(k.w, vmm_cluster_virt(c)) = RecordedAs(k, c)
    <2>1. vmm_cluster_virt(c)[1] = SM_WINDOW
      BY ClusterAddress
    <2>2. \A i : Below(w, 0, i) = 0
      BY DEF Below
    <2>3. Reaches(w, vmm_cluster_virt(c)) = 0
      BY <1>1, <2>1, <2>2 DEF Reaches
    <2> QED BY <2>3 DEF Shown, RecordedAs
  <1> QED BY <1>1, <1>2 DEF WindowShows

(***************************************************************************)
(* The invariant of the window: the owners are apart, and while the system *)
(* runs what the tables show is what is recorded.                          *)
(***************************************************************************)
WindowInv == MemInv /\ (phase = "ready" => WindowShows(ClusterWindow))

LEMMA WindowPrimed == WindowShows(ClusterWindow') => WindowShows(ClusterWindow)'
  BY DEF WindowShows, RecordedAs, Tree, Shown, Reaches, Below, Cluster, vmm_cluster_virt, vmm_pml4, Idx

LEMMA BootShows ==
  ASSUME MemInv, BootMemory
  PROVE  phase' = "ready" => WindowShows(ClusterWindow')
  <1>1. CASE phase = "pmm"
    BY <1>1 DEF BootMemory
  <1>2. CASE phase = "paging"
    <2> DEFINE r == vmm_init(enter_long_mode(PageMemory))
               k == [w |-> r.w, phys |-> cluster_phys_map]
    <2>1. SetMemory(r.w) /\ cluster_phys_map' = cluster_phys_map
      BY <1>2 DEF BootMemory
    <2>2. OwnersApart(r.w, {}) /\ WindowEmpty(r.w)
      <3>1. PageMemory \in NoTables /\ Reserved3(PageMemory) /\ 0 \in PageMemory.bitmap
        BY <1>2 DEF MemInv, PageMemory
      <3> HIDE DEF PageMemory
      <3> QED BY <3>1, PagingStarted, WindowStarts
    <2>3. cluster_phys_map = [c \in Cluster |-> 0]
      BY <1>2 DEF MemInv
    <2> HIDE DEF r
    <2>4. k \in [w : WorkMemory, phys : [Cluster -> Nat]] /\ k.w = r.w /\ k.phys = cluster_phys_map'
      BY <2>1, <2>2, <2>3 DEF OwnersApart, Counted
    <2> HIDE DEF k
    <2>5. WindowShows(k)
      BY <2>1, <2>2, <2>3, <2>4, EmptyShows
    <2>6. ClusterWindow' = k
      BY <2>1, <2>4, WindowSet
    <2> QED BY <2>5, <2>6
  <1> QED BY <1>1, <1>2 DEF BootMemory

LEMMA PagesShow ==
  ASSUME MemInv, WindowShows(ClusterWindow), PagingReady, NEW w, SetMemory(w), UNCHANGED cluster_phys_map,
         NEW S, NEW p, NEW n, w = Taken(PageMemory, S) \/ w = pmm_free_pages(PageMemory, p, n)
  PROVE  WindowShows(ClusterWindow')
  <1>1. PageMemory \in WorkMemory
    <2>1. WindowApart(ClusterWindow, Held)
      BY DEF MemInv, PagingReady
    <2> QED BY <2>1 DEF WindowApart, ClusterWindow
  <1>2. w.mem = PageMemory.mem
    <2> HIDE DEF PageMemory
    <2> QED BY <1>1, TablesUntouched
  <1>3. ClusterWindow'.w.mem = ClusterWindow.w.mem /\ ClusterWindow'.phys = ClusterWindow.phys
    BY <1>2 DEF ClusterWindow, PageMemory, SetMemory
  <1> HIDE DEF ClusterWindow
  <1> QED BY <1>3, SameTablesShow

LEMMA UserShows ==
  ASSUME MemInv, WindowShows(ClusterWindow), NEW v \in SM_USER, UnmapUser(v) \/ \E h \in held : MapUser(v, h)
  PROVE  WindowShows(ClusterWindow')
  <1> DEFINE R == BackingOf(cluster_phys_map) \cup Held
  <1>1. PagingReady /\ cluster_phys_map' = cluster_phys_map
    BY DEF MapUser, UnmapUser
  <1>2. WindowApart(ClusterWindow, Held) /\ \A h \in held : h[1] \in Nat
    BY <1>1 DEF MemInv, PagingReady, HeldApart
  <1>3. ClusterWindow = [w |-> PageMemory, phys |-> cluster_phys_map]
    BY DEF ClusterWindow
  <1>4. OwnersApart(PageMemory, R)
    BY <1>2, <1>3 DEF WindowApart
  <1>5. PICK L : Tree(PageMemory, L)
    BY <1>3 DEF WindowShows
  <1>6. v \in Address /\ \A c \in Cluster : vmm_cluster_virt(c) \in Address /\ vmm_cluster_virt(c) # v
    BY WindowAssumption, ClusterAddress DEF Address, Idx
  <1>7. \E w : /\ SetMemory(w) /\ w \in WorkMemory
               /\ \E M : Tree(w, M) /\ \A u \in Address : u # v => Shown(w, u) = Shown(PageMemory, u)
    <2> HIDE DEF R, PageMemory
    <2>1. CASE UnmapUser(v)
      <3> DEFINE w == vmm_unmap_page(PageMemory, v)
      <3>1. Tree(w, L) /\ \A u \in Address : Shown(w, u) = IF u = v THEN NoPage ELSE Shown(PageMemory, u)
        BY <1>4, <1>5, <1>6, UnmapShows
      <3>2. w \in WorkMemory /\ SetMemory(w)
        <4>1. 0 \in Nat
          OBVIOUS
        <4>2. OwnersApart(w, R)
          BY <1>4, <4>1, PageMapped
        <4> QED BY <2>1, <4>2 DEF UnmapUser, OwnersApart, Counted
      <3> HIDE DEF w
      <3> QED BY <3>1, <3>2
    <2>2. CASE \E h \in held : MapUser(v, h)
      <3> PICK h \in held : MapUser(v, h)
        BY <2>2
      <3> DEFINE w == vmm_map_page(PageMemory, v, h[1])
      <3>1. \E M : Tree(w, M) /\ \A u \in Address : u # v => Shown(w, u) = Shown(PageMemory, u)
        BY <1>4, <1>5, <1>6, MapShows
      <3>2. w \in WorkMemory /\ SetMemory(w)
        <4>1. OwnersApart(w, R)
          BY <1>2, <1>4, PageMapped
        <4> QED BY <4>1 DEF MapUser, OwnersApart, Counted
      <3> HIDE DEF w
      <3> QED BY <3>1, <3>2
    <2> QED BY <2>1, <2>2
  <1>8. PICK w : /\ SetMemory(w) /\ w \in WorkMemory
                 /\ \E M : Tree(w, M) /\ \A u \in Address : u # v => Shown(w, u) = Shown(PageMemory, u)
    BY <1>7
  <1> DEFINE k == [w |-> w, phys |-> cluster_phys_map]
  <1>9. k \in [w : WorkMemory, phys : [Cluster -> Nat]] /\ k.w = w /\ k.phys = cluster_phys_map'
    BY <1>1, <1>2, <1>3, <1>8 DEF WindowApart
  <1> HIDE DEF k
  <1>10. ASSUME NEW c \in Cluster PROVE Shown(k.w, vmm_cluster_virt(c)) = RecordedAs(k, c)
    <2>1. Shown(w, vmm_cluster_virt(c)) = Shown(PageMemory, vmm_cluster_virt(c))
      BY <1>6, <1>8
    <2>2. Shown(PageMemory, vmm_cluster_virt(c)) = RecordedAs(ClusterWindow, c)
      BY <1>3 DEF WindowShows
    <2>3. RecordedAs(k, c) = RecordedAs(ClusterWindow, c)
      BY <1>1, <1>3, <1>9 DEF RecordedAs
    <2> QED BY <1>9, <2>1, <2>2, <2>3
  <1>11. WindowShows(k)
    BY <1>8, <1>9, <1>10 DEF WindowShows
  <1>12. ClusterWindow' = k
    BY <1>8, <1>9, WindowSet
  <1> QED BY <1>11, <1>12

LEMMA FilesShow ==
  ASSUME MemInv, WindowShows(ClusterWindow), NEW d, NEW c \in Cluster,
         brainfs_umount(d) \/ brainfs_dir_create \/ ClusterAccess(c) \/ FreeChain(c)
  PROVE  WindowShows(ClusterWindow')
  <1> DEFINE H == Held
  <1>1. WindowApart(ClusterWindow, H)
    BY DEF MemInv, PagingReady, brainfs_umount, brainfs_dir_create, ClusterAccess, FreeChain, Mounted
  <1>2. \E k : WindowApart(k, H) /\ WindowShows(k) /\ SetMemory(k.w) /\ cluster_phys_map' = k.phys
    <2> HIDE DEF ClusterWindow, H
    <2>1. CASE brainfs_umount(d)
      <3> DEFINE S == {k \in Windows(H) : WindowShows(k)}
                 n == SM_CLUSTERS
                 e == CHOOSE g : g = [i \in 0 .. n |-> IF i = 0 THEN ClusterWindow
                        ELSE IF i - 1 < 2 THEN g[i - 1] ELSE vmm_cluster_unmap(g[i - 1], i - 1)]
                 k == e[n]
      <3>1. \A x \in S : \A y \in Cluster : vmm_cluster_unmap(x, y) \in S
        <4>1. \A x \in S : \A y \in Cluster : WindowApart(vmm_cluster_unmap(x, y), H) /\ WindowShows(vmm_cluster_unmap(x, y))
          BY ClusterLetGo, ClusterUnmapShows DEF Windows
        <4> QED BY <4>1 DEF Windows, WindowApart
      <3>2. ClusterWindow \in S
        BY <1>1 DEF Windows, WindowApart
      <3>3. k \in S
        <4> HIDE DEF S
        <4> QED BY <3>1, <3>2, WindowLetGo
      <3>4. SetMemory(k.w) /\ cluster_phys_map' = k.phys
        BY <2>1 DEF brainfs_umount
      <3> HIDE DEF k
      <3> QED BY <3>3, <3>4 DEF Windows
    <2>2. CASE brainfs_dir_create
      <3> DEFINE a == brainfs_fat_alloc_cluster(ClusterWindow)
                 k == vmm_cluster_resolve(a, 2)
      <3>1. WindowApart(a, H) /\ WindowShows(a)
        BY <1>1, ClusterAllocated, AllocatedShows
      <3>2. WindowApart(k, H) /\ WindowShows(k)
        <4>1. 2 \in Cluster
          BY SMAssumption DEF Cluster
        <4> HIDE DEF a
        <4> QED BY <3>1, <4>1, ClusterResolved, ResolvedShows
      <3>3. SetMemory(k.w) /\ cluster_phys_map' = k.phys
        BY <2>2 DEF brainfs_dir_create, SetWindow
      <3> HIDE DEF k
      <3> QED BY <3>2, <3>3
    <2>3. CASE ClusterAccess(c)
      BY <1>1, <2>3, ClusterResolved, ResolvedShows DEF ClusterAccess, SetWindow
    <2>4. CASE FreeChain(c)
      BY <1>1, <2>4, ChainFreed, ChainFreedShows DEF FreeChain, SetWindow
    <2> QED BY <2>1, <2>2, <2>3, <2>4
  <1>3. PICK k : WindowApart(k, H) /\ WindowShows(k) /\ SetMemory(k.w) /\ cluster_phys_map' = k.phys
    BY <1>2
  <1>4. ClusterWindow' = k
    BY <1>3, WindowSet DEF WindowApart
  <1> QED BY <1>3, <1>4

LEMMA WindowStays ==
  ASSUME MemInv, SMNext, ~BootMemory, WindowShows(ClusterWindow)
  PROVE  WindowShows(ClusterWindow')
  <1>1. CASE pmm_alloc(1, pmm_total_pages) \/ pmm_alloc(2, pmm_total_pages) \/ pmm_alloc(1, SM_DMA)
    <2>1. PICK count, limit : pmm_alloc(count, limit)
      BY <1>1
    <2> DEFINE p == pmm_find_free_pages(PageMemory, count, limit)
               S == p .. p + count - 1
    <2>2. PagingReady /\ SetMemory(Taken(PageMemory, S)) /\ UNCHANGED cluster_phys_map
      BY <2>1 DEF pmm_alloc
    <2> HIDE DEF S
    <2> QED BY <2>2, PagesShow
  <1>2. CASE \E h \in held : pmm_free(h)
    <2> PICK h \in held : pmm_free(h)
      BY <1>2
    <2> QED BY PagesShow DEF pmm_free
  <1>3. CASE \E v \in SM_USER : UnmapUser(v) \/ \E h \in held : MapUser(v, h)
    BY <1>3, UserShows
  <1>4. CASE \E d \in SM_DRIVES : brainfs_mount(d)
    BY <1>4 DEF brainfs_mount, ClusterWindow, PageMemory
  <1>5. CASE (\E d \in SM_DRIVES : brainfs_umount(d)) \/ brainfs_dir_create \/ \E c \in Cluster : ClusterAccess(c) \/ FreeChain(c)
    <2>1. 2 \in Cluster
      BY SMAssumption DEF Cluster
    <2> QED BY <1>5, <2>1, FilesShow
  <1> QED BY <1>1, <1>2, <1>3, <1>4, <1>5 DEF SMNext

(***************************************************************************)
(* WindowAgrees: cluster_phys_map and the page tables stay two records of  *)
(* one mapping, for every table size, volume and sequence of calls.  The   *)
(* tables are a tree, so a write for one address is seen at no other.      *)
(***************************************************************************)
THEOREM WindowMatchesTables == SMSpec => []WindowAgrees
  <1>1. SMInit => WindowInv
    BY MemoryStarts DEF WindowInv, SMInit
  <1>2. WindowInv /\ [SMNext]_smVars => WindowInv'
    <2> SUFFICES ASSUME WindowInv, [SMNext]_smVars PROVE WindowInv'
      OBVIOUS
    <2>1. MemInv'
      BY MemoryInductive DEF WindowInv
    <2>2. phase' = "ready" => WindowShows(ClusterWindow')
      <3>1. CASE BootMemory
        BY <3>1, BootShows DEF WindowInv
      <3>2. CASE SMNext /\ ~BootMemory
        <4>1. phase' = phase
          BY <3>2 DEF SMNext, pmm_alloc, pmm_free, MapUser, UnmapUser, brainfs_mount, brainfs_umount,
                      brainfs_dir_create, ClusterAccess, FreeChain, SetWindow
        <4> QED BY <3>2, <4>1, WindowStays DEF WindowInv
      <3>3. CASE UNCHANGED smVars
        BY <3>3 DEF smVars, WindowInv, ClusterWindow, PageMemory
      <3> QED BY <3>1, <3>2, <3>3
    <2> QED BY <2>1, <2>2, WindowPrimed DEF WindowInv
  <1>3. WindowInv => WindowAgrees
    <2> SUFFICES ASSUME WindowInv, PagingReady, NEW c \in Cluster
                 PROVE  vmm_get_page_entry(PageMemory, vmm_cluster_virt(c)) =
                          IF cluster_phys_map[c] = 0 THEN NoPage ELSE PageAt(cluster_phys_map[c])
      BY DEF WindowAgrees
    <2>1. vmm_get_page_entry(PageMemory, vmm_cluster_virt(c)) = Shown(PageMemory, vmm_cluster_virt(c))
      BY WalkShows
    <2>2. Shown(ClusterWindow.w, vmm_cluster_virt(c)) = RecordedAs(ClusterWindow, c)
      BY DEF WindowInv, WindowShows, PagingReady
    <2> QED BY <2>1, <2>2 DEF ClusterWindow, RecordedAs
  <1> QED BY <1>1, <1>2, <1>3, PTL DEF SMSpec
=============================================================================
