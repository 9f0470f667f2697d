------------------------------- MODULE SDisk --------------------------------
(***************************************************************************)
(* The disk identities of stage 2: the ten tables of disk_privacy, which   *)
(* keep a real and a hidden value for every disk or partition, and the     *)
(* transformations of disk_encrypt.                                        *)
(*                                                                         *)
(* A byte is a set of atoms, so that exclusive or is symmetric difference; *)
(* key bytes and the outputs of ciphers and Feistel functions are atoms of *)
(* their own.  A string is a sequence of bytes; {} is the byte 0.          *)
(***************************************************************************)
EXTENDS Integers, Sequences, FiniteSets

CONSTANTS SD_DISKS, SD_PARTS,   \* disk and partition numbers in use
          SD_TABLE,             \* entries of a table: DP_MAX_DISKS, DP_MAX_PARTITIONS, DP_MAX_MAP
          SD_KEYS,              \* keys a table may draw, sequences of bytes
          SD_STRINGS,           \* serials, labels, models, uuids and signatures: strings without 0
          SD_STR_LEN,           \* DP_SERIAL_LEN, DP_LABEL_LEN, DP_MODEL_LEN
          SD_FSTYPES,           \* spoof_table, a sequence of names
          SD_SIZES, SD_RANDOM,  \* disk sizes; the value of size ^ key, any number up to a bound
          SD_CALLS              \* bound on calls

\* DP_KEY_LEN is not 0.
ASSUME SDKeys == \A key \in SD_KEYS : key # <<>>
\* AES is an ideal cipher: what it makes of a sector, partition and index is in no uuid.
ASSUME SDIdealCipher == \A s \in SD_STRINGS : \A i \in DOMAIN s : \A a \in s[i] : a[1] # "aes"
\* The names of spoof_table differ.
ASSUME SDNames ==
  /\ \A i \in DOMAIN SD_FSTYPES : SD_FSTYPES[i] # <<>>
  /\ \A i, j \in DOMAIN SD_FSTYPES : SD_FSTYPES[i] = SD_FSTYPES[j] => i = j
ASSUME SDSizes ==
  /\ \A s \in SD_STRINGS \cup SD_KEYS \cup {SD_FSTYPES} : s \in Seq({s[i] : i \in DOMAIN s})
  /\ SD_DISKS \subseteq Nat /\ SD_PARTS \subseteq Nat /\ SD_SIZES \subseteq Nat /\ SD_RANDOM \subseteq Nat
  /\ SD_STR_LEN \in Nat /\ SD_STR_LEN >= 2 /\ SD_TABLE \in Nat

VARIABLES sd_tab,     \* the tables: armed, key, entries in order
          sd_map,     \* disk_uuid_random: key, pairs of original and randomised uuid
          sd_fp,      \* disk_fingerprint: key, boot_counter, current and previous fingerprint
          sd_luks,    \* disk_luks_camouflage: sector 0, version and magic kept, magic before the last hide
          sd_calls
sdVars == <<sd_tab, sd_map, sd_fp, sd_luks, sd_calls>>

SdXor(a, b) == (a \ b) \cup (b \ a)
SdXorAll(s, t) == [i \in DOMAIN s |-> SdXor(s[i], t[i])]
SdCut(s, n) == SubSeq(s, 1, IF Len(s) < n THEN Len(s) ELSE n)
LowestOf(S) == CHOOSE i \in S : \A j \in S : i <= j
KeyByte(key, i) == key[(i % Len(key)) + 1]

----------------------------------------------------------------------------
(* The tables.  An operator gives the table after a call; a call that is   *)
(* refused leaves it as it is.                                             *)
SdEmpty == [armed |-> FALSE, key |-> <<>>, list |-> <<>>]
\* dp_*_init, dp_*_reset
dp_init(key) == [armed |-> TRUE, key |-> key, list |-> <<>>]

SdAdd(t, e) == IF t.armed /\ Len(t.list) < SD_TABLE THEN [t EXCEPT !.list = Append(@, e)] ELSE t
SdAt(t, disk, part) == {i \in DOMAIN t.list : t.list[i].disk = disk /\ t.list[i].part = part}
SdHiddenAs(t, h) == {i \in DOMAIN t.list : t.list[i].hid = h}
\* The first entry found, <<>> when there is none (DP_ERR_NOT_FOUND).
SdFirst(t, S) == IF ~t.armed \/ S = {} THEN <<>> ELSE <<t.list[LowestOf(S)]>>
SdEntry(disk, part, real, hid) == [disk |-> disk, part |-> part, real |-> real, hid |-> hid]

\* compute_masked: two hex digits a byte, so half as many bytes as a serial has.
compute_masked(key, disk, real) == LET r == SdCut(real, (SD_STR_LEN \div 2) - 1) IN [i \in DOMAIN r |-> SdXor(r[i], KeyByte(key, i - 1 + disk))]
\* xor_from_masked
xor_from_masked(key, disk, masked) == [i \in DOMAIN masked |-> SdXor(masked[i], KeyByte(key, i - 1 + disk))]
dp_serial_mask_add(t, disk, real) == SdAdd(t, SdEntry(disk, 0, SdCut(real, SD_STR_LEN - 1), IF t.armed THEN compute_masked(t.key, disk, real) ELSE <<>>))
dp_serial_mask_get_real(t, masked) == LET f == SdFirst(t, SdHiddenAs(t, masked)) IN IF f = <<>> THEN f ELSE <<xor_from_masked(t.key, f[1].disk, masked)>>

\* label_enc_xor, and the string up to its first byte 0.
label_enc_xor(key, disk, part, s) ==
  [i \in DOMAIN s |-> SdXor(s[i], SdXor(KeyByte(key, i - 1 + disk + part), IF disk + part = 0 THEN {} ELSE {<<"mod", disk + part>>}))]
SdToZero(s) == SdCut(s, LowestOf({i - 1 : i \in {j \in DOMAIN s : s[j] = {}}} \cup {Len(s)}))
dp_label_enc_add(t, disk, part, real) ==
  LET r == SdCut(real, SD_STR_LEN - 1) IN SdAdd(t, SdEntry(disk, part, r, IF t.armed THEN label_enc_xor(t.key, disk, part, r) ELSE <<>>))
dp_label_enc_get_enc(t, disk, part) == LET f == SdFirst(t, SdAt(t, disk, part)) IN IF f = <<>> THEN f ELSE <<SdToZero(f[1].hid)>>
\* A mutant of dp_label_enc_get_real: a label that begins like the one looked for is taken.
dp_label_enc_get_real_prefix(t, enc) ==
  LET f == SdFirst(t, {i \in DOMAIN t.list : SdCut(SdToZero(t.list[i].hid), Len(SdToZero(enc))) = SdToZero(enc)})
  IN  IF f = <<>> THEN f ELSE <<SdCut(f[1].real, Len(SdToZero(enc)) + 1)>>
\* dp_label_enc_get_real: the byte after the last is copied from the real label.
dp_label_enc_get_real(t, enc) ==
  LET f == SdFirst(t, {i \in DOMAIN t.list : SdToZero(t.list[i].hid) = SdToZero(enc)})
  IN  IF f = <<>> THEN f ELSE <<SdCut(f[1].real, Len(SdToZero(enc)) + 1)>>

\* dp_uuid_encrypt_add: the key stream is one of the sector, partition and index.
dp_uuid_encrypt_add(t, sector, part, real) ==
  SdAdd(t, SdEntry(sector, part, real, [i \in DOMAIN real |-> SdXor(real[i], {<<"aes", sector, part, Len(t.list), i>>})]))
dp_uuid_encrypt_get_enc(t, real) == SdFirst(t, {i \in DOMAIN t.list : t.list[i].real = real})
dp_uuid_encrypt_get_real(t, enc) == SdFirst(t, SdHiddenAs(t, enc))

\* dp_uuid_clone: disk is the destination, part the source.
dp_uuid_clone_add(t, src, dst, uuid) == SdAdd(t, SdEntry(dst, src, uuid, uuid))
dp_uuid_clone_get(t, disk) == SdFirst(t, {i \in DOMAIN t.list : t.list[i].disk = disk})
dp_uuid_clone_resolve(t, disk) ==
  IF dp_uuid_clone_get(t, disk) # <<>> THEN dp_uuid_clone_get(t, disk) ELSE SdFirst(t, {i \in DOMAIN t.list : t.list[i].part = disk})

\* dp_model_spoof: no spoofed model until it is set; get_real knows a model, not a disk.
dp_model_spoof_add(t, disk, real) == SdAdd(t, SdEntry(disk, 0, SdCut(real, SD_STR_LEN - 1), <<>>))
SdSpoof(t, S, hid) == IF t.armed /\ S # {} THEN [t EXCEPT !.list[LowestOf(S)].hid = SdCut(hid, SD_STR_LEN - 1)] ELSE t
dp_model_spoof_spoof(t, disk, hid) == SdSpoof(t, SdAt(t, disk, 0), hid)
dp_model_spoof_get(t, disk) == SdFirst(t, SdAt(t, disk, 0))
dp_model_spoof_get_real(t, hid) == SdFirst(t, SdHiddenAs(t, hid))

\* fs_spoof_lookup: the next name of the table.
fs_spoof_lookup(real) == LET S == {i \in DOMAIN SD_FSTYPES : SD_FSTYPES[i] = real} IN IF S = {} THEN <<>> ELSE SD_FSTYPES[(LowestOf(S) % Len(SD_FSTYPES)) + 1]
dp_fs_hide_add(t, disk, part, real) ==
  IF SdAt(t, disk, part) # {} \/ fs_spoof_lookup(real) = <<>> THEN t ELSE SdAdd(t, SdEntry(disk, part, real, fs_spoof_lookup(real)))
dp_fs_hide_spoof(t, disk, part, hid) == SdSpoof(t, SdAt(t, disk, part), hid)

\* size_compute_reported: within a tenth of the size, if that is more than 10.
size_compute_reported(real, xored) ==
  IF real <= 10 THEN xored ELSE LET band == real \div 10 IN real - band + (xored % (2 * band))
dp_size_obfs_add(t, disk, real, xored) == IF SdAt(t, disk, 0) # {} THEN t ELSE SdAdd(t, SdEntry(disk, 0, real, size_compute_reported(real, xored)))
dp_size_obfs_resolve(t, disk, reported) == SdFirst(t, SdAt(t, disk, 0) \cap SdHiddenAs(t, reported))

\* lba_feistel: six rounds; what a round adds depends on the right half.
lba_round(h, r) == <<h[2], SdXor(h[1], {<<"f", r, h[2]>>})>>
lba_feistel(halves) ==
  LET Three(h, r) == lba_round(lba_round(lba_round(h, r), r + 1), r + 2) IN Three(Three(halves, 1), 4)
\* lba_scramble_one: the disk's key before and after; the turn of the bits is left out.
lba_scramble_one(disk, lba) ==
  LET x == lba_feistel(SdXorAll(lba, << {<<"k", disk, 1>>}, {<<"k", disk, 2>>} >>)) IN SdXorAll(x, << {<<"k", disk, 3>>}, {<<"k", disk, 4>>} >>)
dp_lba_scramble_add(t, disk, lba) ==
  IF \E i \in DOMAIN t.list : t.list[i].disk = disk /\ t.list[i].real = lba THEN t ELSE SdAdd(t, SdEntry(disk, 0, lba, lba_scramble_one(disk, lba)))
dp_lba_scramble_get(t, disk, lba) == SdFirst(t, {i \in SdAt(t, disk, 0) : t.list[i].real = lba})
dp_lba_scramble_resolve(t, disk, hid) == SdFirst(t, SdAt(t, disk, 0) \cap SdHiddenAs(t, hid))

\* dp_mbr_gpt_mask_derive_mbr_key: the words of the key, turned by a multiple of the disk.
derive_mbr_key(key, disk, i) == SdXor(KeyByte(key, i - 1), IF disk = 0 THEN {} ELSE {<<"mask", disk, i>>})
\* dp_mbr_gpt_mask_add: one place for each disk, written again by a second call.
dp_mbr_gpt_mask_add(t, disk, real) ==
  LET e == SdEntry(disk, 0, real, [i \in DOMAIN real |-> SdXor(real[i], derive_mbr_key(t.key, disk, i))])
  IN  IF ~t.armed \/ disk >= SD_TABLE THEN t ELSE
      IF SdAt(t, disk, 0) # {} THEN [t EXCEPT !.list[LowestOf(SdAt(t, disk, 0))] = e] ELSE [t EXCEPT !.list = Append(@, e)]
\* dp_mbr_gpt_mask_resolve: the lowest disk that shows it.
dp_mbr_gpt_mask_resolve(t, hid) == SdFirst(t, {i \in SdHiddenAs(t, hid) : \A j \in SdHiddenAs(t, hid) : t.list[i].disk <= t.list[j].disk})

\* Uuids and signatures have one length.
SdUuids == {s \in SD_STRINGS : Len(s) = 2}
\* What each table may be after one call.
SdTables == [ serial |-> SdEmpty, label |-> SdEmpty, uuid |-> SdEmpty, clone |-> SdEmpty, model |-> SdEmpty,
              fs |-> SdEmpty, size |-> SdEmpty, lba |-> SdEmpty, mask |-> SdEmpty ]
SdAfter(m, t) ==
  CASE m = "serial" -> {dp_serial_mask_add(t, d, s) : d \in SD_DISKS, s \in SD_STRINGS}
    [] m = "label"  -> {dp_label_enc_add(t, d, p, s) : d \in SD_DISKS, p \in SD_PARTS, s \in SD_STRINGS}
    [] m = "uuid"   -> {dp_uuid_encrypt_add(t, d, p, s) : d \in SD_DISKS, p \in SD_PARTS, s \in SdUuids}
    [] m = "clone"  -> {dp_uuid_clone_add(t, d, e, s) : d, e \in SD_DISKS, s \in SdUuids}
    [] m = "model"  -> UNION {{dp_model_spoof_add(t, d, s), dp_model_spoof_spoof(t, d, s)} : d \in SD_DISKS, s \in SD_STRINGS}
    [] m = "fs"     -> UNION {{dp_fs_hide_add(t, d, p, SD_FSTYPES[i]), dp_fs_hide_spoof(t, d, p, SD_FSTYPES[i])} : d \in SD_DISKS, p \in SD_PARTS, i \in DOMAIN SD_FSTYPES}
    [] m = "size"   -> {dp_size_obfs_add(t, d, n, x) : d \in SD_DISKS, n \in SD_SIZES, x \in SD_RANDOM}
    [] m = "lba"    -> {dp_lba_scramble_add(t, d, <<h, l>>) : d \in SD_DISKS, h, l \in {{}, {<<"a", 0>>}}}
    [] m = "mask"   -> {dp_mbr_gpt_mask_add(t, d, s) : d \in SD_DISKS, s \in SdUuids}

\* One table at a time is used: they share nothing.
dp_call(m) ==
  /\ \A o \in DOMAIN sd_tab \ {m} : sd_tab[o] = SdEmpty
  /\ sd_map.list = <<>> /\ sd_map.key = 0 /\ sd_fp.key = 0 /\ ~sd_luks.hidden
  /\ \E t \in SdAfter(m, sd_tab[m]) \cup {dp_init(k) : k \in SD_KEYS} \cup {SdEmpty} : sd_tab' = [sd_tab EXCEPT ![m] = t]
  /\ UNCHANGED <<sd_map, sd_fp, sd_luks>>

----------------------------------------------------------------------------
(* disk_encrypt: the UUID randomizer, which remembers what it gave out.     *)
randomize_uuid(key, counter) == <<key, counter>>
\* disk_uuid_randomize
disk_uuid_randomize(m, uuid) ==
  IF Len(m.list) >= SD_TABLE THEN m ELSE [m EXCEPT !.list = Append(@, [original |-> uuid, randomized |-> randomize_uuid(m.key, Len(@))])]
\* disk_uuid_random_rotate: all are derived again from a new key.
disk_uuid_random_rotate(m) == [m EXCEPT !.key = @ + 1, !.list = [i \in DOMAIN m.list |-> [m.list[i] EXCEPT !.randomized = randomize_uuid(m.key + 1, i - 1)]]]
disk_uuid_restore(m, uuid) ==
  LET S == {i \in DOMAIN m.list : m.list[i].randomized = uuid} IN IF S = {} THEN <<>> ELSE <<m.list[LowestOf(S)].original>>

\* The fingerprint: disk_fingerprint_init draws a new key, rotate keeps it.
derive_fingerprint(key, counter) == {<<"fp", key, counter>>}
disk_fingerprint_init(f, boots) ==
  [key |-> f.key + 1, boots |-> boots, cur |-> derive_fingerprint(f.key + 1, boots),
   prev |-> IF boots > 0 THEN derive_fingerprint(f.key + 1, boots - 1) ELSE f.prev]
disk_fingerprint_rotate(f) == [f EXCEPT !.boots = @ + 1, !.prev = f.cur, !.cur = derive_fingerprint(f.key, f.boots + 1)]
\* The version bits of a uuid are set on the way out, and become 0 on the way back.
disk_fingerprint_apply_uuid(f, u) == [body |-> SdXor(u.body, f.cur), version |-> 4]
disk_fingerprint_revert_uuid(f, u) == [body |-> SdXor(u.body, f.cur), version |-> 0]

\* disk_luks_hide_header: a sector of less than 1024 bytes that does not begin as
\* LUKS does; every other one is refused.  What is planted may be longer than what
\* is kept.
disk_luks_hide_header(l, pick) ==
  IF l.size >= 1024 \/ SubSeq(l.sector, 1, 6) = [i \in 1 .. 6 |-> <<"luks", i>>] THEN l
  ELSE [l EXCEPT !.hidden = TRUE, !.magic = SubSeq(l.sector, 1, 6), !.shown = FALSE, !.was = SubSeq(l.sector, 1, 6),
                 !.sector = [i \in 1 .. 8 |-> IF i <= pick THEN <<"fake", pick>> ELSE l.sector[i]]]
disk_luks_reveal_header(l) == IF ~l.hidden THEN l ELSE [l EXCEPT !.sector = l.magic \o SubSeq(@, 7, 8), !.shown = TRUE]
NewSector(first, size) == [sector |-> [i \in 1 .. 8 |-> <<first, i>>], size |-> size, magic |-> <<>>, hidden |-> FALSE, shown |-> FALSE, was |-> <<>>]

\* Key streams: disk_serial_mask, disk_label and disk_partname are their own inverse.
xor_serial(s) == [i \in DOMAIN s |-> SdXor(s[i], {<<"round", (i - 1) % 16, (i - 1) % 32>>})]
encrypt_label_bytes(s) == [i \in DOMAIN s |-> SdXor(s[i], {<<"chacha", i>>})]
xor_name(s) == [i \in DOMAIN s |-> SdXor(s[i], {<<"sha", (i - 1) \div 32, (i - 1) % 32>>})]
\* disk_mbr_scramble: eight rounds on two halves, and back.
feistel_round(h, r) == <<h[2], SdXor(h[1], SdXor(h[2], {<<"mbr", r>>}))>>
feistel_unround(h, r) == <<SdXor(h[2], SdXor(h[1], {<<"mbr", r>>})), h[1]>>
feistel_scramble(v) ==
  LET Two(h, r) == feistel_round(feistel_round(h, r), r + 1) IN Two(Two(Two(Two(v, 1), 3), 5), 7)
feistel_unscramble(v) ==
  LET Two(h, r) == feistel_unround(feistel_unround(h, r), r - 1) IN Two(Two(Two(Two(v, 8), 6), 4), 2)
disk_mbr_part_entry(e) == [e EXCEPT !.start = feistel_scramble(@), !.end = feistel_scramble(@)]
disk_mbr_unscramble_part_entry(e) == [e EXCEPT !.start = feistel_unscramble(@), !.end = feistel_unscramble(@)]
\* disk_inquiry: words of the serial, firmware and model, <<high, low>>; the bytes
\* are swapped on the way there and once more on the way back.
scramble_words(w) == [i \in DOMAIN w |-> <<SdXor(w[i][2], {<<"ks", (2 * (i - 1)) % 32>>}), SdXor(w[i][1], {<<"ks", (2 * i - 1) % 32>>})>>]
unscramble_words(w) == [i \in DOMAIN w |-> <<SdXor(w[i][1], {<<"ks", (2 * (i - 1)) % 32>>}), SdXor(w[i][2], {<<"ks", (2 * i - 1) % 32>>})>>]

disk_call ==
  /\ sd_tab = SdTables
  /\ \/ /\ sd_fp.key = 0 /\ ~sd_luks.hidden
        /\ \/ sd_map' = disk_uuid_random_rotate(sd_map)
           \/ \E s \in SdUuids : sd_map' = disk_uuid_randomize(sd_map, s)
        /\ UNCHANGED <<sd_fp, sd_luks>>
     \/ /\ sd_map.list = <<>> /\ sd_map.key = 0 /\ ~sd_luks.hidden
        /\ \/ \E b \in 0 .. 1 : sd_fp' = disk_fingerprint_init(sd_fp, b)
           \/ sd_fp.key > 0 /\ sd_fp' = disk_fingerprint_rotate(sd_fp)
        /\ UNCHANGED <<sd_map, sd_luks>>
     \/ /\ sd_map.list = <<>> /\ sd_map.key = 0 /\ sd_fp.key = 0
        /\ \/ \E pick \in {2, 4, 8} : sd_luks' = disk_luks_hide_header(sd_luks, pick)
           \/ sd_luks' = disk_luks_reveal_header(sd_luks)
           \/ \E first \in {"luks", "data"}, size \in {512, 1024} : sd_luks' = [NewSector(first, size) EXCEPT !.hidden = sd_luks.hidden, !.magic = sd_luks.magic]
        /\ UNCHANGED <<sd_map, sd_fp>>
  /\ UNCHANGED sd_tab

SDInit ==
  /\ sd_tab = SdTables /\ sd_calls = 0
  /\ sd_map = [key |-> 0, list |-> <<>>]
  /\ sd_fp = [key |-> 0, boots |-> 0, cur |-> {}, prev |-> {}]
  /\ sd_luks = NewSector("data", 512)

SDNext == sd_calls < SD_CALLS /\ sd_calls' = sd_calls + 1 /\ (disk_call \/ \E m \in DOMAIN sd_tab : dp_call(m))

----------------------------------------------------------------------------
\* No entry before entry i is for its disk and partition; for another one and looks the
\* same; looks the same.
SdLeads(t, i) == \A j \in 1 .. i - 1 : t.list[j].disk # t.list[i].disk \/ t.list[j].part # t.list[i].part
SdUnmistaken(t, i) == \A j \in 1 .. i - 1 : t.list[j].hid = t.list[i].hid => t.list[j].disk = t.list[i].disk /\ t.list[j].part = t.list[i].part
SdAlone(t, i) == \A j \in 1 .. i - 1 : t.list[j].hid # t.list[i].hid

\* What a table shows for a disk leads back to that disk's own value unless a disk found
\* before shows the same, also when several disks and partitions have equal values.
\* Serials, labels, models and signatures may be shown twice; uuids are not, and one
\* key is registered once where the table promises it.
TablesResolve ==
  /\ LET t == sd_tab.serial IN \A i \in DOMAIN t.list :
       SdUnmistaken(t, i) => dp_serial_mask_get_real(t, t.list[i].hid) = <<SdCut(t.list[i].real, (SD_STR_LEN \div 2) - 1)>>
  /\ LET t == sd_tab.label IN
       (\A i \in DOMAIN t.list : \A j \in DOMAIN t.list[i].hid : t.list[i].hid[j] # {}) =>
         \A i \in DOMAIN t.list : LET e == t.list[i] IN
           /\ SdLeads(t, i) => dp_label_enc_get_enc(t, e.disk, e.part) = <<e.hid>>
           /\ SdUnmistaken(t, i) => dp_label_enc_get_real(t, e.hid) = <<e.real>>
  /\ LET t == sd_tab.uuid IN \A i \in DOMAIN t.list :
       /\ SdAlone(t, i)
       /\ dp_uuid_encrypt_get_real(t, dp_uuid_encrypt_get_enc(t, t.list[i].real)[1].hid)[1].real = t.list[i].real
  /\ LET t == sd_tab.clone IN \A i \in DOMAIN t.list :
       (\A j \in 1 .. i - 1 : t.list[j].disk # t.list[i].disk) => dp_uuid_clone_resolve(t, t.list[i].disk) = <<t.list[i]>>
  /\ LET t == sd_tab.model IN \A i \in DOMAIN t.list : SdLeads(t, i) =>
       (dp_model_spoof_get_real(t, dp_model_spoof_get(t, t.list[i].disk)[1].hid) = <<t.list[i]>> <=> SdAlone(t, i))
  /\ LET t == sd_tab.fs IN
       (\A i \in DOMAIN t.list : t.list[i].hid = fs_spoof_lookup(t.list[i].real)) =>
         \A i \in DOMAIN t.list : SdFirst(t, SdHiddenAs(t, t.list[i].hid))[1].real = t.list[i].real
  /\ LET t == sd_tab.size IN \A i \in DOMAIN t.list :
       /\ dp_size_obfs_resolve(t, t.list[i].disk, t.list[i].hid)[1].real = t.list[i].real
       /\ t.list[i].real > 10 => t.list[i].hid \in t.list[i].real - (t.list[i].real \div 10) .. t.list[i].real + (t.list[i].real \div 10)
  /\ LET t == sd_tab.lba IN \A i \in DOMAIN t.list : LET e == t.list[i] IN
       /\ dp_lba_scramble_resolve(t, e.disk, dp_lba_scramble_get(t, e.disk, e.real)[1].hid)[1].real = e.real
       /\ \A j \in DOMAIN t.list : t.list[j].disk = e.disk /\ t.list[j].real = e.real => i = j
  /\ LET t == sd_tab.mask IN \A i \in DOMAIN t.list : LET e == t.list[i] IN
       dp_mbr_gpt_mask_resolve(t, e.hid) = <<e>> <=> \A j \in DOMAIN t.list : t.list[j].hid = e.hid => e.disk <= t.list[j].disk

\* A randomised uuid leads back to the one it was made for, also after the key has
\* changed; a rotated fingerprint remembers the one of the boot before; a header that was
\* hidden last is shown again on its own sector.
StateRestores ==
  /\ \A i \in DOMAIN sd_map.list : disk_uuid_restore(sd_map, sd_map.list[i].randomized) = <<sd_map.list[i].original>>
  /\ sd_fp.boots > 0 => sd_fp.prev = derive_fingerprint(sd_fp.key, sd_fp.boots - 1)
  /\ LET u == [body |-> {<<"a", 0>>}, version |-> 1] IN disk_fingerprint_revert_uuid(sd_fp, disk_fingerprint_apply_uuid(sd_fp, u)).body = u.body
  /\ sd_luks.shown /\ sd_luks.was # <<>> => SubSeq(sd_luks.sector, 1, 6) = sd_luks.was

\* What is scrambled is unscrambled; an inquiry's words come back byte by byte.
ScrambleUndone ==
  \A s \in SD_STRINGS :
    /\ xor_serial(xor_serial(s)) = s /\ encrypt_label_bytes(encrypt_label_bytes(s)) = s /\ xor_name(xor_name(s)) = s
    /\ Len(s) = 2 =>
         /\ feistel_unscramble(feistel_scramble(s)) = s
         /\ LET e == [type |-> 0, start |-> s, end |-> <<s[2], s[1]>>] IN disk_mbr_unscramble_part_entry(disk_mbr_part_entry(e)) = e
         /\ unscramble_words(scramble_words(<<s>>)) = << <<s[2], s[1]>> >>

\* The disk identities together: what is shown leads back to the real value unless two
\* show the same, and what disk_encrypt hides it restores, through rotations of the key.
DiskIdentities == TablesResolve /\ StateRestores /\ (sd_calls = 0 => ScrambleUndone)

SDSpec == SDInit /\ [][SDNext]_sdVars
=============================================================================
