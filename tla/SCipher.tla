------------------------------ MODULE SCipher -------------------------------
(***************************************************************************)
(* The primitives under security/common that keep state between calls or   *)
(* cut their input into blocks: SHA-256 (one call and streaming), HMAC,    *)
(* HKDF (twice in the code), ChaCha20 with a context, AES-CTR, AES-GCM and *)
(* CCMP.  The mixing functions are ideal: a digest is the list of blocks   *)
(* it was computed from, a keystream byte is an atom named by its cipher,  *)
(* key, counter and place.  What is modelled is the cutting, padding,      *)
(* counting and chaining around them.                                      *)
(*                                                                         *)
(* A byte under encryption is a set of atoms, and xor is the symmetric     *)
(* difference.  A byte under hashing is a string.                          *)
(***************************************************************************)
EXTENDS Integers, Sequences, FiniteSets, SequencesExt, TLC

CONSTANTS CY_HBLOCK,    \* bytes in a block of the hash (64), of which
          CY_HLEN,      \* the last ones hold the length (8)
          CY_DIGEST,    \* bytes of a digest (32)
          CY_KBLOCK,    \* bytes in a block of keystream (64, 16)
          CY_BYTES,     \* bytes of messages, strings
          CY_CHUNKS,    \* lengths of a call's data
          CY_MAX,       \* bound on a message's length
          CY_OKM        \* lengths of derived keys

ASSUME CYSizes == CY_KBLOCK \in Nat \ {0} /\ CY_CHUNKS \subseteq Nat /\ CY_BYTES # {}

VARIABLES cy_sha,       \* sec_sha256_ctx_t: state, buffer, total_len
          cy_md,        \* john's md5_ctx_t: state, count and buffer
          cy_msg,       \* history: what was hashed
          cy_tx, cy_rx, \* counters of the two ends' sec_chacha20_ctx_t
          cy_wire,      \* encrypted chunks on the way
          cy_sent, cy_got,  \* history: plain bytes, and what came out
          cy_stream,    \* history: the encrypted bytes
          cy_kdf        \* the last derived key, by both functions
cyVars == <<cy_sha, cy_md, cy_msg, cy_tx, cy_rx, cy_wire, cy_sent, cy_got, cy_stream, cy_kdf>>

----------------------------------------------------------------------------
(* Hashing *)

\* sec_sha256_init
sec_sha256_init == [blocks |-> <<>>, buffer |-> <<>>, total |-> 0]

Fill(n) == [i \in 1 .. n |-> "0"]

\* The loop over the bytes: a full buffer is mixed in and counted.
sha256_feed(ctx, data) ==
  FoldLeft(LAMBDA c, b : LET buf == Append(c.buffer, b)
                         IN  IF Len(buf) < CY_HBLOCK THEN [c EXCEPT !.buffer = buf]
                             ELSE [blocks |-> Append(c.blocks, buf), buffer |-> <<>>, total |-> c.total + CY_HBLOCK],
           ctx, data)

\* The padding: a mark, zeros, the length; one block more when they do not fit.
sha256_pad(ctx, total) ==
  LET marked == Append(ctx.buffer, "80")
      room   == CY_HBLOCK - CY_HLEN
      length == [i \in 1 .. CY_HLEN |-> ToString(8 * total)]
  IN  IF Len(marked) > room
      THEN ctx.blocks \o <<marked \o Fill(CY_HBLOCK - Len(marked)), Fill(room) \o length>>
      ELSE Append(ctx.blocks, marked \o Fill(room - Len(marked)) \o length)

\* The bytes of a digest.
Digest(blocks) == [i \in 1 .. CY_DIGEST |-> ToString(<<i, blocks>>)]

\* sec_sha256
sec_sha256(data) == LET c == sha256_feed(sec_sha256_init, data) IN sha256_pad(c, c.total + Len(c.buffer))

\* sec_sha256_update: counts full blocks in the loop and the whole data after it.
sec_sha256_update(ctx, data) ==
  LET c == sha256_feed(ctx, data) IN [c EXCEPT !.total = @ + Len(data)]

\* sec_sha256_final: pads a buffer of its own into which the bytes of the context
\* are never copied; in their place is what the stack holds, unset.
sec_sha256_final(ctx, unset) ==
  sha256_pad([ctx EXCEPT !.buffer = [i \in DOMAIN @ |-> unset]], ctx.total + Len(ctx.buffer))

\* sec_hmac_sha256
sec_hmac_sha256(key, data, unset) ==
  LET k == IF Len(key) > CY_HBLOCK THEN Digest(sec_sha256(key)) ELSE key
      keyed(pad) == [i \in 1 .. CY_HBLOCK |-> pad \o (IF i <= Len(k) THEN k[i] ELSE "0")]
      inner == Digest(sec_sha256_final(sec_sha256_update(sec_sha256_update(sec_sha256_init, keyed("i")), data), unset))
  IN  Digest(sec_sha256_final(sec_sha256_update(sec_sha256_update(sec_sha256_init, keyed("o")), inner), unset))

KeyPart(prk, t, info, i, unset) == sec_hmac_sha256(prk, t \o info \o <<ToString(i)>>, unset)
KeyCut(s, n) == SubSeq(s, 1, IF Len(s) < n THEN Len(s) ELSE n)
Blocks(n) == (n + CY_DIGEST - 1) \div CY_DIGEST

\* sec_hkdf_sha256: extract, then blocks until enough bytes are there.
HkdfLocals == [prk : Seq(STRING), t : Seq(STRING), info : Seq(STRING), okm : Seq(STRING), counter : Nat, len : Nat, unset : STRING]
hkdf_loop[x \in HkdfLocals] ==
  IF Len(x.okm) >= x.len THEN x.okm
  ELSE LET t == KeyPart(x.prk, x.t, x.info, x.counter, x.unset)
       IN  hkdf_loop[[x EXCEPT !.t = t, !.okm = @ \o KeyCut(t, x.len - Len(x.okm)), !.counter = @ + 1]]
sec_hkdf_sha256(ikm, salt, info, len, unset) ==
  LET prk == sec_hmac_sha256(IF salt = <<>> THEN Fill(CY_DIGEST) ELSE salt, ikm, unset)
  IN  hkdf_loop[[prk |-> prk, t |-> <<>>, info |-> info, okm |-> <<>>, counter |-> 1, len |-> len, unset |-> unset]]

\* sec_hkdf_sha256_expand: a counted loop, the last block cut.
sec_hkdf_sha256_expand(prk, info, len, unset) ==
  FoldLeft(LAMBDA s, i : LET t == KeyPart(prk, s.t, info, i, unset) IN [t |-> t, okm |-> s.okm \o KeyCut(t, len - Len(s.okm))],
           [t |-> <<>>, okm |-> <<>>], [i \in 1 .. Blocks(len) |-> i]).okm

----------------------------------------------------------------------------
(* The digests of the password auditor: one scheme, written out four times. *)

\* md5_init
md5_init == [blocks |-> <<>>, count |-> 0, buffer |-> Fill(CY_HBLOCK)]

\* md5_update: a full buffer and the full blocks after it are mixed in.  What is
\* left of data goes to the places it has in data, not to the front of the
\* buffer; places past the buffer belong to nobody the digest reads.
md5_update(ctx, data) ==
  LET index == ctx.count % CY_HBLOCK
      part  == CY_HBLOCK - index
      Whole(n) == (n - part) \div CY_HBLOCK
      from  == IF Len(data) >= part THEN part + CY_HBLOCK * Whole(Len(data)) ELSE 0
      base  == IF Len(data) >= part THEN 0 ELSE index
      first == [i \in 1 .. CY_HBLOCK |-> IF i > index /\ i - index <= Len(data) THEN data[i - index] ELSE ctx.buffer[i]]
      rest  == [k \in 1 .. (IF Len(data) >= part THEN Whole(Len(data)) ELSE 0) |-> SubSeq(data, part + CY_HBLOCK * (k - 1) + 1, part + CY_HBLOCK * k)]
      held  == IF Len(data) >= part THEN first ELSE ctx.buffer
  IN  [blocks |-> IF Len(data) >= part THEN ctx.blocks \o <<first>> \o rest ELSE ctx.blocks,
       count  |-> ctx.count + Len(data),
       buffer |-> [i \in 1 .. CY_HBLOCK |-> IF i - base > from /\ i - base <= Len(data) THEN data[i - base] ELSE held[i]]]

pad_len(index) == IF index < CY_HBLOCK - CY_HLEN THEN CY_HBLOCK - CY_HLEN - index ELSE 2 * CY_HBLOCK - CY_HLEN - index
Bits(order, count) == [i \in 1 .. CY_HLEN |-> ToString(<<IF order = "little" THEN i ELSE CY_HLEN + 1 - i, count>>)]

\* md5_final: padding and length go through md5_update.
md5_final(ctx) ==
  LET padded == md5_update(ctx, <<"80">> \o Fill(pad_len(ctx.count % CY_HBLOCK) - 1))
  IN  md5_update(padded, Bits("little", ctx.count)).blocks

\* md4 has md5's loops; sha1 and sha256 store the length with its high byte first.
md4_update(ctx, data) == md5_update(ctx, data)
md4_final(ctx) == md5_final(ctx)
sha1_update(ctx, data) == md5_update(ctx, data)
sha1_final(ctx) ==
  LET padded == sha1_update(ctx, <<"80">> \o Fill(pad_len(ctx.count % CY_HBLOCK) - 1))
  IN  sha1_update(padded, Bits("big", ctx.count)).blocks
sha256_update_ctx(ctx, data) == sha1_update(ctx, data)
sha256_final_ctx(ctx) == sha1_final(ctx)

----------------------------------------------------------------------------
(* Encryption *)
Xor(a, b) == (a \ b) \cup (b \ a)
Plain(data) == [i \in DOMAIN data |-> {<<"byte", data[i], 0, 0>>}]

\* chacha20_block and sec_aes256_encrypt_block: block c of the keystream of a key.
KeyBlock(cipher, key, c) == [i \in 0 .. CY_KBLOCK - 1 |-> {<<cipher, key, c, i>>}]

\* sec_chacha20, sec_aes256_ctr_encrypt and aes256_ctr: byte by byte, from block c.
Stream(in, cipher, key, c) ==
  [i \in DOMAIN in |-> Xor(in[i], KeyBlock(cipher, key, c + (i - 1) \div CY_KBLOCK)[(i - 1) % CY_KBLOCK])]

\* Mutant: a block that was used in part is used again.
NextCounter_whole(c, len) == c + len \div CY_KBLOCK

\* sec_chacha20_crypt and sec_chacha20_poly1305_encrypt_stream: the counter goes
\* past every block that was begun.
NextCounter(c, len) == c + (len + CY_KBLOCK - 1) \div CY_KBLOCK

\* sec_chacha20_poly1305_init: block 0 is the key of the tag, data starts at 1.
PolyKey(key) == KeyBlock("chacha", key, 0)

\* sec_aes256_gcm_encrypt: data and tag both start from counter 1; the bytes
\* between the data and the next whole block are not set.
sec_aes256_gcm_encrypt(in, key, junk) ==
  LET out == Stream(in, "aes", key, 1)
      fill == IF Len(in) % CY_KBLOCK = 0 THEN "none" ELSE junk
  IN  [out |-> out, tag |-> <<"ghash", out, fill, key>>]

\* sec_aes256_gcm_decrypt: the data only with the tag that belongs to it.
sec_aes256_gcm_decrypt(c, key, junk) ==
  LET fill == IF Len(c.out) % CY_KBLOCK = 0 THEN "none" ELSE junk
  IN  IF c.tag = <<"ghash", c.out, fill, key>> THEN Stream(c.out, "aes", key, 1) ELSE <<>>

\* sec_aes128_ccmp_encrypt: blocks from 0, and the one after the data for the tag.
sec_aes128_ccmp_encrypt(in, key) ==
  [out |-> Stream(in, "ccmp", key, 0), tag |-> KeyBlock("ccmp", key, NextCounter(0, Len(in)))]
sec_aes128_ccmp_decrypt(c, key) == Stream(c.out, "ccmp", key, 0)

----------------------------------------------------------------------------
(* Callers *)
Datas == UNION {[1 .. n -> CY_BYTES] : n \in CY_CHUNKS}

CYInit ==
  /\ cy_sha = sec_sha256_init /\ cy_md = md5_init /\ cy_msg = <<>>
  /\ cy_tx = 1 /\ cy_rx = 1 /\ cy_wire = <<>> /\ cy_sent = <<>> /\ cy_got = <<>> /\ cy_stream = <<>>
  /\ cy_kdf = [loop |-> <<>>, expand |-> <<>>, len |-> 0]

hash_update(data) ==
  /\ cy_sent = <<>> /\ cy_kdf.len = 0 /\ Len(cy_msg) + Len(data) <= CY_MAX
  /\ cy_sha' = sec_sha256_update(cy_sha, data) /\ cy_md' = md5_update(cy_md, data) /\ cy_msg' = cy_msg \o data
  /\ UNCHANGED <<cy_tx, cy_rx, cy_wire, cy_sent, cy_got, cy_stream, cy_kdf>>

\* One end encrypts a chunk of any length ...
send(data) ==
  /\ cy_msg = <<>> /\ cy_kdf.len = 0 /\ Len(cy_sent) + Len(data) <= CY_MAX
  /\ LET out == Stream(Plain(data), "chacha", "k", cy_tx)
     IN  cy_wire' = Append(cy_wire, out) /\ cy_stream' = cy_stream \o out
  /\ cy_tx' = NextCounter(cy_tx, Len(data)) /\ cy_sent' = cy_sent \o data
  /\ UNCHANGED <<cy_sha, cy_md, cy_msg, cy_rx, cy_got, cy_kdf>>

\* ... the other decrypts the chunks in order.
receive ==
  /\ cy_wire # <<>>
  /\ cy_got' = cy_got \o Stream(Head(cy_wire), "chacha", "k", cy_rx)
  /\ cy_rx' = NextCounter(cy_rx, Len(Head(cy_wire))) /\ cy_wire' = Tail(cy_wire)
  /\ UNCHANGED <<cy_sha, cy_md, cy_msg, cy_tx, cy_sent, cy_stream, cy_kdf>>

derive(data, salt, len, unset) ==
  /\ cy_msg = <<>> /\ cy_sent = <<>> /\ cy_kdf.len = 0
  /\ cy_kdf' = [loop |-> sec_hkdf_sha256(data, salt, <<"info">>, len, unset),
                expand |-> sec_hkdf_sha256_expand(sec_hmac_sha256(IF salt = <<>> THEN Fill(CY_DIGEST) ELSE salt, data, unset), <<"info">>, len, unset),
                len |-> len]
  /\ UNCHANGED <<cy_sha, cy_md, cy_msg, cy_tx, cy_rx, cy_wire, cy_sent, cy_got, cy_stream>>

CYNext ==
  \/ \E data \in Datas : hash_update(data)
  \/ \E n \in CY_CHUNKS : send([i \in 1 .. n |-> CHOOSE b \in CY_BYTES : TRUE])
  \/ receive
  \/ \E n \in CY_CHUNKS, len \in CY_OKM, salted \in BOOLEAN, unset \in CY_BYTES :
       LET data == [i \in 1 .. n |-> CHOOSE b \in CY_BYTES : TRUE] IN derive(data, IF salted THEN data ELSE <<>>, len, unset)

----------------------------------------------------------------------------
Messages == UNION {[1 .. n -> CY_BYTES] : n \in 0 .. CY_MAX}
PaddedOf == [m \in Messages |-> sec_sha256(m)]

\* The streaming hash mixes in the full blocks of the message, however it was cut
\* into calls, and a length (twice the length, which the one-call hash does not
\* share); what follows the last full block it leaves to the stack.  No two
\* messages are padded to the same blocks by the one-call hash.
HashOfMessage ==
  /\ \A unset \in CY_BYTES :
       LET n == CY_HBLOCK * (Len(cy_msg) \div CY_HBLOCK)
           m == [i \in DOMAIN cy_msg |-> IF i <= n THEN cy_msg[i] ELSE unset]
       IN  sec_sha256_final(cy_sha, unset) = sha256_pad(sha256_feed(sec_sha256_init, m), 2 * Len(m))
  /\ \A m \in Messages : PaddedOf[m] = PaddedOf[cy_msg] => m = cy_msg

\* A byte of keystream is used once in a stream, whatever the lengths of the
\* calls, and never one of the block that keys the tag; the same holds inside a
\* CCMP frame, its tag included.
KeystreamOnce ==
  /\ \A i, j \in DOMAIN cy_stream : i # j =>
       {a \in cy_stream[i] : a[1] = "chacha"} \cap {a \in cy_stream[j] : a[1] = "chacha"} = {}
  /\ \A i \in DOMAIN cy_stream, j \in DOMAIN PolyKey("k") : cy_stream[i] \cap PolyKey("k")[j] = {}
  /\ LET frame == sec_aes128_ccmp_encrypt(Plain(cy_sent), "k")
     IN  \A i \in DOMAIN frame.out, j \in DOMAIN frame.tag : frame.out[i] \cap frame.tag[j] = {}

\* What one end encrypts in calls of any length the other gets back; so it is
\* with GCM where no byte of the tag's input is left unset, and with CCMP.
StreamComesBack ==
  /\ LET plain == Plain(cy_sent) IN cy_got = SubSeq(plain, 1, Len(cy_got)) /\ (cy_wire = <<>> => cy_got = plain)
  /\ LET p == Plain(cy_sent) IN
       /\ Len(p) % CY_KBLOCK = 0 => sec_aes256_gcm_decrypt(sec_aes256_gcm_encrypt(p, "k", "x"), "k", "y") = p
       /\ sec_aes128_ccmp_decrypt(sec_aes128_ccmp_encrypt(p, "k"), "k") = p

\* The two expansions of HKDF give the same key of the length asked for where the
\* stack holds the same bytes.
ExpansionsAgree == cy_kdf.loop = cy_kdf.expand /\ Len(cy_kdf.loop) = cy_kdf.len

\* A password that leaves room for the padding in its block is padded as the
\* standard says, whatever the calls; a longer one makes the right number of
\* blocks, though not always the right ones (see md5_update).
PasswordDigests ==
  LET blocks == md5_final(cy_md)
  IN  /\ Len(blocks) = (Len(cy_msg) + CY_HLEN) \div CY_HBLOCK + 1
      /\ Len(cy_msg) < CY_HBLOCK - CY_HLEN =>
           /\ blocks = <<Append(cy_msg, "80") \o Fill(CY_HBLOCK - CY_HLEN - Len(cy_msg) - 1) \o Bits("little", Len(cy_msg))>>
           /\ md4_final(cy_md) = blocks
           /\ sha256_final_ctx(cy_md) = <<SubSeq(blocks[1], 1, CY_HBLOCK - CY_HLEN) \o Bits("big", Len(cy_msg))>>

\* The digests together.
DigestsAgree == PasswordDigests /\ HashOfMessage /\ ExpansionsAgree

CYSpec == CYInit /\ [][CYNext]_cyVars
=============================================================================
