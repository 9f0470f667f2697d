----------------------------- MODULE IdentProofs ----------------------------
(***************************************************************************)
(* Proofs about what keeps secrets and identities in stage 2: the streams  *)
(* of security/common, the disk identities and the addresses on the wire,  *)
(* for every size of a block, a table and a history and every set of       *)
(* strings, keys and addresses.                                            *)
(***************************************************************************)
EXTENDS SIdent, FiniteSetTheorems, FunctionTheorems, SequenceTheorems, WellFoundedInduction, TLAPS

(* A set of numbers that is not empty has a smallest one. *)
LEMMA SmallestOfNat ==
  ASSUME NEW T, T \subseteq Nat, T # {}
  PROVE  \E x \in T : \A y \in T : x <= y
  <1> DEFINE Lt == OpToRel(<, Nat)
  <1>1. IsWellFoundedOn(Lt, Nat)
    BY NatLessThanWellFounded
  <1>2. \A x, y \in Nat : x < y => <<x, y>> \in Lt
    BY DEF OpToRel
  <1> HIDE DEF Lt
  <1>3. PICK x \in T : \A y \in T : ~(<<y, x>> \in Lt)
    BY <1>1, WFMin
  <1>4. ASSUME NEW y \in T PROVE x <= y
    <2>1. x \in Nat /\ y \in Nat
      OBVIOUS
    <2>2. ~(y < x)
      BY <2>1, <1>2, <1>3, Zenon
    <2> QED BY <2>1, <2>2
  <1> QED BY <1>4

----------------------------------------------------------------------------
(***************************************************************************)
(* The streams of security/common.  First the arithmetic of blocks: a      *)
(* place in a stream is a block and an offset, and the counter after n     *)
(* bytes is past every block they began.                                   *)
(***************************************************************************)
LEMMA BlockPlace ==
  ASSUME NEW j \in Nat
  PROVE  /\ j \div CY_KBLOCK \in Nat /\ j % CY_KBLOCK \in 0 .. CY_KBLOCK - 1
         /\ j = CY_KBLOCK * (j \div CY_KBLOCK) + (j % CY_KBLOCK)
  BY CYSizes

LEMMA SmallerFactor ==
  ASSUME NEW k \in Nat, NEW q \in Nat, NEW r \in Nat, k * q < k * r
  PROVE  q < r
  <1>1. SUFFICES ASSUME r <= q PROVE FALSE
    OBVIOUS
  <1>2. PICK d \in Nat : q = r + d
    <2>1. q - r \in Nat
      BY <1>1
    <2> QED BY <2>1
  <1>3. k * q = k * r + k * d /\ k * d \in Nat /\ k * r \in Nat
    BY <1>2
  <1> QED BY <1>3

LEMMA PastEveryBlock ==
  ASSUME NEW n \in Nat, NEW j \in Nat, j < n, NEW c \in Nat
  PROVE  NextCounter(c, n) \in Nat /\ c + j \div CY_KBLOCK < NextCounter(c, n)
  <1> DEFINE k == CY_KBLOCK
             q == j \div k
             m == n + k - 1
             r == m \div k
  <1>0. k \in Nat /\ k > 0 /\ m \in Nat
    BY CYSizes
  <1>1. q \in Nat /\ k * q \in Nat /\ k * q <= j
    BY <1>0, BlockPlace
  <1>2. r \in Nat /\ k * r \in Nat /\ m < k * r + k
    BY <1>0, BlockPlace
  <1> HIDE DEF q, r
  <1>3. q < r
    <2>1. k * q < k * r
      BY <1>0, <1>1, <1>2
    <2> QED BY <1>0, <1>1, <1>2, <2>1, SmallerFactor
  <1> QED BY <1>1, <1>2, <1>3 DEF NextCounter, q, r

LEMMA CounterGrows ==
  ASSUME NEW n \in Nat, NEW c \in Nat
  PROVE  NextCounter(c, n) \in Nat /\ c <= NextCounter(c, n)
  BY CYSizes, BlockPlace DEF NextCounter

(* Exclusive or twice with one byte. *)
LEMMA XorTwice == ASSUME NEW a, NEW b PROVE Xor(Xor(a, b), b) = a
  BY DEF Xor

\* The key byte of the place i of data that starts at block c.
KeyAtom(cipher, key, c, i) == {<<cipher, key, c + (i - 1) \div CY_KBLOCK, (i - 1) % CY_KBLOCK>>}

LEMMA StreamByte ==
  ASSUME NEW in, NEW cipher, NEW key, NEW c, NEW n \in Nat, DOMAIN in = 1 .. n
  PROVE  /\ DOMAIN Stream(in, cipher, key, c) = 1 .. n
         /\ \A i \in 1 .. n : Stream(in, cipher, key, c)[i] = Xor(in[i], KeyAtom(cipher, key, c, i))
  <1>1. ASSUME NEW i \in 1 .. n
        PROVE  KeyBlock(cipher, key, c + (i - 1) \div CY_KBLOCK)[(i - 1) % CY_KBLOCK] = KeyAtom(cipher, key, c, i)
    <2>1. (i - 1) % CY_KBLOCK \in 0 .. CY_KBLOCK - 1
      BY BlockPlace, i - 1 \in Nat
    <2> QED BY <2>1 DEF KeyBlock, KeyAtom
  <1> QED BY <1>1 DEF Stream

(* A stream is its own inverse. *)
LEMMA StreamTwice ==
  ASSUME NEW in, NEW cipher, NEW key, NEW c, NEW n \in Nat, DOMAIN in = 1 .. n, in = [i \in 1 .. n |-> in[i]]
  PROVE  Stream(Stream(in, cipher, key, c), cipher, key, c) = in
  <1> DEFINE out == Stream(in, cipher, key, c)
             back == Stream(out, cipher, key, c)
  <1>1. DOMAIN out = 1 .. n /\ \A i \in 1 .. n : out[i] = Xor(in[i], KeyAtom(cipher, key, c, i))
    BY StreamByte
  <1>2. back = [i \in DOMAIN out |-> back[i]]
    BY DEF Stream
  <1> HIDE DEF out
  <1>3. DOMAIN back = 1 .. n /\ \A i \in 1 .. n : back[i] = Xor(out[i], KeyAtom(cipher, key, c, i))
    BY <1>1, StreamByte
  <1> HIDE DEF back
  <1>4. \A i \in 1 .. n : back[i] = in[i]
    BY <1>1, <1>3, XorTwice
  <1> QED BY <1>1, <1>2, <1>4 DEF out, back

\* An encrypted byte: what was sent, and its place in the keystream.
Cell(b, c, o) == Xor({<<"byte", b, 0, 0>>}, {<<"chacha", "k", c, o>>})
Offsets == 0 .. CY_KBLOCK - 1
Cells == {Cell(b, c, o) : b \in CY_BYTES, c \in Nat, o \in Offsets}
PlainBytes == {{<<"byte", b, 0, 0>>} : b \in CY_BYTES}

LEMMA Encrypted ==
  ASSUME NEW data \in Seq(CY_BYTES), NEW c \in Nat
  PROVE  LET out == Stream(Plain(data), "chacha", "k", c) IN
         /\ out \in Seq(Cells) /\ Len(out) = Len(data)
         /\ \A i \in 1 .. Len(data) : /\ out[i] = Cell(data[i], c + (i - 1) \div CY_KBLOCK, (i - 1) % CY_KBLOCK)
                                     /\ c + (i - 1) \div CY_KBLOCK \in Nat /\ (i - 1) % CY_KBLOCK \in Offsets
  <1> DEFINE out == Stream(Plain(data), "chacha", "k", c)
             n == Len(data)
             in == Plain(data)
  <1>1. n \in Nat /\ DOMAIN data = 1 .. n /\ \A i \in 1 .. n : data[i] \in CY_BYTES
    BY LenProperties, ElementOfSeq
  <1> HIDE DEF n
  <1>2. DOMAIN in = 1 .. n /\ \A i \in 1 .. n : in[i] = {<<"byte", data[i], 0, 0>>}
    BY <1>1 DEF Plain
  <1>3. out = [i \in DOMAIN in |-> out[i]]
    BY DEF Stream
  <1> HIDE DEF in
  <1>4. DOMAIN out = 1 .. n /\ \A i \in 1 .. n : out[i] = Xor(in[i], KeyAtom("chacha", "k", c, i))
    BY <1>1, <1>2, StreamByte DEF in
  <1> HIDE DEF out
  <1>5. ASSUME NEW i \in 1 .. n
        PROVE  /\ out[i] = Cell(data[i], c + (i - 1) \div CY_KBLOCK, (i - 1) % CY_KBLOCK)
               /\ c + (i - 1) \div CY_KBLOCK \in Nat /\ (i - 1) % CY_KBLOCK \in Offsets
    <2>1. (i - 1) \div CY_KBLOCK \in Nat /\ (i - 1) % CY_KBLOCK \in Offsets
      BY BlockPlace, i - 1 \in Nat DEF Offsets
    <2>2. out[i] = Xor({<<"byte", data[i], 0, 0>>}, KeyAtom("chacha", "k", c, i))
      BY <1>2, <1>4
    <2>3. out[i] = Cell(data[i], c + (i - 1) \div CY_KBLOCK, (i - 1) % CY_KBLOCK)
      BY <2>2 DEF Cell, KeyAtom
    <2>4. c + (i - 1) \div CY_KBLOCK \in Nat
      BY <2>1
    <2> QED BY <2>1, <2>3, <2>4
  <1>6. \A i \in 1 .. n : out[i] \in Cells
    BY <1>1, <1>5 DEF Cells
  <1>7. out \in Seq(Cells) /\ Len(out) = n
    BY <1>1, <1>2, <1>3, <1>4, <1>6
  <1> QED BY <1>5, <1>7 DEF n, out

----------------------------------------------------------------------------
(***************************************************************************)
(* The bytes on the stream have places of their own, all of them in blocks *)
(* from 1 on that the counter is past.                                     *)
(***************************************************************************)
Placed(pl) ==
  /\ pl \in [1 .. Len(cy_stream) -> Nat \X Offsets]
  /\ \A i \in 1 .. Len(cy_stream) : /\ pl[i][1] >= 1 /\ pl[i][1] < cy_tx
                                     /\ cy_stream[i] = Cell(cy_sent[i], pl[i][1], pl[i][2])
  /\ \A i, j \in 1 .. Len(cy_stream) : pl[i] = pl[j] => i = j
StreamInv ==
  /\ cy_tx \in Nat /\ cy_tx >= 1 /\ cy_sent \in Seq(CY_BYTES)
  /\ cy_stream \in Seq(Cells) /\ Len(cy_stream) = Len(cy_sent)
  /\ \E pl : Placed(pl)

LEMMA CellAtoms ==
  ASSUME NEW b, NEW c, NEW o
  PROVE  /\ {a \in Cell(b, c, o) : a[1] = "chacha"} = {<<"chacha", "k", c, o>>}
         /\ \A a \in Cell(b, c, o) : a = <<"byte", b, 0, 0>> \/ a = <<"chacha", "k", c, o>>
  BY DEF Cell, Xor

LEMMA PlacesMean == StreamInv => KeystreamOnce
  <1> SUFFICES ASSUME StreamInv PROVE KeystreamOnce
    OBVIOUS
  <1>1. PICK pl : Placed(pl)
    BY DEF StreamInv
  <1>2. DOMAIN cy_stream = 1 .. Len(cy_stream)
    BY LenProperties DEF StreamInv
  <1>3. ASSUME NEW i \in DOMAIN cy_stream, NEW j \in DOMAIN cy_stream, i # j
        PROVE  {a \in cy_stream[i] : a[1] = "chacha"} \cap {a \in cy_stream[j] : a[1] = "chacha"} = {}
    <2>1. pl[i] # pl[j] /\ pl[i] \in Nat \X Offsets /\ pl[j] \in Nat \X Offsets
      BY <1>1, <1>2, <1>3 DEF Placed
    <2>2. pl[i] = <<pl[i][1], pl[i][2]>> /\ pl[j] = <<pl[j][1], pl[j][2]>>
      BY <2>1
    <2>3. <<"chacha", "k", pl[i][1], pl[i][2]>> # <<"chacha", "k", pl[j][1], pl[j][2]>>
      BY <2>1, <2>2
    <2>4. /\ cy_stream[i] = Cell(cy_sent[i], pl[i][1], pl[i][2])
          /\ cy_stream[j] = Cell(cy_sent[j], pl[j][1], pl[j][2])
      BY <1>1, <1>2 DEF Placed
    <2> QED BY <2>3, <2>4, CellAtoms
  <1>4. ASSUME NEW i \in DOMAIN cy_stream, NEW j \in DOMAIN PolyKey("k") PROVE cy_stream[i] \cap PolyKey("k")[j] = {}
    <2>1. cy_stream[i] = Cell(cy_sent[i], pl[i][1], pl[i][2]) /\ pl[i][1] >= 1 /\ pl[i][1] \in Nat
      BY <1>1, <1>2 DEF Placed
    <2>2. PolyKey("k")[j] = {<<"chacha", "k", 0, j>>}
      BY DEF PolyKey, KeyBlock
    <2>3. <<"chacha", "k", pl[i][1], pl[i][2]>> # <<"chacha", "k", 0, j>>
      BY <2>1
    <2>4. <<"byte", cy_sent[i], 0, 0>> # <<"chacha", "k", 0, j>>
      OBVIOUS
    <2> QED BY <2>1, <2>2, <2>3, <2>4, CellAtoms
  <1>5. LET frame == sec_aes128_ccmp_encrypt(Plain(cy_sent), "k")
        IN  \A i \in DOMAIN frame.out, j \in DOMAIN frame.tag : frame.out[i] \cap frame.tag[j] = {}
    <2> DEFINE in == Plain(cy_sent)
               n == Len(cy_sent)
               m == Len(in)
               out == Stream(in, "ccmp", "k", 0)
               tag == KeyBlock("ccmp", "k", NextCounter(0, m))
               frame == sec_aes128_ccmp_encrypt(in, "k")
    <2>1. frame.out = out /\ frame.tag = tag
      BY DEF sec_aes128_ccmp_encrypt
    <2>2. n \in Nat /\ DOMAIN in = 1 .. n /\ m = n /\ \A i \in 1 .. n : in[i] = {<<"byte", cy_sent[i], 0, 0>>}
      BY LenProperties DEF StreamInv, Plain
    <2> HIDE DEF in, n, m, frame
    <2>3. DOMAIN out = 1 .. n /\ \A i \in 1 .. n : out[i] = Xor(in[i], KeyAtom("ccmp", "k", 0, i))
      BY <2>2, StreamByte
    <2> HIDE DEF out
    <2>4. \A j \in DOMAIN tag : tag[j] = {<<"ccmp", "k", NextCounter(0, m), j>>}
      BY DEF KeyBlock
    <2> HIDE DEF tag
    <2>5. ASSUME NEW i \in DOMAIN out, NEW j \in DOMAIN tag PROVE out[i] \cap tag[j] = {}
      <3> DEFINE q == 0 + (i - 1) \div CY_KBLOCK
                 t == NextCounter(0, m)
      <3>1. i - 1 \in Nat /\ i - 1 < m
        BY <2>2, <2>3
      <3>2. t \in Nat /\ q < t /\ q \in Int
        BY <2>2, <3>1, PastEveryBlock, BlockPlace
      <3>3. out[i] = Xor({<<"byte", cy_sent[i], 0, 0>>}, {<<"ccmp", "k", q, (i - 1) % CY_KBLOCK>>}) /\ tag[j] = {<<"ccmp", "k", t, j>>}
        BY <2>2, <2>3, <2>4 DEF KeyAtom
      <3> HIDE DEF q, t
      <3>4. <<"ccmp", "k", q, (i - 1) % CY_KBLOCK>> # <<"ccmp", "k", t, j>> /\ <<"byte", cy_sent[i], 0, 0>> # <<"ccmp", "k", t, j>>
        BY <3>2
      <3> QED BY <3>3, <3>4 DEF Xor
    <2> QED BY <2>1, <2>5 DEF in, frame
  <1> QED BY <1>3, <1>4, <1>5 DEF KeystreamOnce

(* What one call of the sender adds. *)
LEMMA Joined ==
  ASSUME NEW S, NEW s \in Seq(S), NEW t \in Seq(S)
  PROVE  /\ s \o t \in Seq(S) /\ Len(s \o t) = Len(s) + Len(t)
         /\ \A i \in 1 .. Len(s) : (s \o t)[i] = s[i]
         /\ \A i \in 1 .. Len(t) : (s \o t)[Len(s) + i] = t[i]
  <1>1. Len(s) \in Nat /\ Len(t) \in Nat
    BY LenProperties
  <1> QED BY <1>1, ConcatProperties

LEMMA JoinedAs ==
  ASSUME NEW S, NEW s \in Seq(S), NEW t \in Seq(S), NEW u, u = s \o t, NEW l, l = Len(s), NEW n, n = Len(t)
  PROVE  /\ u \in Seq(S) /\ Len(u) = l + n
         /\ \A i \in 1 .. l : u[i] = s[i]
         /\ \A i \in 1 .. n : u[l + i] = t[i]
  BY Joined

LEMMA SentPlaced ==
  ASSUME StreamInv, NEW data \in Seq(CY_BYTES),
         cy_stream' = cy_stream \o Stream(Plain(data), "chacha", "k", cy_tx),
         cy_tx' = NextCounter(cy_tx, Len(data)), cy_sent' = cy_sent \o data
  PROVE  StreamInv'
  <1> DEFINE out == Stream(Plain(data), "chacha", "k", cy_tx)
             n == Len(data)
             l == Len(cy_stream)
             block(i) == cy_tx + (i - l - 1) \div CY_KBLOCK
             place(i) == (i - l - 1) % CY_KBLOCK
  <1>1. PICK pl : Placed(pl)
    BY DEF StreamInv
  <1> DEFINE new == [i \in 1 .. l + n |-> IF i <= l THEN pl[i] ELSE <<block(i), place(i)>>]
  <1>2. /\ l \in Nat /\ n \in Nat /\ cy_tx \in Nat /\ cy_tx >= 1 /\ cy_sent \in Seq(CY_BYTES) /\ cy_stream \in Seq(Cells) /\ Len(cy_sent) = l
        /\ Len(cy_stream) = l /\ Len(data) = n
    BY LenProperties DEF StreamInv
  <1>3. /\ out \in Seq(Cells) /\ Len(out) = n
        /\ \A i \in 1 .. n : /\ out[i] = Cell(data[i], cy_tx + (i - 1) \div CY_KBLOCK, (i - 1) % CY_KBLOCK)
                            /\ cy_tx + (i - 1) \div CY_KBLOCK \in Nat /\ (i - 1) % CY_KBLOCK \in Offsets
    BY <1>2, Encrypted
  <1> HIDE DEF out, l, n
  <1>4. /\ cy_stream' \in Seq(Cells) /\ Len(cy_stream') = l + n
        /\ \A i \in 1 .. l : cy_stream'[i] = cy_stream[i]
        /\ \A i \in 1 .. n : cy_stream'[l + i] = out[i]
    <2>1. cy_stream' = cy_stream \o out /\ l = Len(cy_stream) /\ n = Len(out)
      BY <1>2, <1>3 DEF out
    <2>2. cy_stream \in Seq(Cells) /\ out \in Seq(Cells)
      BY <1>2, <1>3
    <2>3. PICK s, t, u : s = cy_stream /\ t = out /\ u = cy_stream'
      OBVIOUS
    <2>4. u \in Seq(Cells) /\ Len(u) = l + n
      BY <2>1, <2>2, <2>3, JoinedAs
    <2>5. \A i \in 1 .. l : u[i] = s[i]
      BY <2>1, <2>2, <2>3, JoinedAs
    <2>6. \A i \in 1 .. n : u[l + i] = t[i]
      BY <2>1, <2>2, <2>3, JoinedAs
    <2> QED BY <2>3, <2>4, <2>5, <2>6
  <1>5. /\ cy_sent' \in Seq(CY_BYTES) /\ Len(cy_sent') = l + n
        /\ \A i \in 1 .. l : cy_sent'[i] = cy_sent[i]
        /\ \A i \in 1 .. n : cy_sent'[l + i] = data[i]
    <2>1. l = Len(cy_sent) /\ n = Len(data)
      BY <1>2
    <2>2. PICK s, u : s = cy_sent /\ u = cy_sent'
      OBVIOUS
    <2>3. s \in Seq(CY_BYTES) /\ u = s \o data
      BY <1>2, <2>2
    <2>4. u \in Seq(CY_BYTES) /\ Len(u) = l + n
      BY <2>1, <2>2, <2>3, JoinedAs
    <2>5. \A i \in 1 .. l : u[i] = s[i]
      BY <2>1, <2>2, <2>3, JoinedAs
    <2>6. \A i \in 1 .. n : u[l + i] = data[i]
      BY <2>1, <2>2, <2>3, JoinedAs
    <2> QED BY <2>2, <2>4, <2>5, <2>6
  <1>6. cy_tx' \in Nat /\ cy_tx <= cy_tx'
    BY <1>2, CounterGrows
  <1>7. ASSUME NEW i \in 1 .. l + n, ~(i <= l)
        PROVE  /\ block(i) \in Nat /\ place(i) \in Offsets /\ cy_tx <= block(i) /\ block(i) < cy_tx'
               /\ cy_stream'[i] = Cell(cy_sent'[i], block(i), place(i))
               /\ i - l - 1 = CY_KBLOCK * (block(i) - cy_tx) + place(i)
    <2> DEFINE k == i - l
    <2>1. k \in 1 .. n /\ l + k = i /\ k - 1 \in Nat /\ k - 1 < n /\ k - 1 = i - l - 1
      BY <1>2, <1>7
    <2>2. (k - 1) \div CY_KBLOCK \in Nat /\ (k - 1) % CY_KBLOCK \in Offsets /\ k - 1 = CY_KBLOCK * ((k - 1) \div CY_KBLOCK) + ((k - 1) % CY_KBLOCK)
      BY <2>1, BlockPlace DEF Offsets
    <2>3. cy_tx + (k - 1) \div CY_KBLOCK < cy_tx'
      <3> HIDE DEF k
      <3> QED BY <1>2, <2>1, PastEveryBlock
    <2>4. block(i) = cy_tx + (k - 1) \div CY_KBLOCK /\ place(i) = (k - 1) % CY_KBLOCK
      OBVIOUS
    <2>5. cy_stream'[i] = Cell(cy_sent'[i], cy_tx + (k - 1) \div CY_KBLOCK, (k - 1) % CY_KBLOCK)
      <3>1. cy_stream'[l + k] = out[k] /\ cy_sent'[l + k] = data[k]
        BY <1>4, <1>5, <2>1
      <3> HIDE DEF k
      <3> QED BY <1>3, <2>1, <3>1
    <2> DEFINE q == (k - 1) \div CY_KBLOCK
               o == (k - 1) % CY_KBLOCK
    <2>6. q \in Nat /\ o \in Offsets /\ k - 1 = CY_KBLOCK * q + o /\ block(i) = cy_tx + q /\ place(i) = o /\ cy_tx + q < cy_tx'
      BY <2>2, <2>3, <2>4
    <2>7. cy_stream'[i] = Cell(cy_sent'[i], block(i), place(i))
      BY <2>4, <2>5
    <2> HIDE DEF q, o, k, block, place
    <2>8. block(i) - cy_tx = q /\ cy_tx <= block(i) /\ block(i) \in Nat
      BY <1>2, <2>6
    <2> QED BY <2>1, <2>6, <2>7, <2>8
  <1> HIDE DEF block, place
  <1>8. ASSUME NEW i \in 1 .. l + n, i <= l
        PROVE  pl[i] \in Nat \X Offsets /\ pl[i][1] >= 1 /\ pl[i][1] < cy_tx /\ cy_stream'[i] = Cell(cy_sent'[i], pl[i][1], pl[i][2])
    <2>1. i \in 1 .. l
      BY <1>2, <1>8
    <2> QED BY <1>1, <1>4, <1>5, <2>1 DEF Placed, l
  <1>9. \A i \in 1 .. l + n : /\ i <= l => new[i] = pl[i]
                             /\ ~(i <= l) => new[i] = <<block(i), place(i)>>
    OBVIOUS
  <1>10. new \in [1 .. l + n -> Nat \X Offsets]
    BY <1>7, <1>8
  <1>11. ASSUME NEW i \in 1 .. l + n
         PROVE  new[i][1] >= 1 /\ new[i][1] < cy_tx' /\ cy_stream'[i] = Cell(cy_sent'[i], new[i][1], new[i][2])
    <2>1. CASE i <= l
      <3>1. pl[i][1] >= 1 /\ pl[i][1] < cy_tx /\ pl[i][1] \in Nat /\ cy_stream'[i] = Cell(cy_sent'[i], pl[i][1], pl[i][2])
        BY <1>8, <2>1
      <3>2. new[i] = pl[i]
        BY <1>9, <2>1
      <3> HIDE DEF new
      <3>3. pl[i][1] < cy_tx'
        BY <1>2, <1>6, <3>1
      <3> QED BY <3>1, <3>2, <3>3, Zenon
    <2>2. CASE ~(i <= l)
      <3>0. block(i) \in Nat /\ cy_tx <= block(i) /\ block(i) < cy_tx' /\ cy_stream'[i] = Cell(cy_sent'[i], block(i), place(i))
        BY <1>7, <2>2, Zenon
      <3>1. block(i) >= 1
        BY <1>2, <3>0
      <3>2. new[i][1] = block(i) /\ new[i][2] = place(i)
        BY <1>9, <2>2
      <3> HIDE DEF new
      <3> QED BY <3>0, <3>1, <3>2, Zenon
    <2> QED BY <2>1, <2>2
  <1>12. ASSUME NEW i \in 1 .. l + n, NEW j \in 1 .. l + n, new[i] = new[j]
         PROVE  i = j
    <2>1. CASE i <= l /\ j <= l
      <3>1. i \in 1 .. Len(cy_stream) /\ j \in 1 .. Len(cy_stream)
        BY <1>2, <2>1 DEF l
      <3> QED BY <1>1, <1>9, <1>12, <2>1, <3>1 DEF Placed
    <2>2. CASE ~(i <= l) /\ ~(j <= l)
      <3>1. block(i) = block(j) /\ place(i) = place(j)
        BY <1>9, <1>12, <2>2
      <3>2. i - l - 1 = j - l - 1
        BY <1>7, <2>2, <3>1
      <3> QED BY <1>2, <3>2
    <2>3. CASE i <= l /\ ~(j <= l)
      <3>1. pl[i][1] = block(j)
        BY <1>9, <1>12, <2>3
      <3> QED BY <1>2, <1>7, <1>8, <2>3, <3>1
    <2>4. CASE ~(i <= l) /\ j <= l
      <3>1. pl[j][1] = block(i)
        BY <1>9, <1>12, <2>4
      <3> QED BY <1>2, <1>7, <1>8, <2>4, <3>1
    <2> QED BY <2>1, <2>2, <2>3, <2>4
  <1> HIDE DEF new
  <1>13. PICK w : w = new
    OBVIOUS
  <1>14. Placed(w)'
    BY <1>4, <1>10, <1>11, <1>12, <1>13 DEF Placed
  <1> QED BY <1>2, <1>4, <1>5, <1>6, <1>14 DEF StreamInv

----------------------------------------------------------------------------
(***************************************************************************)
(* The two ends: what came back is the beginning of what was sent, and the *)
(* chunks on the way follow it, each under the counter the receiver will   *)
(* have when its turn comes.                                               *)
(***************************************************************************)
Cut(off, ctr) ==
  LET w == Len(cy_wire) IN
  /\ off \in [1 .. w + 1 -> Nat] /\ ctr \in [1 .. w + 1 -> Nat]
  /\ off[1] = Len(cy_got) /\ off[w + 1] = Len(cy_sent) /\ ctr[1] = cy_rx /\ ctr[w + 1] = cy_tx
  /\ \A k \in 1 .. w :
       /\ off[k + 1] = off[k] + Len(cy_wire[k]) /\ off[k + 1] <= Len(cy_sent)
       /\ ctr[k + 1] = NextCounter(ctr[k], Len(cy_wire[k]))
       /\ \A i \in 1 .. Len(cy_wire[k]) : cy_wire[k][i] = Cell(cy_sent[off[k] + i], ctr[k] + (i - 1) \div CY_KBLOCK, (i - 1) % CY_KBLOCK)
GotInv ==
  /\ cy_wire \in Seq(Seq(Cells)) /\ cy_got \in Seq(PlainBytes) /\ Len(cy_got) <= Len(cy_sent)
  /\ \A i \in 1 .. Len(cy_got) : cy_got[i] = {<<"byte", cy_sent[i], 0, 0>>}
  /\ \E off, ctr : Cut(off, ctr)

LEMMA GotMeans == StreamInv /\ GotInv => StreamComesBack
  <1> SUFFICES ASSUME StreamInv, GotInv PROVE StreamComesBack
    OBVIOUS
  <1> DEFINE plain == Plain(cy_sent)
             n == Len(cy_sent)
             g == Len(cy_got)
  <1>1. n \in Nat /\ DOMAIN cy_sent = 1 .. n /\ g \in Nat /\ DOMAIN cy_got = 1 .. g /\ cy_got \in Seq(PlainBytes) /\ g <= n
        /\ \A i \in 1 .. n : cy_sent[i] \in CY_BYTES
    BY LenProperties, ElementOfSeq DEF StreamInv, GotInv
  <1>2. DOMAIN plain = 1 .. n /\ plain = [i \in 1 .. n |-> plain[i]] /\ \A i \in 1 .. n : plain[i] = {<<"byte", cy_sent[i], 0, 0>>}
    BY <1>1 DEF Plain
  <1>3. plain \in Seq(PlainBytes) /\ Len(plain) = n
    <2>1. \A i \in 1 .. n : plain[i] \in PlainBytes
      BY <1>1, <1>2 DEF PlainBytes
    <2> HIDE DEF plain, n
    <2> QED BY <1>1, <1>2, <2>1
  <1> HIDE DEF plain, n, g
  <1>8. ASSUME NEW i \in 1 .. g PROVE cy_got[i] = plain[i]
    <2>1. cy_got[i] = {<<"byte", cy_sent[i], 0, 0>>}
      BY DEF GotInv, g
    <2>2. i \in 1 .. n
      BY <1>1
    <2> QED BY <1>2, <2>1, <2>2
  <1>4. cy_got = SubSeq(plain, 1, g)
    <2> DEFINE s == SubSeq(plain, 1, g)
    <2>1. s \in Seq(PlainBytes) /\ Len(s) = g /\ \A i \in 1 .. g : s[i] = plain[i]
      BY <1>1, <1>3, SubSeqProperties
    <2>2. \A i \in 1 .. g : cy_got[i] = plain[i]
      BY <1>8
    <2> HIDE DEF s
    <2>3. Len(cy_got) = g
      BY DEF g
    <2>4. cy_got = s
      BY <1>1, <2>1, <2>2, <2>3, SeqEqual
    <2> QED BY <2>4 DEF s
  <1>5. cy_wire = <<>> => cy_got = plain
    <2>1. SUFFICES ASSUME cy_wire = <<>> PROVE cy_got = plain
      OBVIOUS
    <2>2. g = n
      BY <2>1 DEF GotInv, Cut, g, n
    <2>3. \A i \in 1 .. g : cy_got[i] = plain[i]
      BY <1>8
    <2> QED BY <1>1, <1>3, <2>2, <2>3, SeqEqual DEF g
  <1>6. Len(plain) % CY_KBLOCK = 0 => sec_aes256_gcm_decrypt(sec_aes256_gcm_encrypt(plain, "k", "x"), "k", "y") = plain
    <2>1. SUFFICES ASSUME Len(plain) % CY_KBLOCK = 0 PROVE sec_aes256_gcm_decrypt(sec_aes256_gcm_encrypt(plain, "k", "x"), "k", "y") = plain
      OBVIOUS
    <2> DEFINE out == Stream(plain, "aes", "k", 1)
               c == [out |-> out, tag |-> <<"ghash", out, "none", "k">>]
    <2>2. sec_aes256_gcm_encrypt(plain, "k", "x") = c
      BY <2>1 DEF sec_aes256_gcm_encrypt
    <2>3. Len(out) = n
      <3>1. DOMAIN out = 1 .. n /\ out = [i \in DOMAIN plain |-> out[i]]
        BY <1>1, <1>2, StreamByte DEF Stream
      <3> HIDE DEF out
      <3> QED BY <1>1, <1>2, <3>1
    <2>4. Stream(out, "aes", "k", 1) = plain
      BY <1>1, <1>2, StreamTwice
    <2>5. c.out = out /\ c.tag = <<"ghash", out, "none", "k">> /\ Len(c.out) % CY_KBLOCK = 0
      BY <1>3, <2>1, <2>3
    <2> HIDE DEF out, c
    <2>6. sec_aes256_gcm_decrypt(c, "k", "y") = Stream(out, "aes", "k", 1)
      BY <2>5 DEF sec_aes256_gcm_decrypt
    <2> QED BY <2>2, <2>4, <2>6
  <1>7. sec_aes128_ccmp_decrypt(sec_aes128_ccmp_encrypt(plain, "k"), "k") = plain
    BY <1>1, <1>2, StreamTwice DEF sec_aes128_ccmp_decrypt, sec_aes128_ccmp_encrypt
  <1> QED BY <1>4, <1>5, <1>6, <1>7 DEF StreamComesBack, plain, g

(* One more chunk on the way. *)
LEMMA ChunkSent ==
  ASSUME StreamInv, GotInv, NEW data \in Seq(CY_BYTES),
         cy_wire' = Append(cy_wire, Stream(Plain(data), "chacha", "k", cy_tx)),
         cy_tx' = NextCounter(cy_tx, Len(data)), cy_sent' = cy_sent \o data, UNCHANGED <<cy_got, cy_rx>>
  PROVE  GotInv'
  <1> DEFINE out == Stream(Plain(data), "chacha", "k", cy_tx)
             w == Len(cy_wire)
             n == Len(cy_sent)
             g == Len(cy_got)
             m == Len(data)
  <1>1. PICK off, ctr : Cut(off, ctr)
    BY DEF GotInv
  <1>2. /\ w \in Nat /\ n \in Nat /\ g \in Nat /\ m \in Nat /\ g <= n /\ cy_wire \in Seq(Seq(Cells)) /\ cy_got \in Seq(PlainBytes)
        /\ cy_sent \in Seq(CY_BYTES) /\ cy_tx \in Nat
    BY LenProperties DEF StreamInv, GotInv
  <1>3. /\ out \in Seq(Cells) /\ Len(out) = m
        /\ \A i \in 1 .. m : out[i] = Cell(data[i], cy_tx + (i - 1) \div CY_KBLOCK, (i - 1) % CY_KBLOCK)
    BY <1>2, Encrypted
  <1> HIDE DEF out
  <1>4. /\ cy_wire' \in Seq(Seq(Cells)) /\ Len(cy_wire') = w + 1
        /\ \A k \in 1 .. w : cy_wire'[k] = cy_wire[k]
        /\ cy_wire'[w + 1] = out
    BY <1>2, <1>3, AppendProperties DEF out
  <1>5. /\ Len(cy_sent') = n + m
        /\ \A i \in 1 .. n : cy_sent'[i] = cy_sent[i]
        /\ \A i \in 1 .. m : cy_sent'[n + i] = data[i]
    <2>2. PICK s, u : s = cy_sent /\ u = cy_sent'
      OBVIOUS
    <2>3. s \in Seq(CY_BYTES) /\ u = s \o data /\ n = Len(s) /\ m = Len(data)
      BY <1>2, <2>2
    <2> HIDE DEF n, m
    <2>4. Len(u) = n + m
      BY <2>3, JoinedAs
    <2>5. \A i \in 1 .. n : u[i] = s[i]
      BY <2>3, JoinedAs
    <2>6. \A i \in 1 .. m : u[n + i] = data[i]
      BY <2>3, JoinedAs
    <2> QED BY <2>2, <2>4, <2>5, <2>6
  <1>6. /\ off \in [1 .. w + 1 -> Nat] /\ ctr \in [1 .. w + 1 -> Nat]
        /\ off[1] = g /\ off[w + 1] = n /\ ctr[1] = cy_rx /\ ctr[w + 1] = cy_tx
        /\ \A k \in 1 .. w :
             /\ off[k + 1] = off[k] + Len(cy_wire[k]) /\ off[k + 1] <= n
             /\ ctr[k + 1] = NextCounter(ctr[k], Len(cy_wire[k]))
             /\ \A i \in 1 .. Len(cy_wire[k]) : cy_wire[k][i] = Cell(cy_sent[off[k] + i], ctr[k] + (i - 1) \div CY_KBLOCK, (i - 1) % CY_KBLOCK)
    BY <1>1 DEF Cut
  <1> DEFINE off2 == [k \in 1 .. w + 2 |-> IF k <= w + 1 THEN off[k] ELSE n + m]
             ctr2 == [k \in 1 .. w + 2 |-> IF k <= w + 1 THEN ctr[k] ELSE cy_tx']
  <1>7. cy_tx' \in Nat
    BY <1>2, CounterGrows
  <1> HIDE DEF w, n, g, m
  <1>8. PICK new, count : new = off2 /\ count = ctr2
    OBVIOUS
  <1>9. /\ new \in [1 .. w + 2 -> Nat] /\ count \in [1 .. w + 2 -> Nat]
        /\ \A k \in 1 .. w + 1 : new[k] = off[k] /\ count[k] = ctr[k]
        /\ new[w + 2] = n + m /\ count[w + 2] = cy_tx'
    BY <1>2, <1>6, <1>7, <1>8
  <1>10. ASSUME NEW k \in 1 .. w + 1
         PROVE  /\ new[k + 1] = new[k] + Len(cy_wire'[k]) /\ new[k + 1] <= n + m
                /\ count[k + 1] = NextCounter(count[k], Len(cy_wire'[k]))
                /\ \A i \in 1 .. Len(cy_wire'[k]) : cy_wire'[k][i] = Cell(cy_sent'[new[k] + i], count[k] + (i - 1) \div CY_KBLOCK, (i - 1) % CY_KBLOCK)
    <2>1. CASE k = w + 1
      <3>1. cy_wire'[k] = out /\ Len(out) = m /\ new[k] = n /\ new[k + 1] = n + m /\ count[k] = cy_tx /\ count[k + 1] = cy_tx'
        BY <1>2, <1>3, <1>4, <1>6, <1>9, <2>1
      <3>2. cy_tx' = NextCounter(cy_tx, m)
        BY DEF m
      <3>3. \A i \in 1 .. m : out[i] = Cell(cy_sent'[n + i], cy_tx + (i - 1) \div CY_KBLOCK, (i - 1) % CY_KBLOCK)
        BY <1>3, <1>5
      <3>4. n + m <= n + m
        BY <1>2
      <3>5. /\ new[k + 1] = new[k] + Len(cy_wire'[k]) /\ new[k + 1] <= n + m
            /\ count[k + 1] = NextCounter(count[k], Len(cy_wire'[k]))
        BY <3>1, <3>2, <3>4
      <3>6. \A i \in 1 .. Len(cy_wire'[k]) : cy_wire'[k][i] = Cell(cy_sent'[new[k] + i], count[k] + (i - 1) \div CY_KBLOCK, (i - 1) % CY_KBLOCK)
        BY <3>1, <3>3
      <3> QED BY <3>5, <3>6
    <2>2. CASE k # w + 1
      <3>1. k \in 1 .. w /\ k \in 1 .. w + 1 /\ k + 1 \in 1 .. w + 1
        BY <1>2, <2>2
      <3>2. cy_wire'[k] = cy_wire[k] /\ new[k] = off[k] /\ new[k + 1] = off[k + 1] /\ count[k] = ctr[k] /\ count[k + 1] = ctr[k + 1]
        BY <1>4, <1>9, <3>1
      <3>3. /\ off[k + 1] = off[k] + Len(cy_wire[k]) /\ off[k + 1] <= n
            /\ ctr[k + 1] = NextCounter(ctr[k], Len(cy_wire[k]))
            /\ \A i \in 1 .. Len(cy_wire[k]) : cy_wire[k][i] = Cell(cy_sent[off[k] + i], ctr[k] + (i - 1) \div CY_KBLOCK, (i - 1) % CY_KBLOCK)
        BY <1>6, <3>1
      <3>4. off[k] \in Nat /\ off[k + 1] \in Nat /\ Len(cy_wire[k]) \in Nat
        BY <1>2, <1>6, <3>1, LenProperties, ElementOfSeq DEF w
      <3>5. ASSUME NEW i \in 1 .. Len(cy_wire[k])
            PROVE  cy_wire[k][i] = Cell(cy_sent'[off[k] + i], ctr[k] + (i - 1) \div CY_KBLOCK, (i - 1) % CY_KBLOCK)
        <4>1. off[k] + i \in 1 .. n
          <5>1. PICK a, b, c : a = off[k] /\ b = off[k + 1] /\ c = Len(cy_wire[k])
            OBVIOUS
          <5>2. a \in Nat /\ b \in Nat /\ c \in Nat /\ i \in 1 .. c /\ b = a + c /\ b <= n
            BY <3>3, <3>4, <5>1
          <5>3. a + i \in 1 .. n
            BY <1>2, <5>2
          <5> QED BY <5>1, <5>3
        <4>2. cy_sent'[off[k] + i] = cy_sent[off[k] + i]
          BY <1>5, <4>1
        <4> QED BY <3>3, <4>2
      <3>6. off[k + 1] <= n + m
        BY <1>2, <3>3, <3>4
      <3> QED BY <3>2, <3>3, <3>5, <3>6
    <2> QED BY <2>1, <2>2
  <1>11. Cut(new, count)'
    <2>1. new[1] = Len(cy_got)' /\ count[1] = cy_rx' /\ new[w + 1 + 1] = Len(cy_sent') /\ count[w + 1 + 1] = cy_tx'
      BY <1>2, <1>5, <1>6, <1>9 DEF g
    <2>2. w + 1 + 1 = w + 2
      BY <1>2
    <2> QED BY <1>4, <1>5, <1>9, <1>10, <2>1, <2>2 DEF Cut
  <1>12. Len(cy_got') <= Len(cy_sent') /\ \A i \in 1 .. Len(cy_got') : cy_got'[i] = {<<"byte", cy_sent'[i], 0, 0>>}
    <2>1. cy_got' = cy_got /\ Len(cy_got') = g
      BY DEF g
    <2>2. \A i \in 1 .. g : cy_got[i] = {<<"byte", cy_sent[i], 0, 0>>}
      BY DEF GotInv, g
    <2>3. \A i \in 1 .. g : cy_sent'[i] = cy_sent[i]
      BY <1>2, <1>5
    <2>4. g <= Len(cy_sent')
      BY <1>2, <1>5
    <2>5. \A i \in 1 .. g : cy_got[i] = {<<"byte", cy_sent'[i], 0, 0>>}
      BY <2>2, <2>3
    <2> QED BY <2>1, <2>4, <2>5
  <1> QED BY <1>2, <1>4, <1>11, <1>12 DEF GotInv

(* The first chunk arrives: its bytes are the next ones that were sent. *)
LEMMA ChunkReceived ==
  ASSUME StreamInv, GotInv, receive
  PROVE  GotInv'
  <1> DEFINE w == Len(cy_wire)
             n == Len(cy_sent)
             g == Len(cy_got)
             head == Head(cy_wire)
             m == Len(head)
             plain == Stream(head, "chacha", "k", cy_rx)
  <1>1. PICK off, ctr : Cut(off, ctr)
    BY DEF GotInv
  <1>2. /\ w \in Nat /\ n \in Nat /\ g \in Nat /\ g <= n /\ cy_wire \in Seq(Seq(Cells)) /\ cy_got \in Seq(PlainBytes)
        /\ cy_sent \in Seq(CY_BYTES) /\ cy_tx \in Nat /\ cy_rx \in Nat /\ \A i \in 1 .. n : cy_sent[i] \in CY_BYTES
    <2>1. cy_rx \in Nat
      <3>1. w + 1 \in Nat /\ 1 \in 1 .. w + 1 /\ ctr \in [1 .. w + 1 -> Nat] /\ ctr[1] = cy_rx
        BY <1>1, LenProperties DEF Cut, GotInv
      <3> QED BY <3>1
    <2> QED BY <2>1, LenProperties, ElementOfSeq DEF StreamInv, GotInv
  <1>3. /\ cy_wire # <<>> /\ cy_wire' = Tail(cy_wire) /\ cy_got' = cy_got \o plain /\ cy_rx' = NextCounter(cy_rx, m)
        /\ cy_tx' = cy_tx /\ cy_sent' = cy_sent
    BY DEF receive
  <1>4. /\ w >= 1 /\ head = cy_wire[1] /\ head \in Seq(Cells) /\ m \in Nat /\ DOMAIN head = 1 .. m
        /\ cy_wire' \in Seq(Seq(Cells)) /\ Len(cy_wire') = w - 1 /\ \A k \in 1 .. w - 1 : cy_wire'[k] = cy_wire[k + 1]
    <2>1. head = cy_wire[1] /\ head \in Seq(Cells) /\ w >= 1
      BY <1>2, <1>3, HeadTailProperties
    <2>2. Tail(cy_wire) \in Seq(Seq(Cells)) /\ Len(Tail(cy_wire)) = w - 1 /\ \A k \in 1 .. Len(Tail(cy_wire)) : Tail(cy_wire)[k] = cy_wire[k + 1]
      BY <1>2, <1>3, HeadTailProperties
    <2> QED BY <1>3, <2>1, <2>2, LenProperties
  <1>5. /\ off \in [1 .. w + 1 -> Nat] /\ ctr \in [1 .. w + 1 -> Nat]
        /\ off[1] = g /\ off[w + 1] = n /\ ctr[1] = cy_rx /\ ctr[w + 1] = cy_tx
        /\ \A k \in 1 .. w :
             /\ off[k + 1] = off[k] + Len(cy_wire[k]) /\ off[k + 1] <= n
             /\ ctr[k + 1] = NextCounter(ctr[k], Len(cy_wire[k]))
             /\ \A i \in 1 .. Len(cy_wire[k]) : cy_wire[k][i] = Cell(cy_sent[off[k] + i], ctr[k] + (i - 1) \div CY_KBLOCK, (i - 1) % CY_KBLOCK)
    BY <1>1 DEF Cut
  <1>6. /\ g + m = off[2] /\ g + m <= n /\ cy_rx' = ctr[2]
        /\ \A i \in 1 .. m : head[i] = Cell(cy_sent[g + i], cy_rx + (i - 1) \div CY_KBLOCK, (i - 1) % CY_KBLOCK)
    <2>1. 1 \in 1 .. w /\ 1 + 1 = 2 /\ m = Len(cy_wire[1])
      BY <1>2, <1>4
    <2>2. /\ off[1 + 1] = off[1] + Len(cy_wire[1]) /\ off[1 + 1] <= n /\ ctr[1 + 1] = NextCounter(ctr[1], Len(cy_wire[1]))
          /\ \A i \in 1 .. Len(cy_wire[1]) : cy_wire[1][i] = Cell(cy_sent[off[1] + i], ctr[1] + (i - 1) \div CY_KBLOCK, (i - 1) % CY_KBLOCK)
      BY <1>5, <2>1
    <2>3. off[1] = g /\ ctr[1] = cy_rx
      BY <1>5
    <2>4. \A i \in 1 .. m : head[i] = Cell(cy_sent[g + i], cy_rx + (i - 1) \div CY_KBLOCK, (i - 1) % CY_KBLOCK)
      BY <1>4, <2>2, <2>3
    <2> QED BY <1>3, <2>1, <2>2, <2>3, <2>4
  <1>7. plain \in Seq(PlainBytes) /\ Len(plain) = m /\ \A i \in 1 .. m : plain[i] = {<<"byte", cy_sent[g + i], 0, 0>>}
    <2>1. plain = [i \in DOMAIN head |-> plain[i]]
      BY DEF Stream
    <2> HIDE DEF head, m
    <2>2. DOMAIN plain = 1 .. m /\ \A i \in 1 .. m : plain[i] = Xor(head[i], KeyAtom("chacha", "k", cy_rx, i))
      BY <1>4, StreamByte
    <2> HIDE DEF plain
    <2>3. ASSUME NEW i \in 1 .. m PROVE plain[i] = {<<"byte", cy_sent[g + i], 0, 0>>} /\ plain[i] \in PlainBytes
      <3>1. head[i] = Xor({<<"byte", cy_sent[g + i], 0, 0>>}, KeyAtom("chacha", "k", cy_rx, i))
        BY <1>6 DEF Cell, KeyAtom
      <3>2. plain[i] = {<<"byte", cy_sent[g + i], 0, 0>>}
        BY <2>2, <3>1, XorTwice
      <3>3. g + i \in 1 .. n
        BY <1>2, <1>4, <1>6
      <3> QED BY <1>2, <3>2, <3>3 DEF PlainBytes
    <2>4. plain = [i \in 1 .. m |-> plain[i]]
      BY <1>4, <2>1
    <2>5. plain \in Seq(PlainBytes) /\ Len(plain) = m
      BY <1>4, <2>2, <2>3, <2>4
    <2> QED BY <2>3, <2>5
  <1> HIDE DEF plain, w, n, g, m, head
  <1>8. /\ cy_got' \in Seq(PlainBytes) /\ Len(cy_got') = g + m
        /\ \A i \in 1 .. g : cy_got'[i] = cy_got[i]
        /\ \A i \in 1 .. m : cy_got'[g + i] = plain[i]
    <2>2. PICK s, u, t : s = cy_got /\ u = cy_got' /\ t = plain
      OBVIOUS
    <2>3. s \in Seq(PlainBytes) /\ t \in Seq(PlainBytes) /\ u = s \o t /\ g = Len(s) /\ m = Len(t)
      BY <1>2, <1>3, <1>7, <2>2 DEF g
    <2>4. u \in Seq(PlainBytes) /\ Len(u) = g + m
      BY <2>3, JoinedAs
    <2>5. \A i \in 1 .. g : u[i] = s[i]
      BY <2>3, JoinedAs
    <2>6. \A i \in 1 .. m : u[g + i] = t[i]
      BY <2>3, JoinedAs
    <2> QED BY <2>2, <2>4, <2>5, <2>6
  <1>9. PICK new, count : new = [k \in 1 .. w |-> off[k + 1]] /\ count = [k \in 1 .. w |-> ctr[k + 1]]
    OBVIOUS
  <1>10. /\ new \in [1 .. w -> Nat] /\ count \in [1 .. w -> Nat]
         /\ \A k \in 1 .. w : new[k] = off[k + 1] /\ count[k] = ctr[k + 1]
    <2>1. \A k \in 1 .. w : k + 1 \in 1 .. w + 1
      BY <1>2
    <2>2. off \in [1 .. w + 1 -> Nat] /\ ctr \in [1 .. w + 1 -> Nat]
      BY <1>5
    <2>3. \A k \in 1 .. w : off[k + 1] \in Nat /\ ctr[k + 1] \in Nat
      BY <2>1, <2>2, Zenon
    <2>4. new \in [1 .. w -> Nat]
      BY ONLY <1>9, <2>3
    <2>5. count \in [1 .. w -> Nat]
      BY ONLY <1>9, <2>3
    <2>6. \A k \in 1 .. w : new[k] = off[k + 1] /\ count[k] = ctr[k + 1]
      BY ONLY <1>9
    <2> QED BY <2>4, <2>5, <2>6
  <1>11. ASSUME NEW k \in 1 .. w - 1
         PROVE  /\ new[k + 1] = new[k] + Len(cy_wire'[k]) /\ new[k + 1] <= n
                /\ count[k + 1] = NextCounter(count[k], Len(cy_wire'[k]))
                /\ \A i \in 1 .. Len(cy_wire'[k]) : cy_wire'[k][i] = Cell(cy_sent[new[k] + i], count[k] + (i - 1) \div CY_KBLOCK, (i - 1) % CY_KBLOCK)
    <2>1. PICK l : l = k + 1
      OBVIOUS
    <2>2. l \in 1 .. w /\ k \in 1 .. w
      BY <1>2, <2>1
    <2>3. cy_wire'[k] = cy_wire[l] /\ new[k] = off[l] /\ new[l] = off[l + 1] /\ count[k] = ctr[l] /\ count[l] = ctr[l + 1]
      BY <1>4, <1>10, <2>1, <2>2
    <2>4. /\ off[l + 1] = off[l] + Len(cy_wire[l]) /\ off[l + 1] <= n
          /\ ctr[l + 1] = NextCounter(ctr[l], Len(cy_wire[l]))
          /\ \A i \in 1 .. Len(cy_wire[l]) : cy_wire[l][i] = Cell(cy_sent[off[l] + i], ctr[l] + (i - 1) \div CY_KBLOCK, (i - 1) % CY_KBLOCK)
      BY <1>5, <2>2
    <2> QED BY <2>1, <2>3, <2>4
  <1>12. Cut(new, count)'
    <2>1. new[1] = Len(cy_got') /\ count[1] = cy_rx'
      <3>1. 1 \in 1 .. w /\ 1 + 1 = 2
        BY <1>2, <1>4
      <3> QED BY <1>6, <1>8, <1>10, <3>1
    <2>2. new[w] = n /\ count[w] = cy_tx
      <3>1. w \in 1 .. w
        BY <1>2, <1>4
      <3> QED BY <1>5, <1>10, <3>1
    <2>3. Len(cy_wire') + 1 = w /\ Len(cy_wire') = w - 1
      BY <1>2, <1>4
    <2>4. Len(cy_sent') = n /\ cy_sent' = cy_sent /\ cy_tx' = cy_tx
      BY <1>3 DEF n
    <2> QED BY <1>10, <1>11, <2>1, <2>2, <2>3, <2>4 DEF Cut
  <1>13. Len(cy_got') <= Len(cy_sent') /\ \A i \in 1 .. Len(cy_got') : cy_got'[i] = {<<"byte", cy_sent'[i], 0, 0>>}
    <2>1. Len(cy_got') <= Len(cy_sent')
      BY <1>3, <1>6, <1>8 DEF n
    <2>2. ASSUME NEW i \in 1 .. g + m PROVE cy_got'[i] = {<<"byte", cy_sent[i], 0, 0>>}
      <3>1. CASE i <= g
        <4>1. i \in 1 .. g
          BY <1>2, <1>4, <3>1
        <4>2. cy_got[i] = {<<"byte", cy_sent[i], 0, 0>>}
          BY <4>1 DEF GotInv, g
        <4> QED BY <1>8, <4>1, <4>2
      <3>2. CASE ~(i <= g)
        <4>1. PICK k \in 1 .. m : i = g + k
          <5>1. i - g \in 1 .. m /\ i = g + (i - g)
            BY <1>2, <1>4, <3>2
          <5> QED BY <5>1
        <4> QED BY <1>7, <1>8, <4>1
      <3> QED BY <3>1, <3>2
    <2>3. cy_sent' = cy_sent
      BY <1>3
    <2> QED BY <1>8, <2>1, <2>2, <2>3
  <1> QED BY <1>4, <1>8, <1>12, <1>13 DEF GotInv

CipherInv == StreamInv /\ GotInv

LEMMA CipherStart == CYInit => CipherInv
  <1> SUFFICES ASSUME CYInit PROVE CipherInv
    OBVIOUS
  <1>1. /\ cy_tx = 1 /\ cy_rx = 1 /\ cy_wire = <<>> /\ cy_sent = <<>> /\ cy_got = <<>> /\ cy_stream = <<>>
    BY DEF CYInit
  <1>2. StreamInv
    <2>1. PICK pl : pl = [i \in 1 .. 0 |-> <<0, 0>>]
      OBVIOUS
    <2>2. Placed(pl)
      BY <1>1, <2>1 DEF Placed
    <2> QED BY <1>1, <2>2 DEF StreamInv
  <1>3. GotInv
    <2>1. PICK off, ctr : off = [k \in 1 .. 1 |-> 0] /\ ctr = [k \in 1 .. 1 |-> 1]
      OBVIOUS
    <2>2. Cut(off, ctr)
      BY <1>1, <2>1 DEF Cut
    <2> QED BY <1>1, <2>2 DEF GotInv
  <1> QED BY <1>2, <1>3 DEF CipherInv

LEMMA CipherStep == CipherInv /\ [CYNext]_cyVars => CipherInv'
  <1> SUFFICES ASSUME CipherInv, [CYNext]_cyVars PROVE CipherInv'
    OBVIOUS
  <1>1. ASSUME NEW n \in CY_CHUNKS, send([i \in 1 .. n |-> CHOOSE b \in CY_BYTES : TRUE]) PROVE CipherInv'
    <2> DEFINE data == [i \in 1 .. n |-> CHOOSE b \in CY_BYTES : TRUE]
    <2>1. data \in Seq(CY_BYTES)
      BY CYSizes
    <2> HIDE DEF data
    <2>2. send(data)
      BY <1>1 DEF data
    <2>3. /\ cy_stream' = cy_stream \o Stream(Plain(data), "chacha", "k", cy_tx)
          /\ cy_wire' = Append(cy_wire, Stream(Plain(data), "chacha", "k", cy_tx))
          /\ cy_tx' = NextCounter(cy_tx, Len(data)) /\ cy_sent' = cy_sent \o data /\ UNCHANGED <<cy_got, cy_rx>>
      BY <2>2 DEF send
    <2> QED BY <2>1, <2>3, SentPlaced, ChunkSent DEF CipherInv
  <1>2. CASE receive
    <2>1. GotInv'
      BY <1>2, ChunkReceived DEF CipherInv
    <2>2. StreamInv'
      BY <1>2 DEF receive, CipherInv, StreamInv, Placed
    <2> QED BY <2>1, <2>2 DEF CipherInv
  <1>3. CASE UNCHANGED <<cy_tx, cy_rx, cy_wire, cy_sent, cy_got, cy_stream>>
    <2>1. cy_tx' = cy_tx /\ cy_rx' = cy_rx /\ cy_wire' = cy_wire /\ cy_sent' = cy_sent /\ cy_got' = cy_got /\ cy_stream' = cy_stream
      BY <1>3
    <2>2. StreamInv'
      BY <2>1, Zenon DEF CipherInv, StreamInv, Placed
    <2>3. ASSUME NEW off, NEW ctr, Cut(off, ctr) PROVE Cut(off, ctr)'
      BY <2>1, <2>3 DEF Cut
    <2>4. GotInv'
      BY <2>1, <2>3 DEF CipherInv, GotInv
    <2> QED BY <2>2, <2>4 DEF CipherInv
  <1>4. CASE CYNext
    <2>1. CASE \E data \in Datas : hash_update(data)
      BY <1>3, <2>1 DEF hash_update
    <2>2. CASE \E n \in CY_CHUNKS : send([i \in 1 .. n |-> CHOOSE b \in CY_BYTES : TRUE])
      BY <1>1, <2>2
    <2>3. CASE \E n \in CY_CHUNKS, len \in CY_OKM, salted \in BOOLEAN, unset \in CY_BYTES :
                 LET data == [i \in 1 .. n |-> CHOOSE b \in CY_BYTES : TRUE] IN derive(data, IF salted THEN data ELSE <<>>, len, unset)
      <3>1. PICK data, salt, len, unset : derive(data, salt, len, unset)
        BY <2>3, Zenon
      <3>2. UNCHANGED <<cy_tx, cy_rx, cy_wire, cy_sent, cy_got, cy_stream>>
        BY <3>1 DEF derive
      <3> QED BY <1>3, <3>2
    <2> QED BY <1>2, <1>4, <2>1, <2>2, <2>3 DEF CYNext
  <1> QED BY <1>3, <1>4 DEF cyVars

(***************************************************************************)
(* No byte of keystream is used twice and what is encrypted comes back,    *)
(* for every length of a block and of the calls (chacha20.c, aes.c).       *)
(***************************************************************************)
THEOREM StreamsComeBack == CYSpec => [](KeystreamOnce /\ StreamComesBack)
  <1>1. CYSpec => []CipherInv
    BY CipherStart, CipherStep, PTL DEF CYSpec
  <1>2. CipherInv => KeystreamOnce /\ StreamComesBack
    BY PlacesMean, GotMeans DEF CipherInv
  <1> QED BY <1>1, <1>2, PTL

----------------------------------------------------------------------------
(***************************************************************************)
(* The disk identities (SDisk).  Exclusive or first, then what a call may  *)
(* do to a table, then each table.                                         *)
(***************************************************************************)
LEMMA SdXorTwice == ASSUME NEW a, NEW b PROVE SdXor(SdXor(a, b), b) = a
  BY DEF SdXor
LEMMA SdXorCancel == ASSUME NEW a, NEW b, NEW c, SdXor(a, c) = SdXor(b, c) PROVE a = b
  BY DEF SdXor

LEMMA LowestFound ==
  ASSUME NEW S, S \subseteq Nat, S # {}
  PROVE  LowestOf(S) \in S /\ \A j \in S : LowestOf(S) <= j
  <1>1. \E i \in S : \A j \in S : i <= j
    BY SmallestOfNat
  <1> QED BY <1>1 DEF LowestOf

IsList(l) == \E S : l \in Seq(S)
TableShape(t) ==
  /\ t = [armed |-> t.armed, key |-> t.key, list |-> t.list]
  /\ IsList(t.list) /\ (Len(t.list) > 0 => t.armed)

LEMMA ListLength == ASSUME NEW l, IsList(l) PROVE Len(l) \in Nat /\ DOMAIN l = 1 .. Len(l)
  BY LenProperties DEF IsList

LEMMA ListWithin == ASSUME NEW l, IsList(l), NEW S, \A i \in 1 .. Len(l) : l[i] \in S PROVE l \in Seq(S)
  <1>1. PICK T : l \in Seq(T)
    BY DEF IsList
  <1>2. l \in [1 .. Len(l) -> T] /\ Len(l) \in Nat
    BY <1>1, LenProperties
  <1>3. l \in [1 .. Len(l) -> S]
    BY <1>2
  <1> QED BY <1>2, <1>3

LEMMA SameList ==
  ASSUME NEW l, IsList(l), NEW m, IsList(m), Len(l) = Len(m), \A i \in 1 .. Len(l) : l[i] = m[i]
  PROVE  l = m
  <1> DEFINE S == {l[i] : i \in 1 .. Len(l)}
  <1>1. l \in Seq(S) /\ m \in Seq(S)
    BY ListWithin
  <1> QED BY <1>1, SeqEqual

LEMMA ListAppended ==
  ASSUME NEW l, IsList(l), NEW e
  PROVE  LET g == Append(l, e) IN
         IsList(g) /\ Len(g) = Len(l) + 1 /\ (\A i \in 1 .. Len(l) : g[i] = l[i]) /\ g[Len(l) + 1] = e
  <1>1. PICK S : l \in Seq(S)
    BY DEF IsList
  <1>2. l \in Seq(S \cup {e}) /\ e \in S \cup {e}
    <2>1. l \in [1 .. Len(l) -> S] /\ Len(l) \in Nat
      BY <1>1, LenProperties
    <2> QED BY <2>1
  <1> DEFINE T == S \cup {e}
             g == Append(l, e)
  <1> HIDE DEF T
  <1>3. l \in Seq(T) /\ e \in T
    BY <1>2 DEF T
  <1>4. g \in Seq(T) /\ Len(g) = Len(l) + 1 /\ g[Len(l) + 1] = e /\ \A i \in 1 .. Len(l) : g[i] = l[i]
    BY <1>3, AppendProperties
  <1> QED BY <1>4 DEF IsList

(* A call adds one entry at the end or nothing. *)
Grown(t, e, u) ==
  /\ TableShape(u) /\ u.armed = t.armed /\ u.key = t.key
  /\ \/ u = t
     \/ /\ t.armed /\ Len(u.list) = Len(t.list) + 1
        /\ \A i \in 1 .. Len(t.list) : u.list[i] = t.list[i]
        /\ u.list[Len(t.list) + 1] = e
LEMMA AppendGrows == ASSUME NEW t, TableShape(t), t.armed, NEW e PROVE Grown(t, e, [t EXCEPT !.list = Append(@, e)])
  <1> DEFINE g == Append(t.list, e)
  <1>1. IsList(g) /\ Len(g) = Len(t.list) + 1 /\ (\A i \in 1 .. Len(t.list) : g[i] = t.list[i]) /\ g[Len(t.list) + 1] = e
    BY ListAppended DEF TableShape
  <1>2. PICK u : u = [t EXCEPT !.list = g]
    OBVIOUS
  <1> HIDE DEF g
  <1>3. u = [armed |-> t.armed, key |-> t.key, list |-> g]
    <2>1. PICK a, k, l : t = [armed |-> a, key |-> k, list |-> l]
      BY DEF TableShape
    <2> QED BY <1>2, <2>1
  <1>4. u.armed = t.armed /\ u.key = t.key /\ u.list = g /\ u = [armed |-> u.armed, key |-> u.key, list |-> u.list]
    BY <1>3
  <1>5. Grown(t, e, u)
    BY <1>1, <1>4 DEF TableShape, Grown
  <1> QED BY <1>2, <1>5 DEF g

LEMMA EntryAdded == ASSUME NEW t, TableShape(t), NEW e PROVE Grown(t, e, SdAdd(t, e))
  <1>1. CASE t.armed /\ Len(t.list) < SD_TABLE
    <2>1. SdAdd(t, e) = [t EXCEPT !.list = Append(@, e)]
      BY <1>1 DEF SdAdd
    <2>2. Grown(t, e, [t EXCEPT !.list = Append(@, e)])
      BY <1>1, AppendGrows
    <2> QED BY <2>1, <2>2
  <1>2. CASE ~(t.armed /\ Len(t.list) < SD_TABLE)
    BY <1>2 DEF SdAdd, Grown
  <1> QED BY <1>1, <1>2

(* A call writes one entry again. *)
Rewritten(t, k, e, u) ==
  /\ TableShape(u) /\ u.armed = t.armed /\ u.key = t.key /\ Len(u.list) = Len(t.list)
  /\ u.list[k] = e /\ \A i \in 1 .. Len(t.list) : i # k => u.list[i] = t.list[i]
LEMMA EntryRewritten ==
  ASSUME NEW t, TableShape(t), NEW k \in 1 .. Len(t.list), NEW e
  PROVE  Rewritten(t, k, e, [t EXCEPT !.list[k] = e])
  <1>1. PICK n \in Nat : n = Len(t.list) /\ DOMAIN t.list = 1 .. n
    BY ListLength DEF TableShape
  <1>2. PICK g : g = [t.list EXCEPT ![k] = e]
    OBVIOUS
  <1>3. IsList(g) /\ Len(g) = n /\ g[k] = e /\ \A i \in 1 .. n : i # k => g[i] = t.list[i]
    <2>1. PICK T : t.list \in Seq(T)
      BY DEF TableShape, IsList
    <2>2. t.list \in [1 .. n -> T]
      BY <1>1, <2>1
    <2>3. g \in [1 .. n -> T \cup {e}]
      BY <1>2, <2>2
    <2>4. g \in Seq(T \cup {e}) /\ Len(g) = n
      BY <1>1, <2>3
    <2> QED BY <1>1, <1>2, <2>4 DEF IsList
  <1>4. PICK u : u = [t EXCEPT !.list[k] = e]
    OBVIOUS
  <1>5. u = [armed |-> t.armed, key |-> t.key, list |-> g]
    <2>1. u = [t EXCEPT !.list = g]
      BY <1>2, <1>4
    <2>2. PICK a, b, c : t = [armed |-> a, key |-> b, list |-> c]
      BY DEF TableShape
    <2> QED BY <2>1, <2>2
  <1>6. u.armed = t.armed /\ u.key = t.key /\ u.list = g /\ u = [armed |-> u.armed, key |-> u.key, list |-> u.list]
    BY <1>5
  <1>7. TableShape(u)
    <2>1. n > 0
      BY <1>1
    <2> QED BY <1>1, <1>3, <1>6, <2>1 DEF TableShape
  <1> QED BY <1>1, <1>3, <1>4, <1>6, <1>7 DEF Rewritten

(* What holds of every entry, and that no two entries have one key, stays so. *)
LEMMA EveryAdded ==
  ASSUME NEW t, TableShape(t), NEW e, NEW u, Grown(t, e, u), NEW S, \A i \in 1 .. Len(t.list) : t.list[i] \in S, t.armed => e \in S
  PROVE  \A i \in 1 .. Len(u.list) : u.list[i] \in S
  <1>1. PICK n \in Nat : n = Len(t.list)
    BY ListLength DEF TableShape
  <1>2. CASE u = t
    BY <1>2
  <1>3. CASE ~(u = t)
    <2>1. ASSUME NEW i \in 1 .. n + 1 PROVE u.list[i] \in S
      <3>1. CASE i = n + 1
        BY <1>1, <1>3, <3>1 DEF Grown
      <3>2. CASE i \in 1 .. n
        BY <1>1, <1>3, <3>2 DEF Grown
      <3> QED BY <1>1, <3>1, <3>2
    <2> QED BY <1>1, <1>3, <2>1 DEF Grown
  <1> QED BY <1>2, <1>3

Distinct(l, key) == \A i, j \in 1 .. Len(l) : key[l[i]] = key[l[j]] => i = j
LEMMA DistinctAdded ==
  ASSUME NEW t, TableShape(t), NEW e, NEW u, Grown(t, e, u), NEW key, Distinct(t.list, key), \A i \in 1 .. Len(t.list) : key[t.list[i]] # key[e]
  PROVE  Distinct(u.list, key)
  <1>1. PICK n \in Nat : n = Len(t.list)
    BY ListLength DEF TableShape
  <1>2. CASE u = t
    BY <1>2
  <1>3. CASE ~(u = t)
    <2>1. Len(u.list) = n + 1 /\ (\A i \in 1 .. n : u.list[i] = t.list[i]) /\ u.list[n + 1] = e
      BY <1>1, <1>3 DEF Grown
    <2>2. ASSUME NEW i \in 1 .. n + 1, NEW j \in 1 .. n + 1, key[u.list[i]] = key[u.list[j]] PROVE i = j
      <3>1. CASE i \in 1 .. n /\ j \in 1 .. n
        BY <1>1, <2>1, <2>2, <3>1 DEF Distinct
      <3>2. CASE i = n + 1 /\ j \in 1 .. n
        BY <1>1, <2>1, <2>2, <3>2
      <3>3. CASE i \in 1 .. n /\ j = n + 1
        BY <1>1, <2>1, <2>2, <3>3
      <3> QED BY <1>1, <3>1, <3>2, <3>3
    <2> QED BY <2>1, <2>2 DEF Distinct
  <1> QED BY <1>2, <1>3

(* The first entry of a set of places. *)
LEMMA FirstFound ==
  ASSUME NEW t, TableShape(t), NEW S, S \subseteq 1 .. Len(t.list), S # {}
  PROVE  \E k \in S : SdFirst(t, S) = <<t.list[k]>>
  <1>1. Len(t.list) \in Nat
    BY ListLength DEF TableShape
  <1>2. t.armed
    <2> DEFINE n == Len(t.list)
    <2>1. n > 0
      <3>1. n \in Nat /\ S \subseteq 1 .. n
        BY <1>1
      <3>2. PICK j \in S : TRUE
        OBVIOUS
      <3>3. j \in 1 .. n
        BY <3>1, <3>2
      <3> HIDE DEF n
      <3> QED BY <3>1, <3>3
    <2> QED BY <2>1 DEF TableShape
  <1>3. LowestOf(S) \in S
    <2>1. S \subseteq Nat
      BY <1>1
    <2> QED BY <2>1, LowestFound
  <1> QED BY <1>2, <1>3 DEF SdFirst

(* The entry a table finds first, as its only element. *)
LEMMA FoundEntry ==
  ASSUME NEW t, TableShape(t), NEW S, S \subseteq 1 .. Len(t.list), NEW i \in S
  PROVE  \E k \in S : k \in 1 .. Len(t.list) /\ SdFirst(t, S) # <<>> /\ SdFirst(t, S)[1] = t.list[k] /\ SdFirst(t, S) = <<t.list[k]>>
  <1>1. PICK k \in S : SdFirst(t, S) = <<t.list[k]>>
    BY FirstFound
  <1> QED BY <1>1

(* It stands before every other entry of the set. *)
LEMMA FoundFirst ==
  ASSUME NEW t, TableShape(t), NEW S, S \subseteq 1 .. Len(t.list), NEW i \in S
  PROVE  \E k \in S : k \in 1 .. Len(t.list) /\ SdFirst(t, S) = <<t.list[k]>> /\ \A j \in S : k <= j
  <1>1. PICK n \in Nat : n = Len(t.list)
    BY ListLength DEF TableShape
  <1>2. t.armed
    <2>1. i \in 1 .. n
      BY <1>1
    <2>2. n > 0
      BY <2>1
    <2> QED BY <1>1, <2>2 DEF TableShape
  <1>3. LowestOf(S) \in S /\ \A j \in S : LowestOf(S) <= j
    <2>1. S \subseteq Nat
      BY <1>1
    <2> QED BY <2>1, LowestFound
  <1> QED BY <1>2, <1>3 DEF SdFirst
LEMMA FirstIs ==
  ASSUME NEW t, TableShape(t), NEW S, S \subseteq 1 .. Len(t.list), NEW i \in S, \A j \in S : i <= j
  PROVE  SdFirst(t, S) = <<t.list[i]>>
  <1>1. PICK k \in S : k \in 1 .. Len(t.list) /\ SdFirst(t, S) = <<t.list[k]>> /\ \A j \in S : k <= j
    BY FoundFirst
  <1>2. k = i
    <2>1. PICK n \in Nat : n = Len(t.list)
      BY ListLength DEF TableShape
    <2>2. i \in 1 .. n /\ k \in 1 .. n /\ i <= k /\ k <= i
      BY <1>1, <2>1
    <2> QED BY <2>2
  <1> QED BY <1>1, <1>2

LEMMA EmptyShape == TableShape(SdEmpty) /\ Len(SdEmpty.list) = 0 /\ \A k : TableShape(dp_init(k)) /\ Len(dp_init(k).list) = 0
  <1>1. IsList(<<>>)
    BY DEF IsList
  <1> QED BY <1>1 DEF TableShape, SdEmpty, dp_init

(* A string cut at a length, and cut again. *)
LEMMA StringCut ==
  ASSUME NEW S, NEW s \in Seq(S), NEW n \in Nat
  PROVE  /\ SdCut(s, n) \in Seq(S) /\ Len(SdCut(s, n)) = IF Len(s) < n THEN Len(s) ELSE n
         /\ \A i \in 1 .. Len(SdCut(s, n)) : SdCut(s, n)[i] = s[i]
  <1> DEFINE m == IF Len(s) < n THEN Len(s) ELSE n
  <1>1. m \in Nat /\ m <= Len(s) /\ Len(s) \in Nat
    BY LenProperties
  <1>2. SdCut(s, n) = SubSeq(s, 1, m)
    BY DEF SdCut
  <1> HIDE DEF m
  <1>3. SubSeq(s, 1, m) \in Seq(S) /\ Len(SubSeq(s, 1, m)) = m /\ \A i \in 1 .. m : SubSeq(s, 1, m)[i] = s[i]
    BY <1>1, SubSeqProperties
  <1> QED BY <1>2, <1>3 DEF m

LEMMA WholeString == ASSUME NEW S, NEW s \in Seq(S), NEW n \in Nat, Len(s) <= n PROVE SdCut(s, n) = s
  <1>1. Len(s) \in Nat
    BY LenProperties
  <1>2. SdCut(s, n) \in Seq(S) /\ Len(SdCut(s, n)) = Len(s) /\ \A i \in 1 .. Len(SdCut(s, n)) : SdCut(s, n)[i] = s[i]
    BY <1>1, StringCut
  <1> QED BY <1>2, SeqEqual

(* What SDisk's assumptions say of one string. *)
LEMMA StringList == ASSUME NEW s \in SD_STRINGS PROVE s \in Seq({s[i] : i \in DOMAIN s}) /\ IsList(s)
  BY SDSizes DEF IsList
----------------------------------------------------------------------------
(* The serial numbers: half a serial is masked, the disk shifts the key. *)
SerialEntry(key, e) ==
  \E real \in SD_STRINGS : e.disk \in Nat /\ e.part = 0 /\ e.real = SdCut(real, SD_STR_LEN - 1) /\ e.hid = compute_masked(key, e.disk, real)
SerialInv(t) ==
  /\ TableShape(t) /\ (t.armed => t.key \in SD_KEYS)
  /\ \A i \in 1 .. Len(t.list) : SerialEntry(t.key, t.list[i])

LEMMA SerialAdded ==
  ASSUME NEW t, SerialInv(t), NEW d \in SD_DISKS, NEW real \in SD_STRINGS
  PROVE  SerialInv(dp_serial_mask_add(t, d, real))
  <1>1. PICK e : e = SdEntry(d, 0, SdCut(real, SD_STR_LEN - 1), IF t.armed THEN compute_masked(t.key, d, real) ELSE <<>>)
    OBVIOUS
  <1>2. t.armed => SerialEntry(t.key, e)
    BY <1>1, SDSizes DEF SerialEntry, SdEntry
  <1>3. PICK u : u = dp_serial_mask_add(t, d, real)
    OBVIOUS
  <1>4. Grown(t, e, u)
    BY <1>1, <1>3, EntryAdded DEF dp_serial_mask_add, SerialInv
  <1> DEFINE S == {x \in {t.list[i] : i \in 1 .. Len(t.list)} \cup {e} : SerialEntry(t.key, x)}
  <1>5. \A i \in 1 .. Len(t.list) : t.list[i] \in S
    BY DEF SerialInv
  <1>6. t.armed => e \in S
    BY <1>2
  <1>7. \A x \in S : SerialEntry(t.key, x)
    OBVIOUS
  <1> HIDE DEF S
  <1>8. \A i \in 1 .. Len(u.list) : u.list[i] \in S
    BY <1>4, <1>5, <1>6, EveryAdded DEF SerialInv
  <1> QED BY <1>3, <1>4, <1>7, <1>8 DEF SerialInv, Grown

(* Half a serial comes back. *)
HalfMasked(key, d, real, hid, half) ==
  /\ xor_from_masked(key, d, hid) = half
  /\ SdCut(SdCut(real, SD_STR_LEN - 1), (SD_STR_LEN \div 2) - 1) = half
  /\ IsList(half) /\ Len(half) <= Len(real) /\ DOMAIN hid = 1 .. Len(half)
  /\ \A i \in 1 .. Len(half) : half[i] = real[i] /\ hid[i] = SdXor(real[i], KeyByte(key, i - 1 + d))

LEMMA MaskedSerial ==
  ASSUME NEW key \in SD_KEYS, NEW d \in Nat, NEW real \in SD_STRINGS, NEW hid, hid = compute_masked(key, d, real),
         NEW half, half = SdCut(real, (SD_STR_LEN \div 2) - 1)
  PROVE  HalfMasked(key, d, real, hid, half)
  <1> DEFINE n == (SD_STR_LEN \div 2) - 1
             m == SD_STR_LEN - 1
             S == {real[i] : i \in DOMAIN real}
             long == SdCut(real, m)
  <1>1. n \in Nat /\ m \in Nat /\ n <= m
    BY SDSizes
  <1>2. real \in Seq(S) /\ Len(real) \in Nat
    BY StringList, LenProperties
  <1> HIDE DEF n, m, S
  <1>0. half = SdCut(real, n)
    BY DEF n
  <1>3. half \in Seq(S) /\ Len(half) = (IF Len(real) < n THEN Len(real) ELSE n) /\ \A i \in 1 .. Len(half) : half[i] = real[i]
    BY <1>0, <1>1, <1>2, StringCut
  <1>4. long \in Seq(S) /\ Len(long) = (IF Len(real) < m THEN Len(real) ELSE m) /\ \A i \in 1 .. Len(long) : long[i] = real[i]
    BY <1>1, <1>2, StringCut
  <1>5. hid = [i \in DOMAIN half |-> SdXor(half[i], KeyByte(key, i - 1 + d))]
    BY <1>0 DEF compute_masked, n
  <1> HIDE DEF long
  <1>6. SdCut(long, n) = half
    <2> DEFINE again == SdCut(long, n)
    <2>1. again \in Seq(S) /\ Len(again) = (IF Len(long) < n THEN Len(long) ELSE n) /\ \A i \in 1 .. Len(again) : again[i] = long[i]
      BY <1>1, <1>4, StringCut
    <2> HIDE DEF again
    <2>2. Len(again) = Len(half) /\ Len(again) <= Len(long) /\ Len(again) \in Nat
      BY <1>1, <1>2, <1>3, <1>4, <2>1
    <2>3. \A i \in 1 .. Len(again) : again[i] = half[i]
      <3>1. ASSUME NEW i \in 1 .. Len(again) PROVE again[i] = half[i]
        <4>1. i \in 1 .. Len(long) /\ i \in 1 .. Len(half)
          BY <1>1, <1>2, <1>3, <1>4, <2>1, <2>2
        <4> QED BY <1>3, <1>4, <2>1, <4>1
      <3> QED BY <3>1
    <2>4. again = half
      BY <1>3, <2>1, <2>2, <2>3, SeqEqual
    <2> QED BY <2>4 DEF again
  <1>7. DOMAIN half = 1 .. Len(half) /\ half = [i \in 1 .. Len(half) |-> half[i]] /\ Len(half) <= Len(real)
    BY <1>1, <1>2, <1>3, LenProperties
  <1>8. DOMAIN hid = 1 .. Len(half) /\ \A i \in 1 .. Len(half) : hid[i] = SdXor(real[i], KeyByte(key, i - 1 + d))
    BY <1>3, <1>5, <1>7
  <1>9. xor_from_masked(key, d, hid) = half
    <2>1. xor_from_masked(key, d, hid) = [i \in 1 .. Len(half) |-> SdXor(hid[i], KeyByte(key, i - 1 + d))]
      BY <1>8 DEF xor_from_masked
    <2>2. \A i \in 1 .. Len(half) : SdXor(hid[i], KeyByte(key, i - 1 + d)) = half[i]
      BY <1>3, <1>8, SdXorTwice
    <2> QED BY <1>7, <2>1, <2>2
  <1>10. IsList(half)
    BY <1>3 DEF IsList
  <1> QED BY <1>3, <1>6, <1>7, <1>8, <1>9, <1>10 DEF long, n, m, HalfMasked

LEMMA SerialResolves ==
  ASSUME NEW t, SerialInv(t), NEW i \in 1 .. Len(t.list), SdUnmistaken(t, i)
  PROVE  dp_serial_mask_get_real(t, t.list[i].hid) = <<SdCut(t.list[i].real, (SD_STR_LEN \div 2) - 1)>>
  <1> DEFINE T == SdHiddenAs(t, t.list[i].hid)
             g == SdFirst(t, T)
             n == (SD_STR_LEN \div 2) - 1
  <1>0. TableShape(t) /\ DOMAIN t.list = 1 .. Len(t.list) /\ \A j \in 1 .. Len(t.list) : SerialEntry(t.key, t.list[j])
    BY ListLength DEF SerialInv, TableShape
  <1>1. t.key \in SD_KEYS
    <2>1. Len(t.list) \in Nat
      BY ListLength DEF SerialInv, TableShape
    <2>2. Len(t.list) > 0
      BY <2>1
    <2> QED BY <2>2 DEF SerialInv, TableShape
  <1>4. PICK l \in T : g = <<t.list[l]>> /\ l <= i
    <2>1. T \subseteq 1 .. Len(t.list) /\ i \in T
      BY <1>0 DEF SdHiddenAs
    <2> HIDE DEF T
    <2> QED BY <1>0, <2>1, FoundFirst
  <1>5. l \in 1 .. Len(t.list) /\ t.list[l].hid = t.list[i].hid /\ g # <<>> /\ g[1] = t.list[l] /\ l <= i
    BY <1>0, <1>4 DEF SdHiddenAs
  <1> HIDE DEF T
  <1>d. t.list[l].disk = t.list[i].disk
    <2>1. PICK m \in Nat : m = Len(t.list)
      BY ListLength DEF SerialInv, TableShape
    <2>2. l = i \/ l \in 1 .. i - 1
      BY <1>5, <2>1
    <2> QED BY <1>5, <2>2 DEF SdUnmistaken
  <1>6. dp_serial_mask_get_real(t, t.list[i].hid) = <<xor_from_masked(t.key, t.list[l].disk, t.list[i].hid)>>
    BY <1>5 DEF dp_serial_mask_get_real, T
  <1>7. PICK rk \in SD_STRINGS : t.list[i].disk \in Nat /\ t.list[i].real = SdCut(rk, SD_STR_LEN - 1) /\ t.list[i].hid = compute_masked(t.key, t.list[i].disk, rk)
    BY <1>0 DEF SerialEntry
  <1>8. PICK rl \in SD_STRINGS : t.list[l].hid = compute_masked(t.key, t.list[l].disk, rl)
    BY <1>0, <1>5 DEF SerialEntry
  <1>h. PICK hk, hl : hk = SdCut(rk, n) /\ hl = SdCut(rl, n)
    OBVIOUS
  <1>k. PICK key, dk, m : key = t.key /\ dk = t.list[i].disk /\ m = t.list[i].hid
    OBVIOUS
  <1>m. key \in SD_KEYS /\ dk \in Nat /\ m = compute_masked(key, dk, rk) /\ m = compute_masked(key, dk, rl) /\ t.list[i].real = SdCut(rk, SD_STR_LEN - 1)
    BY <1>1, <1>5, <1>d, <1>7, <1>8, <1>k
  <1>9. SdCut(t.list[i].real, n) = hk /\ IsList(hk) /\ Len(hk) <= Len(rk) /\ DOMAIN m = 1 .. Len(hk)
        /\ \A j \in 1 .. Len(hk) : hk[j] = rk[j] /\ m[j] = SdXor(rk[j], KeyByte(key, j - 1 + dk))
    <2>1. HalfMasked(key, dk, rk, m, hk)
      BY <1>m, <1>h, MaskedSerial DEF n
    <2> QED BY <1>m, <2>1 DEF HalfMasked, n
  <1>10. xor_from_masked(key, dk, m) = hl /\ IsList(hl) /\ Len(hl) <= Len(rl) /\ DOMAIN m = 1 .. Len(hl)
        /\ \A j \in 1 .. Len(hl) : hl[j] = rl[j] /\ m[j] = SdXor(rl[j], KeyByte(key, j - 1 + dk))
    <2>1. HalfMasked(key, dk, rl, m, hl)
      BY <1>m, <1>h, MaskedSerial DEF n
    <2> QED BY <1>m, <2>1 DEF HalfMasked, n
  <1> HIDE DEF n
  <1>11. hk = hl
    <2>1. Len(hk) \in Nat /\ Len(hl) \in Nat /\ Len(rk) \in Nat /\ Len(rl) \in Nat /\ DOMAIN hk = 1 .. Len(hk) /\ DOMAIN hl = 1 .. Len(hl)
          /\ DOMAIN rk = 1 .. Len(rk) /\ DOMAIN rl = 1 .. Len(rl)
      BY <1>9, <1>10, ListLength, StringList
    <2>2. Len(hk) = Len(hl)
      <3>1. PICK x, y : x = Len(hk) /\ y = Len(hl)
        OBVIOUS
      <3>2. x \in Nat /\ y \in Nat /\ 1 .. x = 1 .. y
        BY <1>9, <1>10, <2>1, <3>1
      <3>3. x = y
        BY <3>2
      <3> QED BY <3>1, <3>3
    <2>3. ASSUME NEW j \in 1 .. Len(hk) PROVE hk[j] = hl[j]
      <3>2. SdXor(rk[j], KeyByte(key, j - 1 + dk)) = SdXor(rl[j], KeyByte(key, j - 1 + dk))
        BY <1>9, <1>10, <2>2
      <3>3. rk[j] = rl[j]
        BY <3>2, SdXorCancel
      <3> QED BY <1>9, <1>10, <2>2, <3>3
    <2> QED BY <1>9, <1>10, <2>2, <2>3, SameList
  <1> QED BY <1>d, <1>6, <1>k, <1>9, <1>10, <1>11 DEF n

----------------------------------------------------------------------------
(* The labels: a string without the byte 0 is its own beginning.            *)
LEMMA NoZero ==
  ASSUME NEW S, NEW s \in Seq(S), \A j \in DOMAIN s : s[j] # {}
  PROVE  SdToZero(s) = s
  <1>1. Len(s) \in Nat /\ DOMAIN s = 1 .. Len(s)
    BY LenProperties
  <1>2. {i - 1 : i \in {j \in DOMAIN s : s[j] = {}}} \cup {Len(s)} = {Len(s)}
    OBVIOUS
  <1>3. LowestOf({Len(s)}) = Len(s)
    <2>1. PICK n \in Nat : n = Len(s)
      BY <1>1
    <2>2. LowestOf({n}) \in {n}
      BY LowestFound
    <2> QED BY <2>1, <2>2
  <1>4. SdToZero(s) = SdCut(s, Len(s))
    BY <1>2, <1>3 DEF SdToZero
  <1> QED BY <1>1, <1>4, WholeString

LabelEntry(key, e) ==
  /\ e.disk \in Nat /\ e.part \in Nat /\ e.hid = label_enc_xor(key, e.disk, e.part, e.real)
  /\ \E real \in SD_STRINGS : e.real = SdCut(real, SD_STR_LEN - 1)
LabelInv(t) ==
  /\ TableShape(t) /\ (t.armed => t.key \in SD_KEYS)
  /\ \A i \in 1 .. Len(t.list) : LabelEntry(t.key, t.list[i])

LEMMA LabelAdded ==
  ASSUME NEW t, LabelInv(t), NEW d \in SD_DISKS, NEW p \in SD_PARTS, NEW real \in SD_STRINGS
  PROVE  LabelInv(dp_label_enc_add(t, d, p, real))
  <1>1. PICK e : e = SdEntry(d, p, SdCut(real, SD_STR_LEN - 1), IF t.armed THEN label_enc_xor(t.key, d, p, SdCut(real, SD_STR_LEN - 1)) ELSE <<>>)
    OBVIOUS
  <1>2. t.armed => LabelEntry(t.key, e)
    BY <1>1, SDSizes DEF LabelEntry, SdEntry
  <1>3. PICK u : u = dp_label_enc_add(t, d, p, real)
    OBVIOUS
  <1>4. Grown(t, e, u)
    BY <1>1, <1>3, EntryAdded DEF dp_label_enc_add, LabelInv
  <1> DEFINE S == {x \in {t.list[i] : i \in 1 .. Len(t.list)} \cup {e} : LabelEntry(t.key, x)}
  <1>5. \A i \in 1 .. Len(t.list) : t.list[i] \in S
    BY DEF LabelInv
  <1>6. t.armed => e \in S
    BY <1>2
  <1>7. \A x \in S : LabelEntry(t.key, x)
    OBVIOUS
  <1> HIDE DEF S
  <1>8. \A i \in 1 .. Len(u.list) : u.list[i] \in S
    BY <1>4, <1>5, <1>6, EveryAdded DEF LabelInv
  <1> QED BY <1>3, <1>4, <1>7, <1>8 DEF LabelInv, Grown

(* A label as long as its string, made byte by byte. *)
LabelByte(key, d, p, i) == SdXor(KeyByte(key, i - 1 + d + p), IF d + p = 0 THEN {} ELSE {<<"mod", d + p>>})
LabelMade(key, e, real) ==
  /\ IsList(e.real) /\ IsList(e.hid) /\ Len(e.real) <= Len(real) /\ Len(e.hid) = Len(e.real)
  /\ \A i \in 1 .. Len(e.real) : e.real[i] = real[i] /\ e.hid[i] = SdXor(real[i], LabelByte(key, e.disk, e.part, i))
LEMMA LabelBytes ==
  ASSUME NEW key, NEW e, LabelEntry(key, e)
  PROVE  \E real \in SD_STRINGS : LabelMade(key, e, real)
  <1>1. PICK real \in SD_STRINGS : e.real = SdCut(real, SD_STR_LEN - 1)
    BY DEF LabelEntry
  <1>2. PICK r, h : r = e.real /\ h = e.hid
    OBVIOUS
  <1> DEFINE S == {real[i] : i \in DOMAIN real}
             n == SD_STR_LEN - 1
             kb == [i \in DOMAIN r |-> SdXor(KeyByte(key, i - 1 + e.disk + e.part), IF e.disk + e.part = 0 THEN {} ELSE {<<"mod", e.disk + e.part>>})]
  <1>3. real \in Seq(S) /\ Len(real) \in Nat /\ n \in Nat
    BY StringList, SDSizes, LenProperties
  <1>4. h = [i \in DOMAIN r |-> SdXor(r[i], kb[i])]
    BY <1>2 DEF LabelEntry, label_enc_xor
  <1>5. r = SdCut(real, n)
    BY <1>1, <1>2
  <1> HIDE DEF S, n
  <1>6. r \in Seq(S) /\ Len(r) = (IF Len(real) < n THEN Len(real) ELSE n) /\ \A i \in 1 .. Len(r) : r[i] = real[i]
    BY <1>3, <1>5, StringCut
  <1>7. Len(r) \in Nat /\ Len(r) <= Len(real) /\ DOMAIN r = 1 .. Len(r)
    BY <1>3, <1>6, LenProperties
  <1>8. \A i \in 1 .. Len(r) : kb[i] = LabelByte(key, e.disk, e.part, i)
    BY <1>7 DEF LabelByte
  <1> HIDE DEF kb
  <1> DEFINE B == {SdXor(r[i], kb[i]) : i \in 1 .. Len(r)}
  <1>9. h \in [1 .. Len(r) -> B]
    BY <1>4, <1>7
  <1>10. h \in Seq(B) /\ Len(h) = Len(r)
    <2> HIDE DEF B
    <2>1. PICK m \in Nat : m = Len(r)
      BY <1>7
    <2>2. h \in [1 .. m -> B]
      BY <1>9, <2>1
    <2> QED BY <2>1, <2>2, SeqDef, LenProperties
  <1>11. \A i \in 1 .. Len(r) : r[i] = real[i] /\ h[i] = SdXor(real[i], kb[i])
    BY <1>4, <1>6, <1>7
  <1> QED BY <1>2, <1>6, <1>7, <1>8, <1>10, <1>11 DEF IsList, LabelMade

(* One disk and partition show different labels differently. *)
LEMMA SameLabel ==
  ASSUME NEW key, NEW e, NEW g, LabelEntry(key, e), LabelEntry(key, g), e.hid = g.hid, e.disk = g.disk, e.part = g.part
  PROVE  e.real = g.real
  <1>1. PICK r \in SD_STRINGS : LabelMade(key, e, r)
    BY LabelBytes
  <1>2. PICK q \in SD_STRINGS : LabelMade(key, g, q)
    BY LabelBytes
  <1>3. PICK n \in Nat : n = Len(e.real) /\ n = Len(g.real)
    BY <1>1, <1>2, ListLength DEF LabelMade
  <1>4. ASSUME NEW i \in 1 .. n PROVE e.real[i] = g.real[i]
    <2>1. PICK m : m = LabelByte(key, e.disk, e.part, i)
      OBVIOUS
    <2>2. e.real[i] = r[i] /\ e.hid[i] = SdXor(r[i], m)
      BY <1>1, <1>3, <2>1 DEF LabelMade
    <2>3. g.real[i] = q[i] /\ g.hid[i] = SdXor(q[i], m)
      BY <1>2, <1>3, <2>1 DEF LabelMade
    <2>4. r[i] = q[i]
      BY <2>2, <2>3, SdXorCancel
    <2> QED BY <2>2, <2>3, <2>4
  <1>5. PICK x, y : x = e.real /\ y = g.real
    OBVIOUS
  <1>6. IsList(x) /\ IsList(y) /\ Len(x) = n /\ Len(y) = n /\ \A i \in 1 .. n : x[i] = y[i]
    BY <1>1, <1>2, <1>3, <1>4, <1>5 DEF LabelMade
  <1>7. x = y
    BY <1>6, SameList
  <1> QED BY <1>5, <1>7

LEMMA LabelWhole ==
  ASSUME NEW t, LabelInv(t), \A i \in 1 .. Len(t.list) : \A j \in DOMAIN t.list[i].hid : t.list[i].hid[j] # {}, NEW j \in 1 .. Len(t.list)
  PROVE  SdToZero(t.list[j].hid) = t.list[j].hid /\ IsList(t.list[j].real) /\ IsList(t.list[j].hid) /\ Len(t.list[j].hid) = Len(t.list[j].real)
  <1>1. PICK h : h = t.list[j].hid
    OBVIOUS
  <1>2. LabelEntry(t.key, t.list[j])
    BY DEF LabelInv
  <1>3. IsList(t.list[j].real) /\ IsList(h) /\ Len(h) = Len(t.list[j].real)
    BY <1>1, <1>2, LabelBytes DEF LabelMade
  <1>4. \A a \in DOMAIN h : h[a] # {}
    BY <1>1
  <1>5. SdToZero(h) = h
    BY <1>3, <1>4, NoZero DEF IsList
  <1> QED BY <1>1, <1>3, <1>5

LEMMA LabelShown ==
  ASSUME NEW t, LabelInv(t), \A i \in 1 .. Len(t.list) : \A j \in DOMAIN t.list[i].hid : t.list[i].hid[j] # {},
         NEW i \in 1 .. Len(t.list), SdLeads(t, i)
  PROVE  dp_label_enc_get_enc(t, t.list[i].disk, t.list[i].part) = <<t.list[i].hid>>
  <1> DEFINE S == SdAt(t, t.list[i].disk, t.list[i].part)
  <1>0. TableShape(t) /\ DOMAIN t.list = 1 .. Len(t.list)
    BY ListLength DEF LabelInv, TableShape
  <1>1. S \subseteq 1 .. Len(t.list) /\ i \in S
    BY <1>0 DEF SdAt
  <1>2. \A j \in S : i <= j
    <2>1. PICK n \in Nat : n = Len(t.list)
      BY ListLength DEF LabelInv, TableShape
    <2>2. ASSUME NEW j \in S PROVE ~(j < i)
      <3>1. j \in 1 .. n /\ t.list[j].disk = t.list[i].disk /\ t.list[j].part = t.list[i].part
        BY <1>1, <2>1 DEF SdAt
      <3>2. j < i => j \in 1 .. i - 1
        BY <2>1, <3>1
      <3> QED BY <3>1, <3>2 DEF SdLeads
    <2>3. S \subseteq 1 .. n /\ i \in 1 .. n
      BY <1>1, <2>1
    <2> HIDE DEF S
    <2> QED BY <2>2, <2>3
  <1>3. SdFirst(t, S) = <<t.list[i]>>
    <2> HIDE DEF S
    <2> QED BY <1>0, <1>1, <1>2, FirstIs
  <1>4. SdToZero(t.list[i].hid) = t.list[i].hid
    BY LabelWhole
  <1> QED BY <1>3, <1>4 DEF dp_label_enc_get_enc

LEMMA LabelResolves ==
  ASSUME NEW t, LabelInv(t), \A i \in 1 .. Len(t.list) : \A j \in DOMAIN t.list[i].hid : t.list[i].hid[j] # {},
         NEW i \in 1 .. Len(t.list), SdUnmistaken(t, i)
  PROVE  dp_label_enc_get_real(t, t.list[i].hid) = <<t.list[i].real>>
  <1>0. TableShape(t) /\ DOMAIN t.list = 1 .. Len(t.list) /\ \A j \in 1 .. Len(t.list) : LabelEntry(t.key, t.list[j])
    BY ListLength DEF LabelInv, TableShape
  <1>4. \A j \in 1 .. Len(t.list) : SdToZero(t.list[j].hid) = t.list[j].hid /\ IsList(t.list[j].real) /\ IsList(t.list[j].hid) /\ Len(t.list[j].hid) = Len(t.list[j].real)
    BY LabelWhole
  <1>6. PICK h : h = t.list[i].hid /\ SdToZero(h) = h
    BY <1>4
  <1> DEFINE T == {j \in DOMAIN t.list : SdToZero(t.list[j].hid) = SdToZero(h)}
             g == SdFirst(t, T)
  <1>7. PICK l \in T : g = <<t.list[l]>> /\ l <= i
    <2>1. T \subseteq 1 .. Len(t.list) /\ i \in T
      BY <1>0, <1>6
    <2> HIDE DEF T
    <2> QED BY <1>0, <2>1, FoundFirst
  <1>8. l \in 1 .. Len(t.list) /\ g # <<>> /\ g[1] = t.list[l] /\ t.list[l].hid = h /\ l <= i
    BY <1>0, <1>4, <1>6, <1>7
  <1> HIDE DEF T
  <1>9. dp_label_enc_get_real(t, h) = <<SdCut(t.list[l].real, Len(h) + 1)>>
    <2>1. dp_label_enc_get_real(t, h) = <<SdCut(g[1].real, Len(SdToZero(h)) + 1)>>
      BY <1>8 DEF dp_label_enc_get_real, T
    <2> QED BY <1>6, <1>8, <2>1
  <1>10. t.list[l].real = t.list[i].real
    <2>1. PICK x, y : x = t.list[l] /\ y = t.list[i]
      OBVIOUS
    <2>d. x.disk = y.disk /\ x.part = y.part
      <3>1. PICK n \in Nat : n = Len(t.list)
        BY ListLength DEF LabelInv, TableShape
      <3>2. l = i \/ l \in 1 .. i - 1
        BY <1>8, <3>1
      <3> QED BY <1>6, <1>8, <2>1, <3>2 DEF SdUnmistaken
    <2>2. LabelEntry(t.key, x) /\ LabelEntry(t.key, y) /\ x.hid = y.hid
      BY <1>0, <1>6, <1>8, <2>1
    <2>3. x.real = y.real
      BY <2>d, <2>2, SameLabel
    <2> QED BY <2>1, <2>3
  <1>11. SdCut(t.list[l].real, Len(h) + 1) = t.list[l].real
    <2>1. PICK r : r = t.list[l].real
      OBVIOUS
    <2>2. IsList(r) /\ Len(r) = Len(h)
      BY <1>4, <1>8, <2>1
    <2>3. Len(h) \in Nat
      BY <2>2, ListLength
    <2>4. SdCut(r, Len(h) + 1) = r
      BY <2>2, <2>3, WholeString DEF IsList
    <2> QED BY <2>1, <2>4
  <1> QED BY <1>6, <1>9, <1>10, <1>11

----------------------------------------------------------------------------
(* The uuids: the cipher's atom names the place of the entry. *)
UuidEntry(e, i) ==
  /\ e.real \in SdUuids
  /\ \E sector, part : e.hid = [j \in DOMAIN e.real |-> SdXor(e.real[j], {<<"aes", sector, part, i, j>>})]
UuidInv(t) == TableShape(t) /\ \A i \in 1 .. Len(t.list) : UuidEntry(t.list[i], i - 1)

LEMMA UuidAdded ==
  ASSUME NEW t, UuidInv(t), NEW d, NEW p, NEW real \in SdUuids
  PROVE  UuidInv(dp_uuid_encrypt_add(t, d, p, real))
  <1>1. PICK n \in Nat : n = Len(t.list)
    BY ListLength DEF UuidInv, TableShape
  <1>2. PICK e : e = SdEntry(d, p, real, [j \in DOMAIN real |-> SdXor(real[j], {<<"aes", d, p, n, j>>})])
    OBVIOUS
  <1>3. UuidEntry(e, n)
    <2>1. e.real = real /\ e.hid = [j \in DOMAIN e.real |-> SdXor(e.real[j], {<<"aes", d, p, n, j>>})]
      BY <1>2 DEF SdEntry
    <2> QED BY <2>1 DEF UuidEntry
  <1>4. PICK u : u = SdAdd(t, e) /\ u = dp_uuid_encrypt_add(t, d, p, real)
    BY <1>1, <1>2 DEF dp_uuid_encrypt_add
  <1>5. /\ TableShape(u)
        /\ \/ u = t
           \/ Len(u.list) = n + 1 /\ (\A i \in 1 .. n : u.list[i] = t.list[i]) /\ u.list[n + 1] = e
    <2>1. TableShape(t)
      BY DEF UuidInv
    <2>2. /\ TableShape(u)
          /\ \/ u = t
             \/ Len(u.list) = Len(t.list) + 1 /\ (\A i \in 1 .. Len(t.list) : u.list[i] = t.list[i]) /\ u.list[Len(t.list) + 1] = e
      <3>1. Grown(t, e, u)
        BY <1>4, <2>1, EntryAdded
      <3> QED BY <3>1 DEF Grown
    <2> QED BY <1>1, <2>2
  <1>6. CASE u = t
    BY <1>4, <1>6
  <1>7. CASE ~(u = t)
    <2>1. ASSUME NEW i \in 1 .. n + 1 PROVE UuidEntry(u.list[i], i - 1)
      <3>1. CASE i = n + 1
        <4>1. u.list[i] = e /\ i - 1 = n
          BY <1>5, <1>7, <3>1
        <4> QED BY <1>3, <4>1
      <3>2. CASE i \in 1 .. n
        BY <1>1, <1>5, <1>7, <3>2 DEF UuidInv
      <3> QED BY <3>1, <3>2
    <2> QED BY <1>4, <1>5, <1>7, <2>1 DEF UuidInv
  <1> QED BY <1>6, <1>7

LEMMA NoAtoms ==
  ASSUME NEW s \in SD_STRINGS, NEW j \in DOMAIN s, NEW a \in s[j]
  PROVE  a[1] # "aes"
  BY SDIdealCipher

(* No two entries show the same. *)
LEMMA UuidsApart ==
  ASSUME NEW t, UuidInv(t), NEW k \in 1 .. Len(t.list), NEW l \in 1 .. Len(t.list), t.list[l].hid = t.list[k].hid
  PROVE  l = k
  <1>0. Len(t.list) \in Nat
    BY ListLength DEF UuidInv, TableShape
  <1>5. PICK a, b, h : a = t.list[k].real /\ b = t.list[l].real /\ h = t.list[k].hid
    OBVIOUS
  <1>6. a \in SdUuids /\ b \in SdUuids
    BY <1>5 DEF UuidInv, UuidEntry
  <1>p. PICK p, q : p = k - 1 /\ q = l - 1
    OBVIOUS
  <1>7. PICK ak, bk : h = [j \in DOMAIN a |-> SdXor(a[j], {<<"aes", ak, bk, p, j>>})]
    <2>1. UuidEntry(t.list[k], p)
      BY <1>p DEF UuidInv
    <2>2. PICK sec, par : t.list[k].hid = [j \in DOMAIN t.list[k].real |-> SdXor(t.list[k].real[j], {<<"aes", sec, par, p, j>>})]
      BY <2>1 DEF UuidEntry
    <2>3. h = [j \in DOMAIN a |-> SdXor(a[j], {<<"aes", sec, par, p, j>>})]
      BY <1>5, <2>2
    <2> QED BY <2>3
  <1>8. PICK al, bl : h = [j \in DOMAIN b |-> SdXor(b[j], {<<"aes", al, bl, q, j>>})]
    <2>1. UuidEntry(t.list[l], q)
      BY <1>p DEF UuidInv
    <2>2. PICK sec, par : t.list[l].hid = [j \in DOMAIN t.list[l].real |-> SdXor(t.list[l].real[j], {<<"aes", sec, par, q, j>>})]
      BY <2>1 DEF UuidEntry
    <2>3. h = [j \in DOMAIN b |-> SdXor(b[j], {<<"aes", sec, par, q, j>>})]
      BY <1>5, <2>2
    <2> QED BY <2>3
  <1>9. 1 \in DOMAIN a /\ 1 \in DOMAIN b /\ a \in SD_STRINGS /\ b \in SD_STRINGS
    <2>1. a \in SD_STRINGS /\ b \in SD_STRINGS /\ Len(a) = 2 /\ Len(b) = 2
      BY <1>6 DEF SdUuids
    <2>2. DOMAIN a = 1 .. Len(a) /\ DOMAIN b = 1 .. Len(b)
      BY <2>1, StringList, ListLength
    <2> QED BY <2>1, <2>2
  <1>10. SdXor(a[1], {<<"aes", ak, bk, p, 1>>}) = SdXor(b[1], {<<"aes", al, bl, q, 1>>})
    BY <1>7, <1>8, <1>9
  <1>11. <<"aes", ak, bk, p, 1>> = <<"aes", al, bl, q, 1>>
    <2>1. PICK x, y : x = <<"aes", ak, bk, p, 1>> /\ y = <<"aes", al, bl, q, 1>>
      OBVIOUS
    <2>2. x[1] = "aes" /\ y[1] = "aes"
      BY <2>1
    <2>3. x \notin a[1] /\ y \notin b[1] /\ x \notin b[1] /\ y \notin a[1]
      BY <1>9, <2>2, NoAtoms
    <2>4. x = y
      BY <1>10, <2>1, <2>3 DEF SdXor
    <2> QED BY <2>1, <2>4
  <1>12. p = q
    BY <1>11
  <1> QED BY <1>0, <1>p, <1>12

LEMMA UuidResolves ==
  ASSUME NEW t, UuidInv(t), NEW i \in 1 .. Len(t.list)
  PROVE  dp_uuid_encrypt_get_real(t, dp_uuid_encrypt_get_enc(t, t.list[i].real)[1].hid)[1].real = t.list[i].real
  <1> DEFINE S == {j \in DOMAIN t.list : t.list[j].real = t.list[i].real}
  <1>0. TableShape(t) /\ DOMAIN t.list = 1 .. Len(t.list) /\ Len(t.list) \in Nat
    BY ListLength DEF UuidInv, TableShape
  <1>1. PICK k \in S : k \in 1 .. Len(t.list) /\ SdFirst(t, S)[1] = t.list[k]
    <2>1. S \subseteq 1 .. Len(t.list) /\ i \in S
      BY <1>0
    <2> HIDE DEF S
    <2> QED BY <1>0, <2>1, FoundEntry
  <1>2. dp_uuid_encrypt_get_enc(t, t.list[i].real)[1] = t.list[k] /\ t.list[k].real = t.list[i].real
    BY <1>1 DEF dp_uuid_encrypt_get_enc
  <1> HIDE DEF S
  <1> DEFINE T == SdHiddenAs(t, t.list[k].hid)
  <1>3. PICK l \in T : l \in 1 .. Len(t.list) /\ SdFirst(t, T)[1] = t.list[l]
    <2>1. T \subseteq 1 .. Len(t.list) /\ k \in T
      BY <1>0, <1>1 DEF SdHiddenAs
    <2> HIDE DEF T
    <2> QED BY <1>0, <2>1, FoundEntry
  <1>4. dp_uuid_encrypt_get_real(t, t.list[k].hid)[1] = t.list[l] /\ t.list[l].hid = t.list[k].hid
    BY <1>3 DEF dp_uuid_encrypt_get_real, SdHiddenAs
  <1> HIDE DEF T
  <1>5. l = k
    BY <1>1, <1>3, <1>4, UuidsApart
  <1> QED BY <1>2, <1>4, <1>5

----------------------------------------------------------------------------
(* The clones, and the models, whose spoofed name may be set. *)
LEMMA CloneResolves ==
  ASSUME NEW t, TableShape(t), NEW i \in 1 .. Len(t.list), \A j \in 1 .. i - 1 : t.list[j].disk # t.list[i].disk
  PROVE  dp_uuid_clone_resolve(t, t.list[i].disk) = <<t.list[i]>>
  <1> DEFINE S == {j \in DOMAIN t.list : t.list[j].disk = t.list[i].disk}
  <1>1. PICK n \in Nat : n = Len(t.list) /\ DOMAIN t.list = 1 .. n
    BY ListLength DEF TableShape
  <1>2. S \subseteq 1 .. Len(t.list) /\ i \in S
    BY <1>1
  <1>3. \A j \in S : i <= j
    <2>1. ASSUME NEW j \in S PROVE ~(j < i)
      BY <1>1
    <2> QED BY <1>1, <2>1
  <1>4. SdFirst(t, S) = <<t.list[i]>>
    <2> HIDE DEF S
    <2> QED BY <1>2, <1>3, FirstIs
  <1>5. dp_uuid_clone_get(t, t.list[i].disk) = <<t.list[i]>>
    BY <1>4 DEF dp_uuid_clone_get
  <1> QED BY <1>5 DEF dp_uuid_clone_resolve

Entries(t) == TableShape(t) /\ \A i \in 1 .. Len(t.list) : LET e == t.list[i] IN e = SdEntry(e.disk, e.part, e.real, e.hid)

LEMMA EntriesAdded ==
  ASSUME NEW t, Entries(t), NEW d, NEW p, NEW real, NEW hid
  PROVE  Entries(SdAdd(t, SdEntry(d, p, real, hid)))
  <1>1. PICK e : e = SdEntry(d, p, real, hid)
    OBVIOUS
  <1>2. e = SdEntry(e.disk, e.part, e.real, e.hid)
    BY <1>1 DEF SdEntry
  <1>3. PICK u : u = SdAdd(t, e)
    OBVIOUS
  <1>4. Grown(t, e, u)
    BY <1>3, EntryAdded DEF Entries
  <1> DEFINE S == {x \in {t.list[i] : i \in 1 .. Len(t.list)} \cup {e} : x = SdEntry(x.disk, x.part, x.real, x.hid)}
  <1>5. \A i \in 1 .. Len(t.list) : t.list[i] \in S
    BY DEF Entries
  <1>6. e \in S
    BY <1>2
  <1>7. \A x \in S : x = SdEntry(x.disk, x.part, x.real, x.hid)
    OBVIOUS
  <1> HIDE DEF S
  <1>8. \A i \in 1 .. Len(u.list) : u.list[i] \in S
    BY <1>4, <1>5, <1>6, EveryAdded DEF Entries
  <1> QED BY <1>1, <1>3, <1>4, <1>7, <1>8 DEF Entries, Grown

LEMMA SpoofKeeps ==
  ASSUME NEW t, Entries(t), NEW S, S \subseteq 1 .. Len(t.list), NEW hid
  PROVE  LET u == SdSpoof(t, S, hid) IN
         /\ Entries(u) /\ Len(u.list) = Len(t.list) /\ u.armed = t.armed /\ u.key = t.key
         /\ \A i \in 1 .. Len(t.list) : u.list[i].real = t.list[i].real /\ u.list[i].disk = t.list[i].disk /\ u.list[i].part = t.list[i].part
  <1>1. CASE ~(t.armed /\ S # {})
    BY <1>1 DEF SdSpoof
  <1>2. CASE t.armed /\ S # {}
    <2>1. PICK n \in Nat : n = Len(t.list) /\ DOMAIN t.list = 1 .. n
      BY ListLength DEF Entries, TableShape
    <2>2. PICK k \in 1 .. n : k = LowestOf(S)
      <3>1. S \subseteq 1 .. n /\ S \subseteq Nat
        BY <2>1
      <3> QED BY <1>2, <3>1, LowestFound
    <2>3. PICK v, e : v = SdCut(hid, SD_STR_LEN - 1) /\ e = SdEntry(t.list[k].disk, t.list[k].part, t.list[k].real, v)
      OBVIOUS
    <2>4. [t.list[k] EXCEPT !.hid = v] = e
      <3>1. t.list[k] = SdEntry(t.list[k].disk, t.list[k].part, t.list[k].real, t.list[k].hid)
        BY <2>1 DEF Entries
      <3> QED BY <2>3, <3>1 DEF SdEntry
    <2>5. PICK u : u = SdSpoof(t, S, hid)
      OBVIOUS
    <2>6. Rewritten(t, k, e, u)
      <3>1. SdSpoof(t, S, hid) = [t EXCEPT !.list[k].hid = v]
        BY <1>2, <2>2, <2>3 DEF SdSpoof
      <3>2. SdSpoof(t, S, hid) = [t EXCEPT !.list[k] = e]
        BY <2>4, <3>1
      <3>3. TableShape(t) /\ k \in 1 .. Len(t.list)
        BY <2>1 DEF Entries
      <3> QED BY <2>5, <3>2, <3>3, EntryRewritten
    <2>9. u.armed = t.armed /\ u.key = t.key /\ TableShape(u) /\ Len(u.list) = n /\ u.list[k] = e /\ \A i \in 1 .. n : i # k => u.list[i] = t.list[i]
      BY <2>1, <2>6 DEF Rewritten
    <2>10. e.real = t.list[k].real /\ e.disk = t.list[k].disk /\ e.part = t.list[k].part /\ e = SdEntry(e.disk, e.part, e.real, e.hid)
      BY <2>3 DEF SdEntry
    <2>11. \A i \in 1 .. n : u.list[i].real = t.list[i].real /\ u.list[i].disk = t.list[i].disk /\ u.list[i].part = t.list[i].part
      BY <2>9, <2>10
    <2>12. \A i \in 1 .. n : u.list[i] = SdEntry(u.list[i].disk, u.list[i].part, u.list[i].real, u.list[i].hid)
      <3>1. ASSUME NEW i \in 1 .. n PROVE u.list[i] = SdEntry(u.list[i].disk, u.list[i].part, u.list[i].real, u.list[i].hid)
        <4>1. CASE i = k
          BY <2>9, <2>10, <4>1
        <4>2. CASE i # k
          BY <2>1, <2>9, <4>2 DEF Entries
        <4> QED BY <4>1, <4>2
      <3> QED BY <3>1
    <2> QED BY <2>1, <2>5, <2>9, <2>11, <2>12 DEF Entries
  <1> QED BY <1>1, <1>2

ModelInv(t) == Entries(t) /\ \A i \in 1 .. Len(t.list) : t.list[i].part = 0
LEMMA ModelAdded ==
  ASSUME NEW t, ModelInv(t), NEW d, NEW real
  PROVE  ModelInv(dp_model_spoof_add(t, d, real))
  <1>1. PICK e : e = SdEntry(d, 0, SdCut(real, SD_STR_LEN - 1), <<>>)
    OBVIOUS
  <1>2. PICK u : u = SdAdd(t, e)
    OBVIOUS
  <1>3. Grown(t, e, u) /\ Entries(u)
    BY <1>1, <1>2, EntryAdded, EntriesAdded DEF ModelInv, Entries
  <1> DEFINE S == {x \in {t.list[i] : i \in 1 .. Len(t.list)} \cup {e} : x.part = 0}
  <1>4. \A i \in 1 .. Len(t.list) : t.list[i] \in S
    BY DEF ModelInv
  <1>5. e \in S
    BY <1>1 DEF SdEntry
  <1>6. \A x \in S : x.part = 0
    OBVIOUS
  <1> HIDE DEF S
  <1>7. \A i \in 1 .. Len(u.list) : u.list[i] \in S
    BY <1>3, <1>4, <1>5, EveryAdded DEF ModelInv, Entries
  <1>8. ModelInv(u)
    BY <1>3, <1>6, <1>7 DEF ModelInv
  <1> QED BY <1>1, <1>2, <1>8 DEF dp_model_spoof_add

LEMMA ModelSpoofed ==
  ASSUME NEW t, ModelInv(t), NEW d, NEW hid
  PROVE  ModelInv(dp_model_spoof_spoof(t, d, hid))
  <1>1. PICK u : u = dp_model_spoof_spoof(t, d, hid)
    OBVIOUS
  <1>2. SdAt(t, d, 0) \subseteq 1 .. Len(t.list)
    BY ListLength DEF ModelInv, Entries, TableShape, SdAt
  <1>3. Entries(u) /\ Len(u.list) = Len(t.list) /\ \A i \in 1 .. Len(t.list) : u.list[i].part = t.list[i].part
    BY <1>1, <1>2, SpoofKeeps DEF ModelInv, dp_model_spoof_spoof
  <1> QED BY <1>1, <1>3 DEF ModelInv

(* A model leads back to its disk just when no disk before shows it. *)
LEMMA ModelResolves ==
  ASSUME NEW t, ModelInv(t), NEW i \in 1 .. Len(t.list), SdLeads(t, i)
  PROVE  dp_model_spoof_get_real(t, dp_model_spoof_get(t, t.list[i].disk)[1].hid) = <<t.list[i]>> <=> SdAlone(t, i)
  <1> DEFINE S == SdAt(t, t.list[i].disk, 0)
             T == SdHiddenAs(t, t.list[i].hid)
  <1>0. PICK n \in Nat : n = Len(t.list) /\ DOMAIN t.list = 1 .. n
    BY ListLength DEF ModelInv, Entries, TableShape
  <1>t. TableShape(t) /\ \A j \in 1 .. n : t.list[j].part = 0
    BY <1>0 DEF ModelInv, Entries
  <1>1. S \subseteq 1 .. Len(t.list) /\ i \in S /\ \A j \in S : i <= j
    <2>1. S \subseteq 1 .. n /\ i \in S
      BY <1>0, <1>t DEF SdAt
    <2>2. ASSUME NEW j \in S PROVE ~(j < i)
      BY <1>0, <1>t DEF SdAt, SdLeads
    <2>3. ASSUME NEW j \in S PROVE i <= j
      <3>1. i \in 1 .. n /\ j \in 1 .. n /\ ~(j < i)
        BY <1>0, <2>1, <2>2
      <3> QED BY <3>1
    <2> QED BY <1>0, <2>1, <2>3
  <1>2. dp_model_spoof_get(t, t.list[i].disk) = <<t.list[i]>>
    <2>1. SdFirst(t, S) = <<t.list[i]>>
      <3> HIDE DEF S
      <3> QED BY <1>1, <1>t, FirstIs
    <2> QED BY <2>1 DEF dp_model_spoof_get
  <1>3. T \subseteq 1 .. Len(t.list) /\ i \in T
    BY <1>0 DEF SdHiddenAs
  <1>4. PICK l \in T : SdFirst(t, T) = <<t.list[l]>> /\ \A j \in T : l <= j
    <2> HIDE DEF T
    <2> QED BY <1>3, <1>t, FoundFirst
  <1>5. dp_model_spoof_get_real(t, dp_model_spoof_get(t, t.list[i].disk)[1].hid) = <<t.list[l]>>
    BY <1>2, <1>4 DEF dp_model_spoof_get_real
  <1>6. l \in 1 .. n /\ i \in 1 .. n /\ l <= i /\ t.list[l].hid = t.list[i].hid
    BY <1>0, <1>3, <1>4 DEF SdHiddenAs
  <1>7. ASSUME SdAlone(t, i) PROVE t.list[l] = t.list[i]
    <2>1. ~(l \in 1 .. i - 1)
      BY <1>6, <1>7 DEF SdAlone
    <2>2. l = i
      BY <1>6, <2>1
    <2> QED BY <2>2
  <1>8. ASSUME t.list[l] = t.list[i] PROVE SdAlone(t, i)
    <2>1. ~(l \in 1 .. i - 1)
      BY <1>6, <1>8 DEF SdLeads
    <2>2. l = i
      BY <1>6, <2>1
    <2>3. ASSUME NEW j \in 1 .. i - 1 PROVE t.list[j].hid # t.list[i].hid
      <3>1. j \in 1 .. n /\ ~(l <= j)
        BY <1>6, <2>2
      <3>2. j \notin T
        <4> HIDE DEF T
        <4> QED BY <1>4, <3>1
      <3> QED BY <1>0, <3>1, <3>2 DEF SdHiddenAs
    <2> QED BY <2>3 DEF SdAlone
  <1> HIDE DEF S, T
  <1> QED BY <1>5, <1>7, <1>8

----------------------------------------------------------------------------
(* The file systems: the next name of the table, a turn that loses nothing. *)
LEMMA Turn == ASSUME NEW n \in Nat \ {0}, NEW i \in Nat \ {0}, i <= n PROVE i % n = IF i = n THEN 0 ELSE i
  <1>1. i % n \in 0 .. n - 1 /\ i = n * (i \div n) + (i % n) /\ i \div n \in Int
    OBVIOUS
  <1>2. i \div n \in {0, 1}
    BY <1>1
  <1> QED BY <1>1, <1>2
LEMMA NextName ==
  ASSUME NEW i \in DOMAIN SD_FSTYPES
  PROVE  LET n == Len(SD_FSTYPES) IN
         /\ n \in Nat /\ DOMAIN SD_FSTYPES = 1 .. n
         /\ fs_spoof_lookup(SD_FSTYPES[i]) = SD_FSTYPES[IF i = n THEN 1 ELSE i + 1]
  <1>1. PICK F, n : F = SD_FSTYPES /\ n = Len(F)
    OBVIOUS
  <1>2. n \in Nat /\ DOMAIN F = 1 .. n
    <2>1. SD_FSTYPES \in Seq({SD_FSTYPES[k] : k \in DOMAIN SD_FSTYPES})
      BY SDSizes
    <2> QED BY <1>1, <2>1, LenProperties
  <1>3. i \in 1 .. n
    BY <1>1, <1>2
  <1>4. {j \in DOMAIN F : F[j] = F[i]} = {i}
    BY <1>1, <1>2, <1>3, SDNames
  <1>5. LowestOf({i}) = i
    <2>1. i \in Nat
      BY <1>2, <1>3
    <2>2. LowestOf({i}) \in {i}
      BY <2>1, LowestFound
    <2> QED BY <2>2
  <1>6. fs_spoof_lookup(F[i]) = F[(i % n) + 1]
    BY <1>1, <1>4, <1>5 DEF fs_spoof_lookup
  <1>7. i % n = IF i = n THEN 0 ELSE i
    <2>1. n \in Nat \ {0} /\ i \in Nat \ {0} /\ i <= n
      BY <1>2, <1>3
    <2> QED BY <2>1, Turn
  <1> QED BY <1>1, <1>2, <1>3, <1>6, <1>7

FsInv(t) == Entries(t) /\ \A i \in 1 .. Len(t.list) : \E n \in DOMAIN SD_FSTYPES : t.list[i].real = SD_FSTYPES[n]

LEMMA FsAdded ==
  ASSUME NEW t, FsInv(t), NEW d, NEW p, NEW n \in DOMAIN SD_FSTYPES
  PROVE  FsInv(dp_fs_hide_add(t, d, p, SD_FSTYPES[n]))
  <1>1. PICK e : e = SdEntry(d, p, SD_FSTYPES[n], fs_spoof_lookup(SD_FSTYPES[n]))
    OBVIOUS
  <1>2. PICK u : u = SdAdd(t, e)
    OBVIOUS
  <1>3. Grown(t, e, u) /\ Entries(u)
    BY <1>1, <1>2, EntryAdded, EntriesAdded DEF FsInv, Entries
  <1> DEFINE S == {x \in {t.list[i] : i \in 1 .. Len(t.list)} \cup {e} : \E m \in DOMAIN SD_FSTYPES : x.real = SD_FSTYPES[m]}
  <1>4. \A i \in 1 .. Len(t.list) : t.list[i] \in S
    BY DEF FsInv
  <1>5. e \in S
    BY <1>1 DEF SdEntry
  <1>6. \A x \in S : \E m \in DOMAIN SD_FSTYPES : x.real = SD_FSTYPES[m]
    OBVIOUS
  <1> HIDE DEF S
  <1>7. \A i \in 1 .. Len(u.list) : u.list[i] \in S
    BY <1>3, <1>4, <1>5, EveryAdded DEF FsInv, Entries
  <1>8. FsInv(u)
    BY <1>3, <1>6, <1>7 DEF FsInv
  <1> QED BY <1>1, <1>2, <1>8 DEF dp_fs_hide_add

LEMMA FsSpoofed ==
  ASSUME NEW t, FsInv(t), NEW d, NEW p, NEW hid
  PROVE  FsInv(dp_fs_hide_spoof(t, d, p, hid))
  <1>1. PICK u : u = dp_fs_hide_spoof(t, d, p, hid)
    OBVIOUS
  <1>2. SdAt(t, d, p) \subseteq 1 .. Len(t.list)
    BY ListLength DEF FsInv, Entries, TableShape, SdAt
  <1>3. Entries(u) /\ Len(u.list) = Len(t.list) /\ \A i \in 1 .. Len(t.list) : u.list[i].real = t.list[i].real
    BY <1>1, <1>2, SpoofKeeps DEF FsInv, dp_fs_hide_spoof
  <1> QED BY <1>1, <1>3 DEF FsInv

LEMMA FsResolves ==
  ASSUME NEW t, FsInv(t), \A i \in 1 .. Len(t.list) : t.list[i].hid = fs_spoof_lookup(t.list[i].real), NEW i \in 1 .. Len(t.list)
  PROVE  SdFirst(t, SdHiddenAs(t, t.list[i].hid))[1].real = t.list[i].real
  <1> DEFINE T == SdHiddenAs(t, t.list[i].hid)
  <1>0. DOMAIN t.list = 1 .. Len(t.list) /\ TableShape(t)
    BY ListLength DEF FsInv, Entries, TableShape
  <1>1. PICK l \in T : l \in 1 .. Len(t.list) /\ SdFirst(t, T)[1] = t.list[l]
    <2>1. T \subseteq 1 .. Len(t.list) /\ i \in T
      BY <1>0 DEF SdHiddenAs
    <2> HIDE DEF T
    <2> QED BY <1>0, <2>1, FoundEntry
  <1>2. t.list[l].hid = t.list[i].hid
    BY <1>1 DEF SdHiddenAs
  <1>3. PICK n \in DOMAIN SD_FSTYPES : t.list[i].real = SD_FSTYPES[n]
    BY DEF FsInv
  <1>4. PICK m \in DOMAIN SD_FSTYPES : t.list[l].real = SD_FSTYPES[m]
    BY <1>1 DEF FsInv
  <1>5. PICK c : c = Len(SD_FSTYPES)
    OBVIOUS
  <1>6. c \in Nat /\ DOMAIN SD_FSTYPES = 1 .. c /\ fs_spoof_lookup(SD_FSTYPES[n]) = SD_FSTYPES[IF n = c THEN 1 ELSE n + 1]
    BY <1>5, NextName
  <1>7. fs_spoof_lookup(SD_FSTYPES[m]) = SD_FSTYPES[IF m = c THEN 1 ELSE m + 1]
    BY <1>5, NextName
  <1>8. SD_FSTYPES[IF n = c THEN 1 ELSE n + 1] = SD_FSTYPES[IF m = c THEN 1 ELSE m + 1]
    BY <1>1, <1>2, <1>3, <1>4, <1>6, <1>7
  <1>9. (IF n = c THEN 1 ELSE n + 1) = (IF m = c THEN 1 ELSE m + 1)
    <2>1. (IF n = c THEN 1 ELSE n + 1) \in 1 .. c /\ (IF m = c THEN 1 ELSE m + 1) \in 1 .. c
      BY <1>6
    <2> QED BY <1>6, <1>8, <2>1, SDNames
  <1>10. n = m
    BY <1>6, <1>9
  <1> QED BY <1>1, <1>3, <1>4, <1>10

----------------------------------------------------------------------------
(* The sizes: one entry for a disk, within a tenth. *)
SizeEntry(e) == e.part = 0 /\ e.real \in Nat /\ \E x \in Nat : e.hid = size_compute_reported(e.real, x)
DiskOf(l, e) == [x \in {l[i] : i \in 1 .. Len(l)} \cup {e} |-> x.disk]
OneForDisk(l) == \A i, j \in 1 .. Len(l) : l[i].disk = l[j].disk => i = j
SizeInv(t) == TableShape(t) /\ OneForDisk(t.list) /\ \A i \in 1 .. Len(t.list) : SizeEntry(t.list[i])

LEMMA DiskAdded ==
  ASSUME NEW t, TableShape(t), OneForDisk(t.list), NEW e, NEW u, Grown(t, e, u), \A i \in 1 .. Len(t.list) : t.list[i].disk # e.disk
  PROVE  OneForDisk(u.list)
  <1>1. PICK key : key = DiskOf(t.list, e)
    OBVIOUS
  <1>2. (\A i \in 1 .. Len(t.list) : key[t.list[i]] = t.list[i].disk) /\ key[e] = e.disk
    BY <1>1 DEF DiskOf
  <1>3. Distinct(t.list, key) /\ \A i \in 1 .. Len(t.list) : key[t.list[i]] # key[e]
    BY <1>2 DEF Distinct, OneForDisk
  <1>4. Distinct(u.list, key)
    BY <1>3, DistinctAdded
  <1> DEFINE S == {x \in {t.list[i] : i \in 1 .. Len(t.list)} \cup {e} : key[x] = x.disk}
  <1>5. (\A i \in 1 .. Len(t.list) : t.list[i] \in S) /\ e \in S /\ \A x \in S : key[x] = x.disk
    BY <1>2
  <1> HIDE DEF S
  <1>6. \A i \in 1 .. Len(u.list) : u.list[i] \in S
    BY <1>5, EveryAdded
  <1> QED BY <1>4, <1>5, <1>6 DEF Distinct, OneForDisk

LEMMA SizeAdded ==
  ASSUME NEW t, SizeInv(t), NEW d \in SD_DISKS, NEW real \in SD_SIZES, NEW x \in SD_RANDOM
  PROVE  SizeInv(dp_size_obfs_add(t, d, real, x))
  <1>1. CASE SdAt(t, d, 0) # {}
    BY <1>1 DEF dp_size_obfs_add
  <1>2. CASE SdAt(t, d, 0) = {}
    <2>1. PICK e : e = SdEntry(d, 0, real, size_compute_reported(real, x))
      OBVIOUS
    <2>2. SizeEntry(e) /\ e.disk = d
      BY <2>1, SDSizes DEF SizeEntry, SdEntry
    <2>3. PICK u : u = SdAdd(t, e)
      OBVIOUS
    <2>4. Grown(t, e, u)
      BY <2>3, EntryAdded DEF SizeInv
    <2>5. \A i \in 1 .. Len(t.list) : t.list[i].disk # e.disk
      <3>1. DOMAIN t.list = 1 .. Len(t.list)
        BY ListLength DEF SizeInv, TableShape
      <3> QED BY <1>2, <2>2, <3>1 DEF SdAt, SizeInv, SizeEntry
    <2>6. OneForDisk(u.list)
      BY <2>4, <2>5, DiskAdded DEF SizeInv
    <2> DEFINE S == {y \in {t.list[i] : i \in 1 .. Len(t.list)} \cup {e} : SizeEntry(y)}
    <2>7. (\A i \in 1 .. Len(t.list) : t.list[i] \in S) /\ e \in S /\ \A y \in S : SizeEntry(y)
      BY <2>2 DEF SizeInv
    <2> HIDE DEF S
    <2>8. \A i \in 1 .. Len(u.list) : u.list[i] \in S
      BY <2>4, <2>7, EveryAdded DEF SizeInv
    <2>9. SizeInv(u)
      BY <2>4, <2>6, <2>7, <2>8 DEF SizeInv, Grown
    <2> QED BY <1>2, <2>1, <2>3, <2>9 DEF dp_size_obfs_add
  <1> QED BY <1>1, <1>2

LEMMA SizeResolves ==
  ASSUME NEW t, SizeInv(t), NEW i \in 1 .. Len(t.list)
  PROVE  /\ dp_size_obfs_resolve(t, t.list[i].disk, t.list[i].hid)[1].real = t.list[i].real
         /\ t.list[i].real > 10 => t.list[i].hid \in t.list[i].real - (t.list[i].real \div 10) .. t.list[i].real + (t.list[i].real \div 10)
  <1> DEFINE T == SdAt(t, t.list[i].disk, 0) \cap SdHiddenAs(t, t.list[i].hid)
  <1>0. DOMAIN t.list = 1 .. Len(t.list) /\ TableShape(t)
    BY ListLength DEF SizeInv, TableShape
  <1>1. PICK l \in T : l \in 1 .. Len(t.list) /\ SdFirst(t, T)[1] = t.list[l]
    <2>1. T \subseteq 1 .. Len(t.list) /\ i \in T
      BY <1>0 DEF SdHiddenAs, SdAt, SizeInv, SizeEntry
    <2> HIDE DEF T
    <2> QED BY <1>0, <2>1, FoundEntry
  <1>2. l = i
    BY <1>1 DEF SdAt, SizeInv, OneForDisk
  <1>3. dp_size_obfs_resolve(t, t.list[i].disk, t.list[i].hid)[1].real = t.list[i].real
    BY <1>1, <1>2 DEF dp_size_obfs_resolve
  <1> HIDE DEF T
  <1>4. ASSUME t.list[i].real > 10 PROVE t.list[i].hid \in t.list[i].real - (t.list[i].real \div 10) .. t.list[i].real + (t.list[i].real \div 10)
    <2>1. PICK e : e = t.list[i]
      OBVIOUS
    <2>2. PICK r \in Nat, x \in Nat : r = e.real /\ e.hid = size_compute_reported(r, x)
      BY <2>1 DEF SizeInv, SizeEntry
    <2>3. PICK b : b = r \div 10
      OBVIOUS
    <2>4. r > 10 /\ b \in Nat /\ b > 0
      BY <1>4, <2>1, <2>2, <2>3
    <2>5. PICK w : w = 2 * b
      OBVIOUS
    <2>6. w \in Nat /\ w > 0
      BY <2>4, <2>5
    <2>7. x % w \in 0 .. w - 1
      BY <2>2, <2>6
    <2>8. e.hid = r - b + (x % w)
      BY <2>2, <2>3, <2>4, <2>5 DEF size_compute_reported
    <2>9. PICK m : m = x % w
      OBVIOUS
    <2>10. r - b + m \in r - b .. r + b
      BY <2>4, <2>5, <2>6, <2>7, <2>9
    <2> QED BY <2>1, <2>2, <2>3, <2>8, <2>9, <2>10
  <1> QED BY <1>3, <1>4

----------------------------------------------------------------------------
(* The block numbers: what the rounds give for two numbers differs when the *)
(* numbers do; a pair of disk and number is registered once.                *)
Same(h, g) == h[1] = g[1] /\ h[2] = g[2]
LEMMA RoundBack == ASSUME NEW h, NEW g, NEW r, Same(lba_round(h, r), lba_round(g, r)) PROVE Same(h, g)
  <1>1. h[2] = g[2] /\ SdXor(h[1], {<<"f", r, h[2]>>}) = SdXor(g[1], {<<"f", r, g[2]>>})
    BY DEF Same, lba_round
  <1>2. PICK x : x = {<<"f", r, h[2]>>} /\ x = {<<"f", r, g[2]>>}
    BY <1>1
  <1> QED BY <1>1, <1>2, SdXorCancel DEF Same

LEMMA FeistelBack == ASSUME NEW h, NEW g, Same(lba_feistel(h), lba_feistel(g)) PROVE Same(h, g)
  <1> DEFINE Three(x, r) == lba_round(lba_round(lba_round(x, r), r + 1), r + 2)
  <1>1. ASSUME NEW x, NEW y, NEW r, Same(Three(x, r), Three(y, r)) PROVE Same(x, y)
    <2>1. Same(lba_round(lba_round(x, r), r + 1), lba_round(lba_round(y, r), r + 1))
      BY <1>1, RoundBack
    <2>2. Same(lba_round(x, r), lba_round(y, r))
      BY <2>1, RoundBack
    <2> QED BY <2>2, RoundBack
  <1>2. Same(Three(Three(h, 1), 4), Three(Three(g, 1), 4))
    BY DEF lba_feistel
  <1> HIDE DEF Three
  <1> QED BY <1>1, <1>2

IsPair(h) == h = <<h[1], h[2]>>
LEMMA PairXor == ASSUME NEW h, IsPair(h), NEW k PROVE LET x == SdXorAll(h, k) IN x[1] = SdXor(h[1], k[1]) /\ x[2] = SdXor(h[2], k[2])
  <1>1. DOMAIN h = {1, 2}
    BY DEF IsPair
  <1> QED BY <1>1 DEF SdXorAll
LEMMA FeistelPair == \A h : IsPair(lba_feistel(h))
  <1> SUFFICES ASSUME NEW h PROVE IsPair(lba_feistel(h))
    OBVIOUS
  <1>1. \E x, r : lba_feistel(h) = lba_round(x, r)
    BY DEF lba_feistel
  <1>2. \A x, r : IsPair(lba_round(x, r))
    BY DEF IsPair, lba_round
  <1> QED BY <1>1, <1>2
LEMMA ScrambledOnce ==
  ASSUME NEW d, NEW h, IsPair(h), NEW g, IsPair(g), lba_scramble_one(d, h) = lba_scramble_one(d, g)
  PROVE  h = g
  <1>1. PICK k, l : k = << {<<"k", d, 1>>}, {<<"k", d, 2>>} >> /\ l = << {<<"k", d, 3>>}, {<<"k", d, 4>>} >>
    OBVIOUS
  <1>2. PICK a, b : a = SdXorAll(h, k) /\ b = SdXorAll(g, k)
    OBVIOUS
  <1>3. PICK x, y : x = lba_feistel(a) /\ y = lba_feistel(b)
    OBVIOUS
  <1>4. SdXorAll(x, l) = SdXorAll(y, l)
    BY <1>1, <1>2, <1>3 DEF lba_scramble_one
  <1>5. IsPair(x) /\ IsPair(y)
    BY <1>3, FeistelPair
  <1>6. SdXor(x[1], l[1]) = SdXor(y[1], l[1]) /\ SdXor(x[2], l[2]) = SdXor(y[2], l[2])
    BY <1>4, <1>5, PairXor
  <1>7. Same(x, y)
    BY <1>6, SdXorCancel DEF Same
  <1>8. Same(a, b)
    BY <1>3, <1>7, FeistelBack
  <1>9. SdXor(h[1], k[1]) = SdXor(g[1], k[1]) /\ SdXor(h[2], k[2]) = SdXor(g[2], k[2])
    BY <1>2, <1>8, PairXor DEF Same
  <1>10. h[1] = g[1] /\ h[2] = g[2]
    BY <1>9, SdXorCancel
  <1> QED BY <1>10 DEF IsPair

LbaEntry(e) == e.part = 0 /\ IsPair(e.real) /\ e.hid = lba_scramble_one(e.disk, e.real)
OneForBlock(l) == \A i, j \in 1 .. Len(l) : l[i].disk = l[j].disk /\ l[i].real = l[j].real => i = j
LbaInv(t) == TableShape(t) /\ OneForBlock(t.list) /\ \A i \in 1 .. Len(t.list) : LbaEntry(t.list[i])

LEMMA LbaAdded ==
  ASSUME NEW t, LbaInv(t), NEW d, NEW lba, IsPair(lba)
  PROVE  LbaInv(dp_lba_scramble_add(t, d, lba))
  <1>0. DOMAIN t.list = 1 .. Len(t.list)
    BY ListLength DEF LbaInv, TableShape
  <1>1. CASE \E i \in DOMAIN t.list : t.list[i].disk = d /\ t.list[i].real = lba
    BY <1>1 DEF dp_lba_scramble_add
  <1>2. CASE ~ \E i \in DOMAIN t.list : t.list[i].disk = d /\ t.list[i].real = lba
    <2>1. PICK e : e = SdEntry(d, 0, lba, lba_scramble_one(d, lba))
      OBVIOUS
    <2>2. LbaEntry(e) /\ e.disk = d /\ e.real = lba
      BY <2>1 DEF LbaEntry, SdEntry
    <2>3. PICK u : u = SdAdd(t, e)
      OBVIOUS
    <2>4. Grown(t, e, u)
      BY <2>3, EntryAdded DEF LbaInv
    <2>5. PICK key : key = [x \in {t.list[i] : i \in 1 .. Len(t.list)} \cup {e} |-> <<x.disk, x.real>>]
      OBVIOUS
    <2>6. (\A i \in 1 .. Len(t.list) : key[t.list[i]] = <<t.list[i].disk, t.list[i].real>>) /\ key[e] = <<d, lba>>
      BY <2>2, <2>5
    <2>7. \A i \in 1 .. Len(t.list) : key[t.list[i]] # key[e]
      BY <1>0, <1>2, <2>6
    <2>8. Distinct(t.list, key)
      BY <2>6 DEF Distinct, LbaInv, OneForBlock
    <2>9. Distinct(u.list, key)
      BY <2>4, <2>7, <2>8, DistinctAdded DEF LbaInv
    <2> DEFINE S == {y \in {t.list[i] : i \in 1 .. Len(t.list)} \cup {e} : LbaEntry(y) /\ key[y] = <<y.disk, y.real>>}
    <2>10. (\A i \in 1 .. Len(t.list) : t.list[i] \in S) /\ e \in S /\ \A y \in S : LbaEntry(y) /\ key[y] = <<y.disk, y.real>>
      BY <2>2, <2>6 DEF LbaInv
    <2> HIDE DEF S
    <2>11. \A i \in 1 .. Len(u.list) : u.list[i] \in S
      BY <2>4, <2>10, EveryAdded DEF LbaInv
    <2>12. OneForBlock(u.list)
      <3>1. SUFFICES ASSUME NEW i \in 1 .. Len(u.list), NEW j \in 1 .. Len(u.list),
                            u.list[i].disk = u.list[j].disk, u.list[i].real = u.list[j].real
                     PROVE  i = j
        BY DEF OneForBlock
      <3>2. key[u.list[i]] = <<u.list[i].disk, u.list[i].real>> /\ key[u.list[j]] = <<u.list[j].disk, u.list[j].real>>
        BY <2>10, <2>11
      <3>3. key[u.list[i]] = key[u.list[j]]
        BY <3>1, <3>2
      <3> QED BY <2>9, <3>3 DEF Distinct
    <2>13. LbaInv(u)
      BY <2>4, <2>10, <2>11, <2>12 DEF LbaInv, Grown
    <2> QED BY <1>2, <2>1, <2>3, <2>13 DEF dp_lba_scramble_add
  <1> QED BY <1>1, <1>2

LEMMA LbaResolves ==
  ASSUME NEW t, LbaInv(t), NEW i \in 1 .. Len(t.list), NEW e, e = t.list[i]
  PROVE  /\ dp_lba_scramble_resolve(t, e.disk, dp_lba_scramble_get(t, e.disk, e.real)[1].hid)[1].real = e.real
         /\ \A j \in 1 .. Len(t.list) : t.list[j].disk = e.disk /\ t.list[j].real = e.real => i = j
  <1> DEFINE S == {j \in SdAt(t, e.disk, 0) : t.list[j].real = e.real}
             T == SdAt(t, e.disk, 0) \cap SdHiddenAs(t, e.hid)
  <1>0. DOMAIN t.list = 1 .. Len(t.list) /\ TableShape(t) /\ \A j \in 1 .. Len(t.list) : LbaEntry(t.list[j])
    BY ListLength DEF LbaInv, TableShape
  <1>1. \A j \in 1 .. Len(t.list) : t.list[j].disk = e.disk /\ t.list[j].real = e.real => i = j
    BY DEF LbaInv, OneForBlock
  <1>2. PICK k \in S : k \in 1 .. Len(t.list) /\ SdFirst(t, S)[1] = t.list[k]
    <2>1. S \subseteq 1 .. Len(t.list) /\ i \in S
      BY <1>0 DEF SdAt, LbaEntry
    <2> HIDE DEF S
    <2> QED BY <1>0, <2>1, FoundEntry
  <1>3. k = i
    BY <1>1, <1>2 DEF SdAt
  <1>4. dp_lba_scramble_get(t, e.disk, e.real)[1].hid = e.hid
    BY <1>2, <1>3 DEF dp_lba_scramble_get
  <1> HIDE DEF S
  <1>5. PICK l \in T : l \in 1 .. Len(t.list) /\ SdFirst(t, T)[1] = t.list[l]
    <2>1. T \subseteq 1 .. Len(t.list) /\ i \in T
      BY <1>0 DEF SdAt, SdHiddenAs, LbaEntry
    <2> HIDE DEF T
    <2> QED BY <1>0, <2>1, FoundEntry
  <1>6. t.list[l].disk = e.disk /\ t.list[l].hid = e.hid
    BY <1>5 DEF SdAt, SdHiddenAs
  <1>7. t.list[l].real = e.real
    <2>1. PICK g : g = t.list[l]
      OBVIOUS
    <2>2. LbaEntry(g) /\ LbaEntry(e) /\ g.disk = e.disk /\ g.hid = e.hid
      BY <1>0, <1>5, <1>6, <2>1
    <2>3. PICK d, a, b : d = e.disk /\ a = g.real /\ b = e.real
      OBVIOUS
    <2>4. IsPair(a) /\ IsPair(b) /\ lba_scramble_one(d, a) = lba_scramble_one(d, b)
      BY <2>2, <2>3 DEF LbaEntry
    <2>5. a = b
      BY <2>4, ScrambledOnce
    <2> QED BY <2>1, <2>3, <2>5
  <1>8. dp_lba_scramble_resolve(t, e.disk, e.hid)[1].real = e.real
    BY <1>5, <1>7 DEF dp_lba_scramble_resolve
  <1> QED BY <1>1, <1>4, <1>8

----------------------------------------------------------------------------
(* The signatures: one for a disk. *)
SignEntry(e) == e.part = 0 /\ e.disk \in Nat
SignInv(t) == TableShape(t) /\ OneForDisk(t.list) /\ \A i \in 1 .. Len(t.list) : SignEntry(t.list[i])

LEMMA SignAdded ==
  ASSUME NEW t, SignInv(t), NEW d \in SD_DISKS, NEW real
  PROVE  SignInv(dp_mbr_gpt_mask_add(t, d, real))
  <1>0. DOMAIN t.list = 1 .. Len(t.list) /\ TableShape(t) /\ Len(t.list) \in Nat
    BY ListLength DEF SignInv, TableShape
  <1>1. PICK e : e = SdEntry(d, 0, real, [i \in DOMAIN real |-> SdXor(real[i], derive_mbr_key(t.key, d, i))])
    OBVIOUS
  <1>2. SignEntry(e) /\ e.disk = d
    BY <1>1, SDSizes DEF SignEntry, SdEntry
  <1>3. PICK u : u = dp_mbr_gpt_mask_add(t, d, real)
    OBVIOUS
  <1>4. CASE ~t.armed \/ d >= SD_TABLE
    BY <1>3, <1>4 DEF dp_mbr_gpt_mask_add
  <1>5. CASE ~(~t.armed \/ d >= SD_TABLE) /\ SdAt(t, d, 0) # {}
    <2>1. PICK k \in 1 .. Len(t.list) : k = LowestOf(SdAt(t, d, 0)) /\ k \in SdAt(t, d, 0)
      <3>1. SdAt(t, d, 0) \subseteq 1 .. Len(t.list) /\ SdAt(t, d, 0) \subseteq Nat
        BY <1>0 DEF SdAt
      <3> QED BY <1>5, <3>1, LowestFound
    <2>2. u = [t EXCEPT !.list[k] = e]
      BY <1>1, <1>3, <1>5, <2>1 DEF dp_mbr_gpt_mask_add
    <2>3. Rewritten(t, k, e, u)
      BY <1>0, <2>2, EntryRewritten
    <2>4. t.list[k].disk = d
      BY <2>1 DEF SdAt
    <2>5. \A i \in 1 .. Len(t.list) : u.list[i].disk = t.list[i].disk /\ SignEntry(u.list[i])
      <3>1. ASSUME NEW i \in 1 .. Len(t.list) PROVE u.list[i].disk = t.list[i].disk /\ SignEntry(u.list[i])
        <4>1. CASE i = k
          BY <1>2, <2>3, <2>4, <4>1 DEF Rewritten
        <4>2. CASE i # k
          BY <2>3, <4>2 DEF Rewritten, SignInv
        <4> QED BY <4>1, <4>2
      <3> QED BY <3>1
    <2>6. OneForDisk(u.list)
      BY <2>3, <2>5 DEF OneForDisk, SignInv, Rewritten
    <2> QED BY <1>3, <2>3, <2>5, <2>6 DEF SignInv, Rewritten
  <1>6. CASE ~(~t.armed \/ d >= SD_TABLE) /\ SdAt(t, d, 0) = {}
    <2>1. u = [t EXCEPT !.list = Append(@, e)]
      BY <1>1, <1>3, <1>6 DEF dp_mbr_gpt_mask_add
    <2>2. Grown(t, e, u)
      BY <1>0, <1>6, <2>1, AppendGrows
    <2>3. \A i \in 1 .. Len(t.list) : t.list[i].disk # e.disk
      BY <1>0, <1>2, <1>6 DEF SdAt, SignInv, SignEntry
    <2>4. OneForDisk(u.list)
      BY <2>2, <2>3, DiskAdded DEF SignInv
    <2> DEFINE S == {y \in {t.list[i] : i \in 1 .. Len(t.list)} \cup {e} : SignEntry(y)}
    <2>5. (\A i \in 1 .. Len(t.list) : t.list[i] \in S) /\ e \in S /\ \A y \in S : SignEntry(y)
      BY <1>2 DEF SignInv
    <2> HIDE DEF S
    <2>6. \A i \in 1 .. Len(u.list) : u.list[i] \in S
      BY <2>2, <2>5, EveryAdded DEF SignInv
    <2> QED BY <1>3, <2>2, <2>4, <2>5, <2>6 DEF SignInv, Grown
  <1> QED BY <1>4, <1>5, <1>6

LEMMA SignResolves ==
  ASSUME NEW t, SignInv(t), NEW i \in 1 .. Len(t.list), NEW e, e = t.list[i]
  PROVE  dp_mbr_gpt_mask_resolve(t, e.hid) = <<e>> <=> \A j \in 1 .. Len(t.list) : t.list[j].hid = e.hid => e.disk <= t.list[j].disk
  <1> DEFINE H == SdHiddenAs(t, e.hid)
             T == {k \in H : \A j \in H : t.list[k].disk <= t.list[j].disk}
  <1>0. DOMAIN t.list = 1 .. Len(t.list) /\ TableShape(t) /\ \A j \in 1 .. Len(t.list) : t.list[j].disk \in Nat
    BY ListLength DEF SignInv, TableShape, SignEntry
  <1>1. H = {j \in 1 .. Len(t.list) : t.list[j].hid = e.hid} /\ T \subseteq 1 .. Len(t.list)
    BY <1>0 DEF SdHiddenAs
  <1>2. dp_mbr_gpt_mask_resolve(t, e.hid) = SdFirst(t, T)
    BY DEF dp_mbr_gpt_mask_resolve
  <1>3. ASSUME NEW x \in T PROVE \E k \in T : SdFirst(t, T) = <<t.list[k]>>
    <2> HIDE DEF T
    <2> QED BY <1>0, <1>1, FoundFirst
  <1>4. ASSUME \A j \in 1 .. Len(t.list) : t.list[j].hid = e.hid => e.disk <= t.list[j].disk
        PROVE  SdFirst(t, T) = <<e>>
    <2>1. i \in T
      BY <1>1, <1>4
    <2>2. PICK k \in T : SdFirst(t, T) = <<t.list[k]>>
      BY <1>3, <2>1
    <2>3. k \in 1 .. Len(t.list) /\ t.list[k].disk <= e.disk /\ e.disk <= t.list[k].disk
      BY <1>1, <1>4, <2>2
    <2>4. t.list[k].disk = e.disk
      BY <1>0, <2>3
    <2>5. k = i
      BY <2>3, <2>4 DEF SignInv, OneForDisk
    <2> QED BY <2>2, <2>5
  <1>5. ASSUME SdFirst(t, T) = <<e>>
        PROVE  \A j \in 1 .. Len(t.list) : t.list[j].hid = e.hid => e.disk <= t.list[j].disk
    <2>1. T # {}
      <3> HIDE DEF T
      <3> QED BY <1>5 DEF SdFirst
    <2>2. PICK k \in T : SdFirst(t, T) = <<t.list[k]>>
      BY <1>3, <2>1
    <2>3. t.list[k] = e
      BY <1>5, <2>2
    <2> QED BY <1>1, <2>2, <2>3
  <1> HIDE DEF H, T
  <1> QED BY <1>2, <1>4, <1>5

----------------------------------------------------------------------------
(* The tables together: what a call leaves. *)
TableNames == {"serial", "label", "uuid", "clone", "model", "fs", "size", "lba", "mask"}
GoodTable(m, t) ==
  /\ TableShape(t)
  /\ m = "serial" => SerialInv(t)
  /\ m = "label" => LabelInv(t)
  /\ m = "uuid" => UuidInv(t)
  /\ m = "model" => ModelInv(t)
  /\ m = "fs" => FsInv(t)
  /\ m = "size" => SizeInv(t)
  /\ m = "lba" => LbaInv(t)
  /\ m = "mask" => SignInv(t)
TablesInv == sd_tab = [m \in TableNames |-> sd_tab[m]] /\ \A m \in TableNames : GoodTable(m, sd_tab[m])

LEMMA FreshTable ==
  ASSUME NEW t, TableShape(t), Len(t.list) = 0, t.armed => t.key \in SD_KEYS, NEW m
  PROVE  GoodTable(m, t)
  BY DEF GoodTable, SerialInv, LabelInv, UuidInv, ModelInv, Entries, FsInv, SizeInv, LbaInv, SignInv, OneForDisk, OneForBlock

LEMMA TableAfter ==
  ASSUME NEW m \in TableNames, NEW t, GoodTable(m, t), NEW u \in SdAfter(m, t)
  PROVE  GoodTable(m, u)
  <1>0. TableShape(t)
    BY DEF GoodTable
  <1>1. CASE m = "serial"
    <2>1. PICK d \in SD_DISKS, s \in SD_STRINGS : u = dp_serial_mask_add(t, d, s)
      BY <1>1 DEF SdAfter
    <2>2. SerialInv(u)
      BY <1>1, <2>1, SerialAdded DEF GoodTable
    <2> QED BY <1>1, <2>2 DEF GoodTable, SerialInv
  <1>2. CASE m = "label"
    <2>1. PICK d \in SD_DISKS, p \in SD_PARTS, s \in SD_STRINGS : u = dp_label_enc_add(t, d, p, s)
      BY <1>2 DEF SdAfter
    <2>2. LabelInv(u)
      BY <1>2, <2>1, LabelAdded DEF GoodTable
    <2> QED BY <1>2, <2>2 DEF GoodTable, LabelInv
  <1>3. CASE m = "uuid"
    <2>1. PICK d \in SD_DISKS, p \in SD_PARTS, s \in SdUuids : u = dp_uuid_encrypt_add(t, d, p, s)
      BY <1>3 DEF SdAfter
    <2>2. UuidInv(u)
      BY <1>3, <2>1, UuidAdded DEF GoodTable
    <2> QED BY <1>3, <2>2 DEF GoodTable, UuidInv
  <1>4. CASE m = "clone"
    <2>1. PICK d \in SD_DISKS, e \in SD_DISKS, s \in SdUuids : u = dp_uuid_clone_add(t, d, e, s)
      BY <1>4 DEF SdAfter
    <2>2. PICK x : u = SdAdd(t, x)
      BY <2>1 DEF dp_uuid_clone_add
    <2>3. TableShape(u)
      BY <1>0, <2>2, EntryAdded DEF Grown
    <2> QED BY <1>4, <2>3 DEF GoodTable
  <1>5. CASE m = "model"
    <2>1. PICK d \in SD_DISKS, s \in SD_STRINGS : u = dp_model_spoof_add(t, d, s) \/ u = dp_model_spoof_spoof(t, d, s)
      BY <1>5 DEF SdAfter
    <2>2. ModelInv(u)
      BY <1>5, <2>1, ModelAdded, ModelSpoofed DEF GoodTable
    <2> QED BY <1>5, <2>2 DEF GoodTable, ModelInv, Entries
  <1>6. CASE m = "fs"
    <2>1. PICK d \in SD_DISKS, p \in SD_PARTS, i \in DOMAIN SD_FSTYPES : u = dp_fs_hide_add(t, d, p, SD_FSTYPES[i]) \/ u = dp_fs_hide_spoof(t, d, p, SD_FSTYPES[i])
      BY <1>6 DEF SdAfter
    <2>2. FsInv(u)
      BY <1>6, <2>1, FsAdded, FsSpoofed DEF GoodTable
    <2> QED BY <1>6, <2>2 DEF GoodTable, FsInv, Entries
  <1>7. CASE m = "size"
    <2>1. PICK d \in SD_DISKS, n \in SD_SIZES, x \in SD_RANDOM : u = dp_size_obfs_add(t, d, n, x)
      BY <1>7 DEF SdAfter
    <2>2. SizeInv(u)
      BY <1>7, <2>1, SizeAdded DEF GoodTable
    <2> QED BY <1>7, <2>2 DEF GoodTable, SizeInv
  <1>8. CASE m = "lba"
    <2>1. PICK d \in SD_DISKS, h, l \in {{}, {<<"a", 0>>}} : u = dp_lba_scramble_add(t, d, <<h, l>>)
      BY <1>8 DEF SdAfter
    <2>2. PICK b : b = <<h, l>>
      OBVIOUS
    <2>2a. IsPair(b)
      BY <2>2 DEF IsPair
    <2>3. LbaInv(u)
      BY <1>8, <2>1, <2>2, <2>2a, LbaAdded DEF GoodTable
    <2> QED BY <1>8, <2>3 DEF GoodTable, LbaInv
  <1>9. CASE m = "mask"
    <2>1. PICK d \in SD_DISKS, s \in SdUuids : u = dp_mbr_gpt_mask_add(t, d, s)
      BY <1>9 DEF SdAfter
    <2>2. SignInv(u)
      BY <1>9, <2>1, SignAdded DEF GoodTable
    <2> QED BY <1>9, <2>2 DEF GoodTable, SignInv
  <1> QED BY <1>1, <1>2, <1>3, <1>4, <1>5, <1>6, <1>7, <1>8, <1>9 DEF TableNames

LEMMA TablesStep == TablesInv /\ (\E m \in DOMAIN sd_tab : dp_call(m)) => TablesInv'
  <1> SUFFICES ASSUME TablesInv, NEW m \in DOMAIN sd_tab, dp_call(m) PROVE TablesInv'
    OBVIOUS
  <1>1. m \in TableNames
    BY DEF TablesInv
  <1>2. PICK u \in SdAfter(m, sd_tab[m]) \cup {dp_init(k) : k \in SD_KEYS} \cup {SdEmpty} : sd_tab' = [sd_tab EXCEPT ![m] = u]
    BY DEF dp_call
  <1>3. GoodTable(m, u)
    <2>1. CASE u \in SdAfter(m, sd_tab[m])
      BY <1>1, <2>1, TableAfter DEF TablesInv
    <2>2. CASE u \in {dp_init(k) : k \in SD_KEYS} \cup {SdEmpty}
      <3>1. TableShape(u) /\ Len(u.list) = 0
        BY <2>2, EmptyShape
      <3>2. u.armed => u.key \in SD_KEYS
        BY <2>2 DEF dp_init, SdEmpty
      <3> QED BY <3>1, <3>2, FreshTable
    <2> QED BY <1>2, <2>1, <2>2
  <1>4. PICK f : f = sd_tab'
    OBVIOUS
  <1>5. f = [n \in TableNames |-> f[n]] /\ f[m] = u /\ \A n \in TableNames : n # m => f[n] = sd_tab[n]
    BY <1>1, <1>2, <1>4 DEF TablesInv
  <1>6. \A n \in TableNames : GoodTable(n, f[n])
    <2>1. ASSUME NEW n \in TableNames PROVE GoodTable(n, f[n])
      <3>1. CASE n = m
        BY <1>3, <1>5, <3>1
      <3>2. CASE n # m
        BY <1>5, <3>2 DEF TablesInv
      <3> QED BY <3>1, <3>2
    <2> QED BY <2>1
  <1> QED BY <1>4, <1>5, <1>6 DEF TablesInv

LEMMA TablesFresh == sd_tab = SdTables => TablesInv
  <1> SUFFICES ASSUME sd_tab = SdTables PROVE TablesInv
    OBVIOUS
  <1>1. PICK e : e = SdEmpty
    OBVIOUS
  <1>2. SdTables = [m \in TableNames |-> e]
    <2>1. SdTables = [ serial |-> e, label |-> e, uuid |-> e, clone |-> e, model |-> e, fs |-> e, size |-> e, lba |-> e, mask |-> e ]
      BY <1>1 DEF SdTables
    <2> QED BY <2>1 DEF TableNames
  <1>3. TableShape(e) /\ Len(e.list) = 0 /\ ~e.armed
    BY <1>1, EmptyShape DEF SdEmpty
  <1>4. \A m \in TableNames : GoodTable(m, e)
    BY <1>3, FreshTable
  <1> QED BY <1>2, <1>4 DEF TablesInv

LEMMA TablesAgree == TablesInv => TablesResolve
  <1> SUFFICES ASSUME TablesInv PROVE TablesResolve
    OBVIOUS
  <1>0. \A m \in TableNames : GoodTable(m, sd_tab[m])
    BY DEF TablesInv
  <1>d. \A m \in TableNames : DOMAIN sd_tab[m].list = 1 .. Len(sd_tab[m].list) /\ TableShape(sd_tab[m])
    BY <1>0, ListLength DEF GoodTable, TableShape
  <1>n. "serial" \in TableNames /\ "label" \in TableNames /\ "uuid" \in TableNames /\ "clone" \in TableNames /\ "model" \in TableNames
        /\ "fs" \in TableNames /\ "size" \in TableNames /\ "lba" \in TableNames /\ "mask" \in TableNames
    BY DEF TableNames
  <1>1. LET t == sd_tab.serial IN \A i \in DOMAIN t.list :
          SdUnmistaken(t, i) => dp_serial_mask_get_real(t, t.list[i].hid) = <<SdCut(t.list[i].real, (SD_STR_LEN \div 2) - 1)>>
    <2>1. PICK t : t = sd_tab.serial
      OBVIOUS
    <2>2. SerialInv(t) /\ DOMAIN t.list = 1 .. Len(t.list)
      BY <1>0, <1>d, <1>n, <2>1 DEF GoodTable
    <2> QED BY <2>1, <2>2, SerialResolves
  <1>2. LET t == sd_tab.label IN
          (\A i \in DOMAIN t.list : \A j \in DOMAIN t.list[i].hid : t.list[i].hid[j] # {}) =>
            \A i \in DOMAIN t.list : LET e == t.list[i] IN
              /\ SdLeads(t, i) => dp_label_enc_get_enc(t, e.disk, e.part) = <<e.hid>>
              /\ SdUnmistaken(t, i) => dp_label_enc_get_real(t, e.hid) = <<e.real>>
    <2>1. PICK t : t = sd_tab.label
      OBVIOUS
    <2>2. LabelInv(t) /\ DOMAIN t.list = 1 .. Len(t.list)
      BY <1>0, <1>d, <1>n, <2>1 DEF GoodTable
    <2>3. ASSUME \A i \in 1 .. Len(t.list) : \A j \in DOMAIN t.list[i].hid : t.list[i].hid[j] # {}, NEW i \in 1 .. Len(t.list)
          PROVE  /\ SdLeads(t, i) => dp_label_enc_get_enc(t, t.list[i].disk, t.list[i].part) = <<t.list[i].hid>>
                 /\ SdUnmistaken(t, i) => dp_label_enc_get_real(t, t.list[i].hid) = <<t.list[i].real>>
      BY <2>2, <2>3, LabelShown, LabelResolves
    <2> QED BY <2>1, <2>2, <2>3
  <1>3. LET t == sd_tab.uuid IN \A i \in DOMAIN t.list :
          /\ SdAlone(t, i)
          /\ dp_uuid_encrypt_get_real(t, dp_uuid_encrypt_get_enc(t, t.list[i].real)[1].hid)[1].real = t.list[i].real
    <2>1. PICK t : t = sd_tab.uuid
      OBVIOUS
    <2>2. UuidInv(t) /\ DOMAIN t.list = 1 .. Len(t.list) /\ Len(t.list) \in Nat
      BY <1>0, <1>d, <1>n, <2>1, ListLength DEF GoodTable, TableShape
    <2>3. ASSUME NEW i \in 1 .. Len(t.list) PROVE SdAlone(t, i)
      <3>1. ASSUME NEW j \in 1 .. i - 1, t.list[j].hid = t.list[i].hid PROVE FALSE
        <4>1. j \in 1 .. Len(t.list) /\ j # i
          BY <2>2
        <4> QED BY <2>2, <3>1, <4>1, UuidsApart
      <3> QED BY <3>1 DEF SdAlone
    <2> QED BY <2>1, <2>2, <2>3, UuidResolves
  <1>4. LET t == sd_tab.clone IN \A i \in DOMAIN t.list :
          (\A j \in 1 .. i - 1 : t.list[j].disk # t.list[i].disk) => dp_uuid_clone_resolve(t, t.list[i].disk) = <<t.list[i]>>
    <2>1. PICK t : t = sd_tab.clone
      OBVIOUS
    <2>2. TableShape(t) /\ DOMAIN t.list = 1 .. Len(t.list)
      BY <1>d, <1>n, <2>1
    <2> QED BY <2>1, <2>2, CloneResolves
  <1>5. LET t == sd_tab.model IN \A i \in DOMAIN t.list : SdLeads(t, i) =>
          (dp_model_spoof_get_real(t, dp_model_spoof_get(t, t.list[i].disk)[1].hid) = <<t.list[i]>> <=> SdAlone(t, i))
    <2>1. PICK t : t = sd_tab.model
      OBVIOUS
    <2>2. ModelInv(t) /\ DOMAIN t.list = 1 .. Len(t.list)
      BY <1>0, <1>d, <1>n, <2>1 DEF GoodTable
    <2> QED BY <2>1, <2>2, ModelResolves
  <1>6. LET t == sd_tab.fs IN
          (\A i \in DOMAIN t.list : t.list[i].hid = fs_spoof_lookup(t.list[i].real)) =>
            \A i \in DOMAIN t.list : SdFirst(t, SdHiddenAs(t, t.list[i].hid))[1].real = t.list[i].real
    <2>1. PICK t : t = sd_tab.fs
      OBVIOUS
    <2>2. FsInv(t) /\ DOMAIN t.list = 1 .. Len(t.list)
      BY <1>0, <1>d, <1>n, <2>1 DEF GoodTable
    <2> QED BY <2>1, <2>2, FsResolves
  <1>7. LET t == sd_tab.size IN \A i \in DOMAIN t.list :
          /\ dp_size_obfs_resolve(t, t.list[i].disk, t.list[i].hid)[1].real = t.list[i].real
          /\ t.list[i].real > 10 => t.list[i].hid \in t.list[i].real - (t.list[i].real \div 10) .. t.list[i].real + (t.list[i].real \div 10)
    <2>1. PICK t : t = sd_tab.size
      OBVIOUS
    <2>2. SizeInv(t) /\ DOMAIN t.list = 1 .. Len(t.list)
      BY <1>0, <1>d, <1>n, <2>1 DEF GoodTable
    <2> QED BY <2>1, <2>2, SizeResolves
  <1>8. LET t == sd_tab.lba IN \A i \in DOMAIN t.list : LET e == t.list[i] IN
          /\ dp_lba_scramble_resolve(t, e.disk, dp_lba_scramble_get(t, e.disk, e.real)[1].hid)[1].real = e.real
          /\ \A j \in DOMAIN t.list : t.list[j].disk = e.disk /\ t.list[j].real = e.real => i = j
    <2>1. PICK t : t = sd_tab.lba
      OBVIOUS
    <2>2. LbaInv(t) /\ DOMAIN t.list = 1 .. Len(t.list)
      BY <1>0, <1>d, <1>n, <2>1 DEF GoodTable
    <2>3. ASSUME NEW i \in 1 .. Len(t.list)
          PROVE  LET e == t.list[i] IN
                 /\ dp_lba_scramble_resolve(t, e.disk, dp_lba_scramble_get(t, e.disk, e.real)[1].hid)[1].real = e.real
                 /\ \A j \in 1 .. Len(t.list) : t.list[j].disk = e.disk /\ t.list[j].real = e.real => i = j
      <3>1. PICK e : e = t.list[i]
        OBVIOUS
      <3>2. /\ dp_lba_scramble_resolve(t, e.disk, dp_lba_scramble_get(t, e.disk, e.real)[1].hid)[1].real = e.real
            /\ \A j \in 1 .. Len(t.list) : t.list[j].disk = e.disk /\ t.list[j].real = e.real => i = j
        BY <2>2, <3>1, LbaResolves
      <3> QED BY <3>1, <3>2
    <2> QED BY <2>1, <2>2, <2>3
  <1>9. LET t == sd_tab.mask IN \A i \in DOMAIN t.list : LET e == t.list[i] IN
          dp_mbr_gpt_mask_resolve(t, e.hid) = <<e>> <=> \A j \in DOMAIN t.list : t.list[j].hid = e.hid => e.disk <= t.list[j].disk
    <2>1. PICK t : t = sd_tab.mask
      OBVIOUS
    <2>2. SignInv(t) /\ DOMAIN t.list = 1 .. Len(t.list)
      BY <1>0, <1>d, <1>n, <2>1 DEF GoodTable
    <2>3. ASSUME NEW i \in 1 .. Len(t.list)
          PROVE  dp_mbr_gpt_mask_resolve(t, t.list[i].hid) = <<t.list[i]>> <=> \A j \in 1 .. Len(t.list) : t.list[j].hid = t.list[i].hid => t.list[i].disk <= t.list[j].disk
      BY <2>2, SignResolves
    <2> QED BY <2>1, <2>2, <2>3
  <1> QED BY <1>1, <1>2, <1>3, <1>4, <1>5, <1>6, <1>7, <1>8, <1>9 DEF TablesResolve

----------------------------------------------------------------------------
(* disk_encrypt: the randomizer, the fingerprint and the LUKS header. *)
UuidMapInv ==
  /\ sd_map = [key |-> sd_map.key, list |-> sd_map.list] /\ IsList(sd_map.list)
  /\ \A i \in 1 .. Len(sd_map.list) : sd_map.list[i] = [original |-> sd_map.list[i].original, randomized |-> <<sd_map.key, i - 1>>]
FingerInv ==
  /\ sd_fp = [key |-> sd_fp.key, boots |-> sd_fp.boots, cur |-> sd_fp.cur, prev |-> sd_fp.prev]
  /\ sd_fp.key \in Nat /\ sd_fp.boots \in Nat
  /\ sd_fp.key > 0 => sd_fp.cur = derive_fingerprint(sd_fp.key, sd_fp.boots)
  /\ sd_fp.boots > 0 => sd_fp.prev = derive_fingerprint(sd_fp.key, sd_fp.boots - 1)
LuksOK(l) ==
  /\ l = [sector |-> l.sector, size |-> l.size, magic |-> l.magic, hidden |-> l.hidden, shown |-> l.shown, was |-> l.was]
  /\ IsList(l.sector) /\ Len(l.sector) = 8 /\ l.hidden \in BOOLEAN
  /\ l.hidden => IsList(l.magic) /\ Len(l.magic) = 6
  /\ l.was # <<>> => l.hidden /\ l.magic = l.was
  /\ l.shown /\ l.was # <<>> => SubSeq(l.sector, 1, 6) = l.was

LEMMA UuidMapStep ==
  ASSUME UuidMapInv, sd_map' = disk_uuid_random_rotate(sd_map) \/ \E s \in SdUuids : sd_map' = disk_uuid_randomize(sd_map, s)
  PROVE  UuidMapInv'
  <1>1. PICK k, l, n : sd_map = [key |-> k, list |-> l] /\ k = sd_map.key /\ l = sd_map.list /\ n = Len(l) /\ IsList(l)
    BY DEF UuidMapInv
  <1>2. n \in Nat /\ DOMAIN l = 1 .. n
    BY <1>1, ListLength
  <1>3. \A i \in 1 .. n : l[i] = [original |-> l[i].original, randomized |-> <<k, i - 1>>]
    BY <1>1 DEF UuidMapInv
  <1>4. CASE sd_map' = disk_uuid_random_rotate(sd_map)
    <2>1. PICK k1 : k1 = k + 1
      OBVIOUS
    <2>2. PICK g : g = [i \in 1 .. n |-> [original |-> l[i].original, randomized |-> <<k1, i - 1>>]]
      OBVIOUS
    <2>3. \A i \in 1 .. n : [l[i] EXCEPT !.randomized = <<k1, i - 1>>] = [original |-> l[i].original, randomized |-> <<k1, i - 1>>]
      <3>1. ASSUME NEW i \in 1 .. n PROVE [l[i] EXCEPT !.randomized = <<k1, i - 1>>] = [original |-> l[i].original, randomized |-> <<k1, i - 1>>]
        <4>1. PICK x, a, b, c : x = l[i] /\ a = x.original /\ b = <<k1, i - 1>> /\ c = <<k, i - 1>>
          OBVIOUS
        <4>2. x = [original |-> a, randomized |-> c]
          BY <1>3, <4>1
        <4>3. [x EXCEPT !.randomized = b] = [original |-> a, randomized |-> b]
          BY <4>2
        <4> QED BY <4>1, <4>3
      <3> QED BY <3>1
    <2>4. [i \in DOMAIN l |-> [l[i] EXCEPT !.randomized = <<k1, i - 1>>]] = g
      BY <1>2, <2>2, <2>3, Zenon
    <2>5. disk_uuid_random_rotate(sd_map) = [sd_map EXCEPT !.key = k1, !.list = g]
      BY <1>1, <2>1, <2>4 DEF disk_uuid_random_rotate, randomize_uuid
    <2>6. sd_map' = [key |-> k1, list |-> g]
      BY <1>1, <1>4, <2>5
    <2>7. IsList(g) /\ Len(g) = n
      <3>1. PICK R : R = {g[i] : i \in 1 .. n}
        OBVIOUS
      <3>2. g \in [1 .. n -> R]
        BY <2>2, <3>1
      <3>3. g \in Seq(R) /\ Len(g) = n
        BY <1>2, <3>2, SeqDef, LenProperties
      <3> QED BY <3>3 DEF IsList
    <2>8. \A i \in 1 .. n : g[i] = [original |-> g[i].original, randomized |-> <<k1, i - 1>>]
      BY <2>2
    <2> QED BY <2>6, <2>7, <2>8 DEF UuidMapInv
  <1>5. ASSUME NEW s \in SdUuids, sd_map' = disk_uuid_randomize(sd_map, s) PROVE UuidMapInv'
    <2>1. CASE n >= SD_TABLE
      <3>1. sd_map' = sd_map
        BY <1>1, <1>5, <2>1 DEF disk_uuid_randomize
      <3> QED BY <3>1 DEF UuidMapInv
    <2>2. CASE ~(n >= SD_TABLE)
      <3>1. PICK e : e = [original |-> s, randomized |-> <<k, n>>]
        OBVIOUS
      <3>2. PICK g : g = Append(l, e)
        OBVIOUS
      <3>3. IsList(g) /\ Len(g) = n + 1 /\ (\A i \in 1 .. n : g[i] = l[i]) /\ g[n + 1] = e
        BY <1>1, <3>2, ListAppended
      <3>4. sd_map' = [key |-> k, list |-> g]
        <4>1. disk_uuid_randomize(sd_map, s) = [sd_map EXCEPT !.list = g]
          BY <1>1, <2>2, <3>1, <3>2 DEF disk_uuid_randomize, randomize_uuid
        <4> QED BY <1>1, <1>5, <4>1
      <3>5. ASSUME NEW i \in 1 .. n + 1 PROVE g[i] = [original |-> g[i].original, randomized |-> <<k, i - 1>>]
        <4>1. CASE i = n + 1
          <5>1. i - 1 = n /\ g[i] = e
            BY <1>2, <3>3, <4>1
          <5> QED BY <3>1, <5>1
        <4>2. CASE i \in 1 .. n
          BY <1>3, <3>3, <4>2
        <4> QED BY <1>2, <4>1, <4>2
      <3> QED BY <3>3, <3>4, <3>5 DEF UuidMapInv
    <2> QED BY <2>1, <2>2
  <1> QED BY <1>4, <1>5

LEMMA UuidMapRestores ==
  ASSUME UuidMapInv
  PROVE  \A i \in DOMAIN sd_map.list : disk_uuid_restore(sd_map, sd_map.list[i].randomized) = <<sd_map.list[i].original>>
  <1>1. PICK k, l, n : k = sd_map.key /\ l = sd_map.list /\ n = Len(l) /\ IsList(l)
    BY DEF UuidMapInv
  <1>2. n \in Nat /\ DOMAIN l = 1 .. n
    BY <1>1, ListLength
  <1>3. \A i \in 1 .. n : l[i] = [original |-> l[i].original, randomized |-> <<k, i - 1>>]
    BY <1>1 DEF UuidMapInv
  <1>4. ASSUME NEW i \in 1 .. n PROVE disk_uuid_restore(sd_map, l[i].randomized) = <<l[i].original>>
    <2>1. \A j \in 1 .. n : l[j].randomized = <<k, j - 1>>
      <3>1. ASSUME NEW j \in 1 .. n PROVE l[j].randomized = <<k, j - 1>>
        <4>1. PICK x, a, c : x = l[j] /\ a = x.original /\ c = <<k, j - 1>>
          OBVIOUS
        <4>2. x = [original |-> a, randomized |-> c]
          BY <1>3, <4>1
        <4>3. x.randomized = c
          BY <4>2
        <4> QED BY <4>1, <4>3
      <3> QED BY <3>1
    <2>2. \A j \in 1 .. n : l[j].randomized = l[i].randomized => j = i
      BY <1>2, <2>1
    <2>3. {j \in DOMAIN l : l[j].randomized = l[i].randomized} = {i}
      BY <1>2, <2>2
    <2>4. LowestOf({i}) = i
      <3>1. LowestOf({i}) \in {i}
        BY <1>2, LowestFound
      <3> QED BY <3>1
    <2> QED BY <1>1, <2>3, <2>4 DEF disk_uuid_restore
  <1> QED BY <1>1, <1>2, <1>4

LEMMA FingerStep ==
  ASSUME FingerInv, (\E b \in 0 .. 1 : sd_fp' = disk_fingerprint_init(sd_fp, b)) \/ (sd_fp.key > 0 /\ sd_fp' = disk_fingerprint_rotate(sd_fp))
  PROVE  FingerInv'
  <1>1. PICK k, n, c, p : sd_fp = [key |-> k, boots |-> n, cur |-> c, prev |-> p] /\ k = sd_fp.key /\ n = sd_fp.boots /\ c = sd_fp.cur /\ p = sd_fp.prev
    BY DEF FingerInv
  <1>2. k \in Nat /\ n \in Nat /\ (k > 0 => c = derive_fingerprint(k, n))
    BY <1>1 DEF FingerInv
  <1>3. PICK f : f = sd_fp'
    OBVIOUS
  <1>4. CASE sd_fp.key > 0 /\ f = disk_fingerprint_rotate(sd_fp)
    <2>1. PICK m, d : m = n + 1 /\ d = derive_fingerprint(k, m)
      OBVIOUS
    <2>2. f = [key |-> k, boots |-> m, cur |-> d, prev |-> c]
      <3>1. f = [sd_fp EXCEPT !.boots = m, !.prev = c, !.cur = d]
        BY <1>1, <1>4, <2>1 DEF disk_fingerprint_rotate
      <3> QED BY <1>1, <3>1
    <2>3. m \in Nat /\ m - 1 = n /\ c = derive_fingerprint(k, n)
      BY <1>1, <1>2, <1>4, <2>1
    <2>4. f.key = k /\ f.boots = m /\ f.cur = d /\ f.prev = c
      BY <2>2
    <2>5. f.prev = derive_fingerprint(f.key, f.boots - 1)
      BY <2>3, <2>4
    <2> QED BY <1>2, <1>3, <2>1, <2>2, <2>3, <2>4, <2>5 DEF FingerInv
  <1>5. ASSUME NEW b \in 0 .. 1, f = disk_fingerprint_init(sd_fp, b) PROVE FingerInv'
    <2>1. PICK k1, d, q : k1 = k + 1 /\ d = derive_fingerprint(k1, b) /\ q = IF b > 0 THEN derive_fingerprint(k1, b - 1) ELSE p
      OBVIOUS
    <2>2. f = [key |-> k1, boots |-> b, cur |-> d, prev |-> q]
      BY <1>1, <1>5, <2>1 DEF disk_fingerprint_init
    <2>3. f.key = k1 /\ f.boots = b /\ f.cur = d /\ f.prev = q
      BY <2>2
    <2>4. k1 \in Nat /\ b \in Nat
      BY <1>2, <2>1
    <2> QED BY <1>3, <2>1, <2>2, <2>3, <2>4 DEF FingerInv
  <1> QED BY <1>3, <1>4, <1>5


Continues(S, s, t, u) == u \in Seq(S) /\ Len(u) = Len(s) + Len(t) /\ \A i \in 1 .. Len(s) : u[i] = s[i]
LEMMA ContinuedAs == ASSUME NEW S, NEW s \in Seq(S), NEW t \in Seq(S), NEW u, u = s \o t PROVE Continues(S, s, t, u)
  BY Joined DEF Continues
LEMMA HeadKept ==
  ASSUME NEW m, IsList(m), Len(m) = 6, NEW s, IsList(s), Len(s) = 8, NEW g, g = m \o SubSeq(s, 7, 8)
  PROVE  IsList(g) /\ Len(g) = 8 /\ SubSeq(g, 1, 6) = m
  <1>1. PICK S : m \in Seq(S) /\ s \in Seq(S)
    <2> DEFINE S == {m[i] : i \in 1 .. Len(m)} \cup {s[i] : i \in 1 .. Len(s)}
    <2>1. m \in Seq(S) /\ s \in Seq(S)
      BY ListWithin
    <2> QED BY <2>1
  <1>2. PICK t : t = SubSeq(s, 7, 8)
    OBVIOUS
  <1>3. t \in Seq(S) /\ Len(t) = 2
    <2>1. \A i \in 7 .. 8 : s[i] \in S
      <3>1. s \in [1 .. 8 -> S]
        BY <1>1, LenProperties
      <3> QED BY <3>1
    <2>2. SubSeq(s, 7, 8) \in Seq(S)
      BY <2>1, SubSeqProperties
    <2>3. Len(SubSeq(s, 7, 8)) = 2
      <3>1. PICK a, b : a = 7 /\ b = 8
        OBVIOUS
      <3>2. Len(SubSeq(s, a, b)) = IF a <= b THEN b - a + 1 ELSE 0
        BY <2>1, <3>1, SubSeqProperties
      <3> QED BY <3>1, <3>2
    <2> QED BY <1>2, <2>2, <2>3
  <1>4. PICK x : x = m \o t /\ x = g
    BY <1>2
  <1>5. g \in Seq(S) /\ Len(g) = 8 /\ \A i \in 1 .. 6 : g[i] = m[i]
    <2>1. m \in Seq(S) /\ t \in Seq(S) /\ x = m \o t
      BY <1>1, <1>3, <1>4
    <2>2. Continues(S, m, t, x)
      BY <2>1, ContinuedAs
    <2> QED BY <1>3, <1>4, <2>2 DEF Continues
  <1>6. PICK h : h = SubSeq(g, 1, 6)
    OBVIOUS
  <1>7. h \in Seq(S) /\ Len(h) = 6 /\ \A i \in 1 .. 6 : h[i] = g[i]
    BY <1>5, <1>6, SubSeqProperties
  <1>8. h = m
    BY <1>1, <1>5, <1>7, SeqEqual
  <1> QED BY <1>5, <1>6, <1>8 DEF IsList

LEMMA EightLong == ASSUME NEW f, f = [i \in 1 .. 8 |-> f[i]] PROVE IsList(f) /\ Len(f) = 8
  <1>1. f \in [1 .. 8 -> {f[i] : i \in 1 .. 8}]
    OBVIOUS
  <1>2. f \in Seq({f[i] : i \in 1 .. 8}) /\ Len(f) = 8
    BY <1>1
  <1> QED BY <1>2 DEF IsList

LEMMA HeaderHidden ==
  ASSUME NEW l, LuksOK(l), NEW pick
  PROVE  LuksOK(disk_luks_hide_header(l, pick))
  <1>1. PICK u : u = disk_luks_hide_header(l, pick)
    OBVIOUS
  <1>2. CASE u = l
    BY <1>1, <1>2
  <1>3. CASE ~(u = l)
    <2>1. PICK m, g : m = SubSeq(l.sector, 1, 6) /\ g = [i \in 1 .. 8 |-> IF i <= pick THEN <<"fake", pick>> ELSE l.sector[i]]
      OBVIOUS
    <2>2. IsList(g) /\ Len(g) = 8
      <3>1. g = [i \in 1 .. 8 |-> g[i]]
        BY <2>1
      <3> QED BY <3>1, EightLong
    <2>3. IsList(m) /\ Len(m) = 6
      <3>1. PICK S : l.sector \in Seq(S) /\ Len(l.sector) = 8
        BY DEF LuksOK, IsList
      <3>2. m \in Seq(S) /\ Len(m) = 6
        BY <2>1, <3>1, SubSeqProperties
      <3> QED BY <3>2 DEF IsList
    <2>4. u = [l EXCEPT !.hidden = TRUE, !.magic = m, !.shown = FALSE, !.was = m, !.sector = g]
      BY <1>1, <1>3, <2>1 DEF disk_luks_hide_header
    <2>5. u = [sector |-> g, size |-> l.size, magic |-> m, hidden |-> TRUE, shown |-> FALSE, was |-> m]
      <3>1. PICK a, b, c, d, e, f : l = [sector |-> a, size |-> b, magic |-> c, hidden |-> d, shown |-> e, was |-> f]
        BY DEF LuksOK
      <3> QED BY <2>4, <3>1
    <2>6. u.sector = g /\ u.size = l.size /\ u.magic = m /\ u.hidden /\ ~u.shown /\ u.was = m /\ u.hidden = TRUE /\ u.shown = FALSE
      BY <2>5
    <2> QED BY <1>1, <2>2, <2>3, <2>5, <2>6 DEF LuksOK
  <1> QED BY <1>2, <1>3

LEMMA HeaderRevealed == ASSUME NEW l, LuksOK(l) PROVE LuksOK(disk_luks_reveal_header(l))
  <1>1. PICK u : u = disk_luks_reveal_header(l)
    OBVIOUS
  <1>2. CASE ~l.hidden
    BY <1>1, <1>2 DEF disk_luks_reveal_header
  <1>3. CASE l.hidden
    <2>1. PICK g : g = l.magic \o SubSeq(l.sector, 7, 8)
      OBVIOUS
    <2>2. IsList(g) /\ Len(g) = 8 /\ SubSeq(g, 1, 6) = l.magic
      <3>1. IsList(l.magic) /\ Len(l.magic) = 6 /\ IsList(l.sector) /\ Len(l.sector) = 8
        BY <1>3 DEF LuksOK
      <3> QED BY <2>1, <3>1, HeadKept
    <2>3. u = [l EXCEPT !.sector = g, !.shown = TRUE]
      BY <1>1, <1>3, <2>1 DEF disk_luks_reveal_header
    <2>4. u = [sector |-> g, size |-> l.size, magic |-> l.magic, hidden |-> l.hidden, shown |-> TRUE, was |-> l.was]
      <3>1. PICK a, b, c, d, e, f : l = [sector |-> a, size |-> b, magic |-> c, hidden |-> d, shown |-> e, was |-> f]
        BY DEF LuksOK
      <3> QED BY <2>3, <3>1
    <2>5. u.sector = g /\ u.size = l.size /\ u.magic = l.magic /\ u.hidden = l.hidden /\ u.shown = TRUE /\ u.was = l.was
      BY <2>4
    <2>6. (l.was # <<>> => l.hidden /\ l.magic = l.was) /\ (l.hidden => IsList(l.magic) /\ Len(l.magic) = 6)
      BY DEF LuksOK
    <2> QED BY <1>1, <2>2, <2>4, <2>5, <2>6 DEF LuksOK
  <1> QED BY <1>2, <1>3

LEMMA SectorNew ==
  ASSUME NEW first, NEW size, NEW l, l = NewSector(first, size)
  PROVE  /\ LuksOK(l)
         /\ \E g, e : IsList(g) /\ Len(g) = 8 /\ e = <<>> /\ l = [sector |-> g, size |-> size, magic |-> e, hidden |-> FALSE, shown |-> FALSE, was |-> e]
  <1>1. PICK g : g = [i \in 1 .. 8 |-> <<first, i>>]
    OBVIOUS
  <1>2. IsList(g) /\ Len(g) = 8
    <2>1. g = [i \in 1 .. 8 |-> g[i]]
      BY <1>1
    <2> QED BY <2>1, EightLong
  <1>3. PICK e : e = <<>>
    OBVIOUS
  <1>4. l = [sector |-> g, size |-> size, magic |-> e, hidden |-> FALSE, shown |-> FALSE, was |-> e]
    BY <1>1, <1>3 DEF NewSector
  <1>5. LuksOK(l)
    BY <1>2, <1>3, <1>4 DEF LuksOK
  <1> QED BY <1>2, <1>3, <1>4, <1>5

NextSector(u, first, size, h, m) == u = [NewSector(first, size) EXCEPT !.hidden = h, !.magic = m]
LEMMA SectorFresh ==
  ASSUME NEW first, NEW size, NEW h \in BOOLEAN, NEW m, h => IsList(m) /\ Len(m) = 6, NEW u, NextSector(u, first, size, h, m)
  PROVE  LuksOK(u)
  <1>1. PICK l : l = NewSector(first, size)
    OBVIOUS
  <1>2. PICK g, e : IsList(g) /\ Len(g) = 8 /\ e = <<>> /\ l = [sector |-> g, size |-> size, magic |-> e, hidden |-> FALSE, shown |-> FALSE, was |-> e]
    BY <1>1, SectorNew
  <1>3. PICK v : v = [l EXCEPT !.hidden = h, !.magic = m] /\ v = u
    BY <1>1 DEF NextSector
  <1>4. v = [sector |-> g, size |-> size, magic |-> m, hidden |-> h, shown |-> FALSE, was |-> e]
    BY <1>2, <1>3
  <1>5. v.sector = g /\ v.size = size /\ v.magic = m /\ v.hidden = h /\ v.shown = FALSE /\ v.was = e
    BY <1>4
  <1>6. LuksOK(v)
    BY <1>2, <1>4, <1>5 DEF LuksOK
  <1> QED BY <1>3, <1>6

DiskStateInv == UuidMapInv /\ FingerInv /\ LuksOK(sd_luks)
LEMMA StateMeans == DiskStateInv => StateRestores
  <1> SUFFICES ASSUME DiskStateInv PROVE StateRestores
    OBVIOUS
  <1>1. \A i \in DOMAIN sd_map.list : disk_uuid_restore(sd_map, sd_map.list[i].randomized) = <<sd_map.list[i].original>>
    BY UuidMapRestores DEF DiskStateInv
  <1>2. sd_fp.boots > 0 => sd_fp.prev = derive_fingerprint(sd_fp.key, sd_fp.boots - 1)
    BY DEF DiskStateInv, FingerInv
  <1>3. \A u : disk_fingerprint_revert_uuid(sd_fp, disk_fingerprint_apply_uuid(sd_fp, u)).body = u.body
    BY SdXorTwice DEF disk_fingerprint_revert_uuid, disk_fingerprint_apply_uuid
  <1>4. sd_luks.shown /\ sd_luks.was # <<>> => SubSeq(sd_luks.sector, 1, 6) = sd_luks.was
    BY DEF DiskStateInv, LuksOK
  <1> QED BY <1>1, <1>2, <1>3, <1>4 DEF StateRestores

----------------------------------------------------------------------------
(* What is scrambled is unscrambled. *)
LEMMA StreamUndone ==
  ASSUME NEW s, s = [i \in DOMAIN s |-> s[i]], NEW k, NEW e, e = [i \in DOMAIN s |-> SdXor(s[i], k[i])], NEW d, d = [i \in DOMAIN e |-> SdXor(e[i], k[i])]
  PROVE  d = s
  <1>1. \A i \in DOMAIN s : SdXor(e[i], k[i]) = s[i]
    BY SdXorTwice
  <1>2. d = [i \in DOMAIN s |-> SdXor(e[i], k[i])]
    OBVIOUS
  <1>3. d = [i \in DOMAIN s |-> s[i]]
    BY <1>1, <1>2
  <1> QED BY <1>3

LEMMA RoundUndone == ASSUME NEW h, IsPair(h), NEW r PROVE feistel_unround(feistel_round(h, r), r) = h
  <1>1. PICK k : k = SdXor(h[2], {<<"mbr", r>>})
    OBVIOUS
  <1>2. PICK f : f = <<h[2], SdXor(h[1], k)>>
    OBVIOUS
  <1>3. feistel_round(h, r) = f
    BY <1>1, <1>2 DEF feistel_round
  <1>4. feistel_unround(f, r) = <<SdXor(f[2], k), f[1]>>
    BY <1>1, <1>2 DEF feistel_unround
  <1>5. SdXor(f[2], k) = h[1] /\ f[1] = h[2]
    BY <1>2, SdXorTwice
  <1> QED BY <1>3, <1>4, <1>5 DEF IsPair

LEMMA RoundPair == ASSUME NEW h, NEW r PROVE IsPair(feistel_round(h, r))
  BY DEF IsPair, feistel_round

LEMMA FeistelUndone == ASSUME NEW h, IsPair(h) PROVE feistel_unscramble(feistel_scramble(h)) = h
  <1> DEFINE Two(x, r) == feistel_round(feistel_round(x, r), r + 1)
             Back(x, r) == feistel_unround(feistel_unround(x, r), r - 1)
  <1>1. ASSUME NEW x, IsPair(x), NEW r \in Nat PROVE Back(Two(x, r), r + 1) = x /\ IsPair(Two(x, r))
    <2>1. PICK n, y, z : n = r + 1 /\ y = feistel_round(x, r) /\ z = feistel_round(y, n)
      OBVIOUS
    <2>2. IsPair(y) /\ IsPair(z)
      BY <2>1, RoundPair
    <2>3. feistel_unround(z, n) = y /\ feistel_unround(y, r) = x
      BY <1>1, <2>1, <2>2, RoundUndone
    <2>4. n - 1 = r
      BY <2>1
    <2> QED BY <2>1, <2>2, <2>3, <2>4
  <1>2. feistel_scramble(h) = Two(Two(Two(Two(h, 1), 3), 5), 7)
    BY DEF feistel_scramble
  <1>3. \A v : feistel_unscramble(v) = Back(Back(Back(Back(v, 8), 6), 4), 2)
    BY DEF feistel_unscramble
  <1> HIDE DEF Two, Back
  <1>4. PICK a, b, c, d : a = Two(h, 1) /\ b = Two(a, 3) /\ c = Two(b, 5) /\ d = Two(c, 7)
    OBVIOUS
  <1>5. Back(a, 2) = h /\ IsPair(a)
    <2>1. Back(Two(h, 1), 1 + 1) = h /\ IsPair(Two(h, 1))
      BY <1>1
    <2> QED BY <1>4, <2>1
  <1>6. Back(b, 4) = a /\ IsPair(b)
    <2>1. Back(Two(a, 3), 3 + 1) = a /\ IsPair(Two(a, 3))
      BY <1>1, <1>5
    <2> QED BY <1>4, <2>1
  <1>7. Back(c, 6) = b /\ IsPair(c)
    <2>1. Back(Two(b, 5), 5 + 1) = b /\ IsPair(Two(b, 5))
      BY <1>1, <1>6
    <2> QED BY <1>4, <2>1
  <1>8. Back(d, 8) = c
    <2>1. Back(Two(c, 7), 7 + 1) = c
      BY <1>1, <1>7
    <2> QED BY <1>4, <2>1
  <1>9. feistel_scramble(h) = d
    BY <1>2, <1>4
  <1> QED BY <1>3, <1>5, <1>6, <1>7, <1>8, <1>9

LEMMA PartEntryUndone ==
  ASSUME NEW a, IsPair(a), NEW b, IsPair(b), NEW e, e = [type |-> 0, start |-> a, end |-> b]
  PROVE  disk_mbr_unscramble_part_entry(disk_mbr_part_entry(e)) = e
  <1>1. PICK x, y : x = feistel_scramble(a) /\ y = feistel_scramble(b)
    OBVIOUS
  <1>2. feistel_unscramble(x) = a /\ feistel_unscramble(y) = b
    BY <1>1, FeistelUndone
  <1>3. PICK f : f = disk_mbr_part_entry(e)
    OBVIOUS
  <1>4. f = [e EXCEPT !.start = x, !.end = y]
    BY <1>1, <1>3 DEF disk_mbr_part_entry
  <1>5. f = [type |-> 0, start |-> x, end |-> y]
    BY <1>4
  <1>6. disk_mbr_unscramble_part_entry(f) = [f EXCEPT !.start = a, !.end = b]
    BY <1>2, <1>5 DEF disk_mbr_unscramble_part_entry
  <1>7. [f EXCEPT !.start = a, !.end = b] = [type |-> 0, start |-> a, end |-> b]
    <2>1. PICK g : g = [f EXCEPT !.start = a]
      OBVIOUS
    <2>2. g = [type |-> 0, start |-> a, end |-> y]
      BY <1>5, <2>1
    <2>3. [g EXCEPT !.end = b] = [type |-> 0, start |-> a, end |-> b]
      BY <2>2
    <2> QED BY <2>1, <2>3
  <1> QED BY <1>3, <1>6, <1>7

LEMMA WordsTurned ==
  ASSUME NEW a, NEW b, NEW s, s = <<a, b>>, NEW w, w = <<s>>
  PROVE  unscramble_words(scramble_words(w)) = << <<b, a>> >>
  <1>1. PICK k, l : k = {<<"ks", 0>>} /\ l = {<<"ks", 1>>}
    OBVIOUS
  <1>2. DOMAIN w = {1} /\ w[1] = s /\ s[1] = a /\ s[2] = b
    OBVIOUS
  <1>3. (2 * (1 - 1)) % 32 = 0 /\ (2 * 1 - 1) % 32 = 1
    OBVIOUS
  <1>4. PICK x : x = <<SdXor(b, k), SdXor(a, l)>>
    OBVIOUS
  <1>5. PICK v : v = scramble_words(w)
    OBVIOUS
  <1>6. DOMAIN v = {1} /\ v[1] = x
    BY <1>1, <1>2, <1>3, <1>4, <1>5 DEF scramble_words
  <1>7. PICK y : y = <<SdXor(x[1], k), SdXor(x[2], l)>>
    OBVIOUS
  <1>8. y = <<b, a>>
    BY <1>4, <1>7, SdXorTwice
  <1>9. PICK u : u = unscramble_words(v)
    OBVIOUS
  <1>10. u = [i \in {1} |-> y]
    <2>1. u = [i \in {1} |-> <<SdXor(v[i][1], {<<"ks", (2 * (i - 1)) % 32>>}), SdXor(v[i][2], {<<"ks", (2 * i - 1) % 32>>})>>]
      BY <1>6, <1>9 DEF unscramble_words
    <2>2. \A i \in {1} : <<SdXor(v[i][1], {<<"ks", (2 * (i - 1)) % 32>>}), SdXor(v[i][2], {<<"ks", (2 * i - 1) % 32>>})>> = y
      BY <1>1, <1>3, <1>6, <1>7
    <2> QED BY <2>1, <2>2
  <1>11. u = <<y>>
    BY <1>10
  <1> QED BY <1>5, <1>8, <1>9, <1>11

LEMMA AllUndone == ScrambleUndone
  <1> SUFFICES ASSUME NEW s \in SD_STRINGS
               PROVE  /\ xor_serial(xor_serial(s)) = s /\ encrypt_label_bytes(encrypt_label_bytes(s)) = s /\ xor_name(xor_name(s)) = s
                      /\ Len(s) = 2 =>
                           /\ feistel_unscramble(feistel_scramble(s)) = s
                           /\ LET e == [type |-> 0, start |-> s, end |-> <<s[2], s[1]>>] IN disk_mbr_unscramble_part_entry(disk_mbr_part_entry(e)) = e
                           /\ unscramble_words(scramble_words(<<s>>)) = << <<s[2], s[1]>> >>
    BY DEF ScrambleUndone
  <1>0. s \in Seq({s[i] : i \in DOMAIN s})
    BY StringList
  <1>1. s = [i \in DOMAIN s |-> s[i]]
    BY <1>0, LenProperties
  <1>2. xor_serial(xor_serial(s)) = s
    <2>1. PICK k : k = [i \in DOMAIN s |-> {<<"round", (i - 1) % 16, (i - 1) % 32>>}]
      OBVIOUS
    <2>2. PICK e : e = xor_serial(s)
      OBVIOUS
    <2>3. e = [i \in DOMAIN s |-> SdXor(s[i], k[i])]
      BY <2>1, <2>2 DEF xor_serial
    <2>4. xor_serial(e) = [i \in DOMAIN e |-> SdXor(e[i], k[i])]
      BY <2>1, <2>3 DEF xor_serial
    <2> QED BY <1>1, <2>2, <2>3, <2>4, StreamUndone
  <1>3. encrypt_label_bytes(encrypt_label_bytes(s)) = s
    <2>1. PICK k : k = [i \in DOMAIN s |-> {<<"chacha", i>>}]
      OBVIOUS
    <2>2. PICK e : e = encrypt_label_bytes(s)
      OBVIOUS
    <2>3. e = [i \in DOMAIN s |-> SdXor(s[i], k[i])]
      BY <2>1, <2>2 DEF encrypt_label_bytes
    <2>4. encrypt_label_bytes(e) = [i \in DOMAIN e |-> SdXor(e[i], k[i])]
      BY <2>1, <2>3 DEF encrypt_label_bytes
    <2> QED BY <1>1, <2>2, <2>3, <2>4, StreamUndone
  <1>4. xor_name(xor_name(s)) = s
    <2>1. PICK k : k = [i \in DOMAIN s |-> {<<"sha", (i - 1) \div 32, (i - 1) % 32>>}]
      OBVIOUS
    <2>2. PICK e : e = xor_name(s)
      OBVIOUS
    <2>3. e = [i \in DOMAIN s |-> SdXor(s[i], k[i])]
      BY <2>1, <2>2 DEF xor_name
    <2>4. xor_name(e) = [i \in DOMAIN e |-> SdXor(e[i], k[i])]
      BY <2>1, <2>3 DEF xor_name
    <2> QED BY <1>1, <2>2, <2>3, <2>4, StreamUndone
  <1>5. ASSUME Len(s) = 2
        PROVE  /\ feistel_unscramble(feistel_scramble(s)) = s
               /\ LET e == [type |-> 0, start |-> s, end |-> <<s[2], s[1]>>] IN disk_mbr_unscramble_part_entry(disk_mbr_part_entry(e)) = e
               /\ unscramble_words(scramble_words(<<s>>)) = << <<s[2], s[1]>> >>
    <2>1. PICK a, b : a = s[1] /\ b = s[2]
      OBVIOUS
    <2>2. s = <<a, b>>
      <3>1. DOMAIN s = 1 .. 2
        BY <1>0, <1>5, LenProperties
      <3> QED BY <1>1, <2>1, <3>1
    <2>3. IsPair(s)
      BY <2>1, <2>2 DEF IsPair
    <2>4. PICK t : t = <<s[2], s[1]>>
      OBVIOUS
    <2>5. IsPair(t)
      BY <2>4 DEF IsPair
    <2>6. PICK e : e = [type |-> 0, start |-> s, end |-> t]
      OBVIOUS
    <2>7. disk_mbr_unscramble_part_entry(disk_mbr_part_entry(e)) = e
      BY <2>3, <2>5, <2>6, PartEntryUndone
    <2>8. unscramble_words(scramble_words(<<s>>)) = << <<b, a>> >>
      BY <2>2, WordsTurned
    <2> QED BY <2>1, <2>3, <2>4, <2>6, <2>7, <2>8, FeistelUndone
  <1> QED BY <1>2, <1>3, <1>4, <1>5

----------------------------------------------------------------------------
DiskInv == TablesInv /\ DiskStateInv

LEMMA DiskStart == SDInit => DiskInv
  <1> SUFFICES ASSUME SDInit PROVE DiskInv
    OBVIOUS
  <1>1. TablesInv
    BY TablesFresh DEF SDInit
  <1>2. UuidMapInv
    <2>1. PICK e : e = <<>>
      OBVIOUS
    <2>2. sd_map = [key |-> 0, list |-> e] /\ IsList(e) /\ Len(e) = 0
      BY <2>1 DEF SDInit, IsList
    <2> QED BY <2>2 DEF UuidMapInv
  <1>3. FingerInv
    BY DEF SDInit, FingerInv
  <1>4. LuksOK(sd_luks)
    BY SectorNew DEF SDInit
  <1> QED BY <1>1, <1>2, <1>3, <1>4 DEF DiskInv, DiskStateInv

LEMMA DiskCalled == DiskStateInv /\ disk_call => DiskStateInv'
  <1> SUFFICES ASSUME DiskStateInv, disk_call PROVE DiskStateInv'
    OBVIOUS
  <1>1. CASE /\ sd_map' = disk_uuid_random_rotate(sd_map) \/ \E s \in SdUuids : sd_map' = disk_uuid_randomize(sd_map, s)
             /\ UNCHANGED <<sd_fp, sd_luks>>
    <2>1. UuidMapInv'
      BY <1>1, UuidMapStep DEF DiskStateInv
    <2> QED BY <1>1, <2>1 DEF DiskStateInv, FingerInv
  <1>2. CASE /\ (\E b \in 0 .. 1 : sd_fp' = disk_fingerprint_init(sd_fp, b)) \/ (sd_fp.key > 0 /\ sd_fp' = disk_fingerprint_rotate(sd_fp))
             /\ UNCHANGED <<sd_map, sd_luks>>
    <2>1. FingerInv'
      BY <1>2, FingerStep DEF DiskStateInv
    <2> QED BY <1>2, <2>1 DEF DiskStateInv, UuidMapInv
  <1>3. CASE /\ \/ \E pick \in {2, 4, 8} : sd_luks' = disk_luks_hide_header(sd_luks, pick)
                \/ sd_luks' = disk_luks_reveal_header(sd_luks)
                \/ \E first \in {"luks", "data"}, size \in {512, 1024} : sd_luks' = [NewSector(first, size) EXCEPT !.hidden = sd_luks.hidden, !.magic = sd_luks.magic]
             /\ UNCHANGED <<sd_map, sd_fp>>
    <2>1. PICK l, u : l = sd_luks /\ u = sd_luks' /\ LuksOK(l)
      BY DEF DiskStateInv
    <2>2. LuksOK(u)
      <3>1. CASE \E pick \in {2, 4, 8} : u = disk_luks_hide_header(l, pick)
        BY <2>1, <3>1, HeaderHidden
      <3>2. CASE u = disk_luks_reveal_header(l)
        BY <2>1, <3>2, HeaderRevealed
      <3>3. CASE \E first \in {"luks", "data"}, size \in {512, 1024} : u = [NewSector(first, size) EXCEPT !.hidden = l.hidden, !.magic = l.magic]
        <4>1. l.hidden => IsList(l.magic) /\ Len(l.magic) = 6
          BY <2>1 DEF LuksOK
        <4>2. PICK first \in {"luks", "data"}, size \in {512, 1024} : u = [NewSector(first, size) EXCEPT !.hidden = l.hidden, !.magic = l.magic]
          BY <3>3
        <4>3. PICK h, m : h \in BOOLEAN /\ h = l.hidden /\ m = l.magic
          BY <2>1 DEF LuksOK
        <4>4. NextSector(u, first, size, h, m)
          BY <4>2, <4>3 DEF NextSector
        <4>5. h => IsList(m) /\ Len(m) = 6
          BY <4>1, <4>3
        <4> QED BY <4>3, <4>4, <4>5, SectorFresh
      <3> QED BY <1>3, <2>1, <3>1, <3>2, <3>3
    <2> QED BY <1>3, <2>1, <2>2 DEF DiskStateInv, UuidMapInv, FingerInv
  <1> QED BY <1>1, <1>2, <1>3 DEF disk_call

LEMMA DiskStep == DiskInv /\ [SDNext]_sdVars => DiskInv'
  <1> SUFFICES ASSUME DiskInv, [SDNext]_sdVars PROVE DiskInv'
    OBVIOUS
  <1>1. CASE disk_call
    <2>1. TablesInv'
      BY <1>1 DEF disk_call, DiskInv, TablesInv
    <2>2. DiskStateInv'
      BY <1>1, DiskCalled DEF DiskInv
    <2> QED BY <2>1, <2>2 DEF DiskInv
  <1>2. CASE \E m \in DOMAIN sd_tab : dp_call(m)
    <2>1. TablesInv'
      BY <1>2, TablesStep DEF DiskInv
    <2>2. UNCHANGED <<sd_map, sd_fp, sd_luks>>
      BY <1>2 DEF dp_call
    <2>3. DiskStateInv'
      BY <2>2 DEF DiskInv, DiskStateInv, UuidMapInv, FingerInv
    <2> QED BY <2>1, <2>3 DEF DiskInv
  <1>3. CASE UNCHANGED sdVars
    BY <1>3 DEF sdVars, DiskInv, TablesInv, DiskStateInv, UuidMapInv, FingerInv
  <1> QED BY <1>1, <1>2, <1>3 DEF SDNext

(***************************************************************************)
(* What a table of disk_privacy shows leads back to what is real unless an *)
(* entry found before it shows the same, which only uuids exclude; the     *)
(* states of disk_encrypt restore what they hid, through rotations of the  *)
(* key, and each scrambling is undone by its counterpart, for every set of *)
(* disks, strings and keys.                                                *)
(***************************************************************************)
THEOREM DiskIdentitiesLeadBack == SDSpec => []DiskIdentities
  <1>1. DiskInv => DiskIdentities
    BY TablesAgree, StateMeans, AllUndone DEF DiskInv, DiskIdentities
  <1> QED BY <1>1, DiskStart, DiskStep, PTL DEF SDSpec

----------------------------------------------------------------------------
(***************************************************************************)
(* The addresses on the wire (SIdent).  mac_random first: the history ends *)
(* with the MACs that were given, each of them twice but the newest, so a  *)
(* MAC that is not in it was not given lately.                             *)
(***************************************************************************)
RandomMac == {generate_random_mac(r) : r \in SI_RANDOM}
WireMac == RandomMac \cup {Hardware}
Least(a, b) == IF a < b THEN a ELSE b
RandomFits(s, n) ==
  /\ s.given \in Seq(RandomMac) /\ Len(s.given) = n /\ n >= 1 /\ s.hist \in Seq(WireMac)
  /\ s.cur = s.given[n]
  /\ Len(s.hist) = Least(2 * n, SI_HISTORY)
  /\ \A k \in 1 .. n : 2 * (n - k) < Len(s.hist) => s.hist[Len(s.hist) - 2 * (n - k)] = s.given[k]
RandomInv == RandomFits(si_rand, Len(si_rand.given))

LEMMA RandomFitsBy ==
  ASSUME NEW s, NEW n, NEW given, NEW hist, s.given = given, s.hist = hist, given \in Seq(RandomMac), Len(given) = n, n >= 1, hist \in Seq(WireMac),
         s.cur = given[n], Len(hist) = Least(2 * n, SI_HISTORY),
         \A k \in 1 .. n : 2 * (n - k) < Len(hist) => hist[Len(hist) - 2 * (n - k)] = given[k]
  PROVE  RandomFits(s, n)
  BY DEF RandomFits

(* mac_add_history keeps the end of the history and adds the MAC. *)
LEMMA AddedToHistory ==
  ASSUME NEW S, NEW h \in Seq(S), NEW m \in S, Len(h) <= SI_HISTORY
  PROVE  LET g == mac_add_history(h, m) IN
         /\ g \in Seq(S) /\ Len(g) = Least(Len(h) + 1, SI_HISTORY)
         /\ g[Len(g)] = m
         /\ \A d \in 1 .. Len(g) - 1 : g[Len(g) - d] = h[Len(h) + 1 - d]
  <1> DEFINE t == IF Len(h) >= SI_HISTORY THEN Tail(h) ELSE h
  <1>0. SI_HISTORY \in Nat /\ SI_HISTORY >= 2 /\ Len(h) \in Nat
    BY SIRandomEnough
  <1>1. /\ t \in Seq(S) /\ Len(t) = Least(Len(h) + 1, SI_HISTORY) - 1
        /\ \A d \in 1 .. Len(t) : t[Len(t) + 1 - d] = h[Len(h) + 1 - d]
    <2>1. CASE Len(h) >= SI_HISTORY
      <3>1. h # <<>> /\ t = Tail(h)
        BY <1>0, <2>1
      <3> HIDE DEF t
      <3>2. t \in Seq(S) /\ Len(t) = Len(h) - 1 /\ \A i \in 1 .. Len(t) : t[i] = h[i + 1]
        BY <3>1, HeadTailProperties
      <3> QED BY <1>0, <2>1, <3>2 DEF Least
    <2>2. CASE Len(h) < SI_HISTORY
      BY <1>0, <2>2 DEF Least
    <2> QED BY <1>0, <2>1, <2>2
  <1>2. mac_add_history(h, m) = Append(t, m)
    BY DEF mac_add_history
  <1> HIDE DEF t
  <1>3. /\ Append(t, m) \in Seq(S) /\ Len(Append(t, m)) = Len(t) + 1
        /\ Append(t, m)[Len(t) + 1] = m
        /\ \A i \in 1 .. Len(t) : Append(t, m)[i] = t[i]
    BY <1>1, AppendProperties
  <1>4. Len(t) \in Nat
    BY <1>1
  <1>5. ASSUME NEW d \in 1 .. Len(t) PROVE Append(t, m)[Len(t) + 1 - d] = h[Len(h) + 1 - d]
    <2>1. Len(t) + 1 - d \in 1 .. Len(t)
      BY <1>4
    <2> QED BY <1>1, <1>3, <2>1
  <1>6. PICK g : g = mac_add_history(h, m) /\ g = Append(t, m)
    BY <1>2
  <1>7. Len(t) + 1 = Least(Len(h) + 1, SI_HISTORY)
    <2>1. PICK x \in Nat, y \in Nat : x = Len(t) /\ y = Least(Len(h) + 1, SI_HISTORY)
      BY <1>0, <1>4 DEF Least
    <2>2. x = y - 1
      BY <1>1, <2>1
    <2>3. x + 1 = y
      BY <2>2
    <2> QED BY <2>1, <2>3
  <1>8. g \in Seq(S) /\ Len(g) = Len(t) + 1 /\ g[Len(g)] = m
    BY <1>3, <1>6
  <1>9. ASSUME NEW d \in 1 .. Len(g) - 1 PROVE g[Len(g) - d] = h[Len(h) + 1 - d]
    <2>1. d \in 1 .. Len(t)
      BY <1>4, <1>8
    <2>2. g[Len(t) + 1 - d] = h[Len(h) + 1 - d]
      BY <1>5, <1>6, <2>1
    <2> QED BY <1>8, <2>2
  <1>10. /\ g \in Seq(S) /\ Len(g) = Least(Len(h) + 1, SI_HISTORY)
         /\ g[Len(g)] = m
         /\ \A d \in 1 .. Len(g) - 1 : g[Len(g) - d] = h[Len(h) + 1 - d]
    BY <1>7, <1>8, <1>9
  <1> HIDE DEF t
  <1> QED BY ONLY <1>6, <1>10

(* Two numbers give two MACs. *)
LEMMA RandomMacsDiffer ==
  ASSUME NEW r, NEW q, generate_random_mac(r) = generate_random_mac(q)
  PROVE  r = q
  <1>1. {<<"random", r>>} = {<<"random", q>>}
    BY DEF generate_random_mac, SiMac
  <1>2. <<"random", r>> = <<"random", q>>
    BY <1>1
  <1> QED BY <1>2

(* A history that ends with one MAC twice never holds every random MAC. *)
LEMMA SomeMacFree ==
  ASSUME NEW h \in Seq(WireMac), Len(h) <= SI_HISTORY, Len(h) >= 2, h[Len(h)] = h[Len(h) - 1]
  PROVE  \E r \in SI_RANDOM : \A i \in DOMAIN h : h[i] # generate_random_mac(r)
  <1>0. SI_HISTORY \in Nat /\ SI_HISTORY >= 2 /\ Len(h) \in Nat /\ DOMAIN h = 1 .. Len(h)
    BY SIRandomEnough
  <1>1. SUFFICES ASSUME \A r \in SI_RANDOM : \E i \in DOMAIN h : h[i] = generate_random_mac(r)
                 PROVE  FALSE
    OBVIOUS
  <1>2. PICK some \in SI_RANDOM : TRUE
    BY SIRandomEnough
  <1> DEFINE f == [i \in 1 .. SI_HISTORY - 1 |-> IF \E r \in SI_RANDOM : i \in DOMAIN h /\ h[i] = generate_random_mac(r)
                                                THEN CHOOSE r \in SI_RANDOM : i \in DOMAIN h /\ h[i] = generate_random_mac(r) ELSE some]
  <1>3. f \in [1 .. SI_HISTORY - 1 -> SI_RANDOM]
    BY <1>2
  <1>4. PICK r \in SI_RANDOM : \A i \in 1 .. SI_HISTORY - 1 : f[i] # r
    BY <1>3, SIRandomEnough
  <1>5. PICK j \in DOMAIN h : h[j] = generate_random_mac(r)
    BY <1>1
  <1>6. PICK i \in 1 .. Len(h) - 1 : h[i] = generate_random_mac(r)
    <2>1. CASE j = Len(h)
      BY <1>0, <1>5, <2>1
    <2> QED BY <1>0, <1>5, <2>1
  <1>7. i \in 1 .. SI_HISTORY - 1 /\ i \in DOMAIN h
    BY <1>0
  <1>8. f[i] \in SI_RANDOM /\ h[i] = generate_random_mac(f[i])
    <2>1. f[i] = CHOOSE q \in SI_RANDOM : i \in DOMAIN h /\ h[i] = generate_random_mac(q)
      BY <1>6, <1>7
    <2> QED BY <1>6, <1>7, <2>1
  <1>9. f[i] = r
    BY <1>6, <1>8, RandomMacsDiffer
  <1> QED BY <1>4, <1>7, <1>9


LEMMA RandomStart == SIInit => RandomInv
  <1> SUFFICES ASSUME SIInit PROVE RandomInv
    OBVIOUS
  <1> DEFINE m == generate_random_mac(CHOOSE r \in SI_RANDOM : TRUE)
  <1>1. m \in RandomMac
    BY SIRandomEnough DEF RandomMac
  <1>2. si_rand = [cur |-> m, hist |-> <<Hardware, m>>, given |-> <<m>>]
    BY DEF SIInit
  <1> HIDE DEF m
  <1>3. /\ si_rand.cur = m /\ si_rand.hist = <<Hardware, m>> /\ si_rand.given = <<m>>
    BY <1>2
  <1>4. <<Hardware, m>> \in Seq(WireMac) /\ <<m>> \in Seq(RandomMac)
    BY <1>1 DEF WireMac
  <1> QED BY <1>3, <1>4, SIRandomEnough DEF RandomInv, RandomFits, Least

LEMMA RandomStep ==
  ASSUME RandomInv, mac_random_rotate
  PROVE  /\ RandomInv'
         /\ \E m \in RandomMac :
              /\ si_rand'.given = Append(si_rand.given, m)
              /\ \A k \in 1 .. Len(si_rand.given) : Len(si_rand.given) + 1 - k <= SI_HISTORY \div 2 => si_rand.given[k] # m
  <1> DEFINE n == Len(si_rand.given)
             h == mac_add_history(si_rand.hist, si_rand.cur)
             FreeMacs == {r \in SI_RANDOM : \A i \in DOMAIN h : h[i] # generate_random_mac(r)}
  <1>0. SI_HISTORY \in Nat /\ SI_HISTORY >= 2
    BY SIRandomEnough
  <1>1. /\ si_rand.given \in Seq(RandomMac) /\ n \in Nat /\ n >= 1 /\ si_rand.hist \in Seq(WireMac)
        /\ si_rand.cur = si_rand.given[n] /\ si_rand.cur \in RandomMac /\ si_rand.cur \in WireMac
        /\ Len(si_rand.hist) = Least(2 * n, SI_HISTORY)
        /\ \A k \in 1 .. n : 2 * (n - k) < Len(si_rand.hist) => si_rand.hist[Len(si_rand.hist) - 2 * (n - k)] = si_rand.given[k]
    <2>1. /\ si_rand.given \in Seq(RandomMac) /\ n >= 1 /\ si_rand.hist \in Seq(WireMac)
          /\ si_rand.cur = si_rand.given[n] /\ Len(si_rand.hist) = Least(2 * n, SI_HISTORY)
          /\ \A k \in 1 .. n : 2 * (n - k) < Len(si_rand.hist) => si_rand.hist[Len(si_rand.hist) - 2 * (n - k)] = si_rand.given[k]
      BY DEF RandomInv, RandomFits
    <2>2. n \in Nat
      BY <2>1, LenProperties
    <2>3. si_rand.given[n] \in RandomMac
      BY <2>1, <2>2, ElementOfSeq
    <2> QED BY <2>1, <2>2, <2>3 DEF WireMac
  <1>2. PICK r \in IF FreeMacs = {} THEN SI_RANDOM ELSE FreeMacs :
          si_rand' = [cur |-> generate_random_mac(r), hist |-> mac_add_history(h, generate_random_mac(r)),
                      given |-> Append(si_rand.given, generate_random_mac(r))]
    BY DEF mac_random_rotate
  <1> DEFINE m == generate_random_mac(r)
             g == mac_add_history(h, m)
  <1>3. r \in SI_RANDOM /\ m \in RandomMac /\ m \in WireMac
    BY <1>2 DEF RandomMac, WireMac
  <1>4. si_rand'.cur = m /\ si_rand'.hist = g /\ si_rand'.given = Append(si_rand.given, m)
    BY <1>2
  <1> HIDE DEF m, FreeMacs, n
  <1>5. /\ h \in Seq(WireMac) /\ Len(h) = Least(2 * n + 1, SI_HISTORY)
        /\ h[Len(h)] = si_rand.cur
        /\ \A d \in 1 .. Len(h) - 1 : h[Len(h) - d] = si_rand.hist[Len(si_rand.hist) + 1 - d]
    <2>1. Len(si_rand.hist) <= SI_HISTORY
      BY <1>0, <1>1 DEF Least
    <2>2. Least(Len(si_rand.hist) + 1, SI_HISTORY) = Least(2 * n + 1, SI_HISTORY)
      BY <1>0, <1>1 DEF Least
    <2>3. /\ h \in Seq(WireMac) /\ Len(h) = Least(Len(si_rand.hist) + 1, SI_HISTORY) /\ h[Len(h)] = si_rand.cur
          /\ \A d \in 1 .. Len(h) - 1 : h[Len(h) - d] = si_rand.hist[Len(si_rand.hist) + 1 - d]
      BY <1>1, <2>1, AddedToHistory
    <2> QED BY <2>2, <2>3
  <1> HIDE DEF h
  <1>6. /\ g \in Seq(WireMac) /\ Len(g) = Least(2 * n + 2, SI_HISTORY) /\ g[Len(g)] = m
        /\ \A d \in 1 .. Len(g) - 1 : g[Len(g) - d] = h[Len(h) + 1 - d]
    <2>1. Len(h) <= SI_HISTORY
      BY <1>0, <1>1, <1>5 DEF Least
    <2>2. Least(Len(h) + 1, SI_HISTORY) = Least(2 * n + 2, SI_HISTORY)
      BY <1>0, <1>1, <1>5 DEF Least
    <2>3. /\ g \in Seq(WireMac) /\ Len(g) = Least(Len(h) + 1, SI_HISTORY) /\ g[Len(g)] = m
          /\ \A d \in 1 .. Len(g) - 1 : g[Len(g) - d] = h[Len(h) + 1 - d]
      <3>1. h \in Seq(WireMac) /\ m \in WireMac /\ Len(h) <= SI_HISTORY
        BY <1>3, <1>5, <2>1
      <3> QED BY <3>1, AddedToHistory
    <2> QED BY <2>2, <2>3
  <1> HIDE DEF g
  <1>7. /\ Append(si_rand.given, m) \in Seq(RandomMac) /\ Len(Append(si_rand.given, m)) = n + 1
        /\ Append(si_rand.given, m)[n + 1] = m
        /\ \A k \in 1 .. n : Append(si_rand.given, m)[k] = si_rand.given[k]
    BY <1>1, <1>3, AppendProperties DEF n
  <1>8. ASSUME NEW k \in 1 .. n + 1, 2 * (n + 1 - k) < Len(g)
        PROVE  g[Len(g) - 2 * (n + 1 - k)] = Append(si_rand.given, m)[k]
    <2>1. CASE k = n + 1
      BY <1>1, <1>6, <1>7, <2>1
    <2>2. CASE k # n + 1
      <3> DEFINE d == 2 * (n + 1 - k)
      <3>1. k \in 1 .. n /\ d \in 1 .. Len(g) - 1 /\ Len(g) \in Nat /\ Len(h) \in Nat /\ Len(si_rand.hist) \in Nat
        <4>1. Len(g) \in Nat /\ Len(h) \in Nat /\ Len(si_rand.hist) \in Nat
          BY <1>1, <1>5, <1>6, LenProperties
        <4>2. k \in 1 .. n
          BY <1>1, <1>8, <2>2
        <4>3. d \in Nat /\ d >= 1 /\ d < Len(g)
          BY <1>1, <1>8, <4>2
        <4> QED BY <4>1, <4>2, <4>3
      <3>2. g[Len(g) - d] = h[Len(h) + 1 - d]
        BY <1>6, <3>1
      <3>3. d - 1 \in 1 .. Len(h) - 1
        BY <1>0, <1>1, <1>5, <1>6, <3>1 DEF Least
      <3>4. h[Len(h) - (d - 1)] = si_rand.hist[Len(si_rand.hist) + 1 - (d - 1)]
        BY <1>5, <3>3
      <3>5. Len(h) - (d - 1) = Len(h) + 1 - d /\ Len(si_rand.hist) + 1 - (d - 1) = Len(si_rand.hist) - 2 * (n - k)
        <4>1. PICK x \in Nat, y \in Nat : x = Len(h) /\ y = Len(si_rand.hist)
          BY <3>1
        <4>2. n \in Nat /\ k \in Nat /\ d = 2 * (n + 1 - k)
          BY <1>1, <3>1
        <4>3. y + 1 - (d - 1) = y - 2 * (n - k)
          BY <4>2
        <4>4. x - (d - 1) = x + 1 - d
          BY <4>2
        <4> QED BY <4>1, <4>3, <4>4
      <3>6. 2 * (n - k) < Len(si_rand.hist)
        BY <1>0, <1>1, <1>6, <1>8, <3>1 DEF Least
      <3> QED BY <1>1, <1>7, <3>1, <3>2, <3>4, <3>5, <3>6
    <2> QED BY <2>1, <2>2
  <1>9. /\ si_rand'.cur = si_rand'.given[n + 1] /\ Len(si_rand'.given) = n + 1 /\ n + 1 >= 1
        /\ Len(g) = Least(2 * (n + 1), SI_HISTORY)
    BY <1>1, <1>4, <1>6, <1>7
  <1>10. \A k \in 1 .. n + 1 : 2 * (n + 1 - k) < Len(g) => g[Len(g) - 2 * (n + 1 - k)] = si_rand'.given[k]
    BY <1>4, <1>8
  <1>11. si_rand'.given \in Seq(RandomMac) /\ si_rand'.hist \in Seq(WireMac)
    BY <1>4, <1>6, <1>7
  <1>12. n + 1 = Len(si_rand'.given) /\ g = si_rand'.hist
    BY <1>4, <1>9
  <1> HIDE DEF n, g
  <1>13. RandomInv'
    <2>1. RandomFits(si_rand', n + 1)
      <3> DEFINE new == si_rand'.given
      <3>1. PICK q : q = n + 1
        OBVIOUS
      <3>2. new[q] = si_rand'.cur /\ q >= 1 /\ Len(new) = q /\ Len(g) = Least(2 * q, SI_HISTORY)
        BY <1>9, <3>1
      <3>3. \A k \in 1 .. q : 2 * (q - k) < Len(g) => g[Len(g) - 2 * (q - k)] = new[k]
        <4>1. n \in Nat /\ Len(g) \in Nat
          BY <1>1, <1>6, LenProperties
        <4> QED BY <1>10, <3>1, <4>1
      <3>4. si_rand'.given = new /\ si_rand'.hist = g /\ new \in Seq(RandomMac) /\ g \in Seq(WireMac)
        BY <1>4, <1>11
      <3> HIDE DEF new
      <3>5. RandomFits(si_rand', q)
        BY <3>2, <3>3, <3>4, RandomFitsBy
      <3> QED BY <3>1, <3>5
    <2> QED BY <1>12, <2>1 DEF RandomInv
  <1>14. \A i \in DOMAIN h : h[i] # m
    <2>0. Len(h) \in Nat /\ Len(h) >= 2 /\ Len(h) <= SI_HISTORY /\ Len(si_rand.hist) \in Nat /\ Len(si_rand.hist) >= 2
      BY <1>0, <1>1, <1>5, LenProperties DEF Least
    <2>1. h[Len(h)] = h[Len(h) - 1]
      <3>1. h[Len(h) - 1] = si_rand.hist[Len(si_rand.hist)]
        <4>1. 1 \in 1 .. Len(h) - 1
          BY <2>0
        <4>2. h[Len(h) - 1] = si_rand.hist[Len(si_rand.hist) + 1 - 1]
          BY <1>5, <4>1
        <4> QED BY <2>0, <4>2
      <3>2. si_rand.hist[Len(si_rand.hist)] = si_rand.given[n]
        <4>1. n \in 1 .. n /\ 2 * (n - n) = 0
          BY <1>1
        <4>2. si_rand.hist[Len(si_rand.hist) - 0] = si_rand.given[n]
          BY <1>1, <2>0, <4>1
        <4> QED BY <2>0, <4>2
      <3> QED BY <1>1, <1>5, <3>1, <3>2
    <2>2. FreeMacs # {}
      BY <1>5, <2>0, <2>1, SomeMacFree DEF FreeMacs
    <2> QED BY <1>2, <2>2 DEF FreeMacs, m
  <1>15. ASSUME NEW k \in 1 .. n, n + 1 - k <= SI_HISTORY \div 2
         PROVE  si_rand.given[k] # m
    <2> DEFINE d == 2 * (n - k)
    <2>0. Len(h) \in Nat /\ Len(si_rand.hist) \in Nat /\ DOMAIN h = 1 .. Len(h)
      BY <1>1, <1>5, LenProperties
    <2>1. d < Len(si_rand.hist) /\ d + 1 \in 1 .. Len(h) - 1
      BY <1>0, <1>1, <1>5, <1>15 DEF Least
    <2>2. si_rand.hist[Len(si_rand.hist) - d] = si_rand.given[k]
      BY <1>1, <2>1
    <2>3. h[Len(h) - (d + 1)] = si_rand.hist[Len(si_rand.hist) + 1 - (d + 1)]
      BY <1>5, <2>1
    <2>4. Len(si_rand.hist) + 1 - (d + 1) = Len(si_rand.hist) - d /\ Len(h) - (d + 1) \in DOMAIN h
      BY <1>1, <2>0, <2>1
    <2> QED BY <1>14, <2>2, <2>3, <2>4
  <1> QED BY <1>3, <1>4, <1>13, <1>15 DEF n


LEMMA RandomKeepsApart == RandomInv /\ NoQuickReuse /\ mac_random_rotate => NoQuickReuse'
  <1> SUFFICES ASSUME RandomInv, NoQuickReuse, mac_random_rotate,
                      NEW i \in DOMAIN si_rand'.given, NEW j \in DOMAIN si_rand'.given, i < j, j - i <= SI_HISTORY \div 2
               PROVE  si_rand'.given[i] # si_rand'.given[j]
    BY DEF NoQuickReuse
  <1>1. PICK m : /\ m \in RandomMac /\ si_rand'.given = Append(si_rand.given, m)
                 /\ \A k \in 1 .. Len(si_rand.given) : Len(si_rand.given) + 1 - k <= SI_HISTORY \div 2 => si_rand.given[k] # m
    BY RandomStep
  <1> DEFINE n == Len(si_rand.given)
  <1>2. si_rand.given \in Seq(RandomMac) /\ n \in Nat
    BY LenProperties DEF RandomInv, RandomFits
  <1>3. /\ DOMAIN si_rand'.given = 1 .. n + 1 /\ si_rand'.given[n + 1] = m
        /\ DOMAIN si_rand.given = 1 .. n /\ \A k \in 1 .. n : si_rand'.given[k] = si_rand.given[k]
    BY <1>1, <1>2, AppendProperties, LenProperties
  <1> HIDE DEF n
  <1>4. CASE j = n + 1
    BY <1>1, <1>2, <1>3, <1>4 DEF n
  <1>5. CASE j # n + 1
    BY <1>2, <1>3, <1>5 DEF NoQuickReuse
  <1> QED BY <1>4, <1>5

(***************************************************************************)
(* The other MAC modules: what is masked is the hardware address under the *)
(* key and the bits that were kept, and masking twice changes nothing.     *)
(***************************************************************************)
MaskInv ==
  /\ si_mask.masked = apply_mask(Hardware, si_mask.key, si_mask.used)
  /\ si_mask.key.group \in {0, 1} /\ si_mask.key.local \in {0, 1}
  /\ si_rot.cur.group = 0 /\ si_oui.mac.group = 0
  /\ si_rot = [cur |-> si_rot.cur, idx |-> si_rot.idx, auto |-> si_rot.auto]
  /\ si_oui = [mac |-> si_oui.mac, randomize |-> si_oui.randomize, universal |-> si_oui.universal]

LEMMA MaskTwice ==
  ASSUME NEW key, NEW keep, key.group \in {0, 1}, key.local \in {0, 1}
  PROVE  /\ apply_mask(apply_mask(Hardware, key, keep), key, keep) = Hardware
         /\ keep.unicast => apply_mask(Hardware, key, keep).group = 0
  <1> DEFINE m == apply_mask(Hardware, key, keep)
             rest == Hardware.rest
  <1>1. Hardware.group = 0 /\ Hardware.local = 0 /\ Hardware = SiMac(0, 0, rest)
    BY DEF Hardware, SiMac
  <1> HIDE DEF rest
  <1>2. /\ m.group = (IF keep.unicast THEN 0 ELSE (0 + key.group) % 2) /\ m.local = (IF keep.locally THEN 0 ELSE (0 + key.local) % 2)
        /\ m.rest = SiXor(rest, {<<"mask", key.version>>})
    BY <1>1 DEF apply_mask, SiMac, rest
  <1> HIDE DEF m
  <1>3. (IF keep.unicast THEN m.group ELSE (m.group + key.group) % 2) = 0
    BY <1>2
  <1>4. (IF keep.locally THEN m.local ELSE (m.local + key.local) % 2) = 0
    BY <1>2
  <1>5. SiXor(m.rest, {<<"mask", key.version>>}) = rest
    BY <1>2 DEF SiXor
  <1>6. apply_mask(m, key, keep) = Hardware
    BY <1>1, <1>3, <1>4, <1>5 DEF apply_mask
  <1>7. keep.unicast => m.group = 0
    BY <1>2
  <1> QED BY <1>6, <1>7 DEF m

LEMMA MaskStart == SIInit => MaskInv
  BY DEF SIInit, MaskInv, Hardware, SiMac

LEMMA RotSet ==
  ASSUME NEW s, NEW c0, NEW i0, NEW a0, s = [cur |-> c0, idx |-> i0, auto |-> a0], NEW i
  PROVE  mac_rot_jump_to(s, i) = [cur |-> seed_chain(i), idx |-> i, auto |-> a0]
  <1> DEFINE c == seed_chain(i)
  <1>1. [s EXCEPT !.idx = i] = [cur |-> c0, idx |-> i, auto |-> a0]
    OBVIOUS
  <1>2. [[cur |-> c0, idx |-> i, auto |-> a0] EXCEPT !.cur = c] = [cur |-> c, idx |-> i, auto |-> a0]
    OBVIOUS
  <1> QED BY <1>1, <1>2 DEF mac_rot_jump_to

LEMMA MaskStep == MaskInv /\ [SINext]_siVars => MaskInv'
  <1> SUFFICES ASSUME MaskInv, [SINext]_siVars PROVE MaskInv'
    OBVIOUS
  <1>1. CASE mac_mask_rotate
    <2>1. PICK g \in {0, 1}, l \in {0, 1} :
            LET key == [version |-> si_mask.key.version + 1, group |-> g, local |-> l]
            IN  si_mask' = [key |-> key, keep |-> si_mask.keep, used |-> si_mask.keep, masked |-> apply_mask(Hardware, key, si_mask.keep)]
      BY <1>1 DEF mac_mask_rotate
    <2> DEFINE key == [version |-> si_mask.key.version + 1, group |-> g, local |-> l]
    <2>2. key.group \in {0, 1} /\ key.local \in {0, 1}
      OBVIOUS
    <2>3. si_mask'.key = key /\ si_mask'.used = si_mask.keep /\ si_mask'.masked = apply_mask(Hardware, key, si_mask.keep)
      BY <2>1
    <2> HIDE DEF key
    <2>4. UNCHANGED <<si_rot, si_oui>>
      BY <1>1 DEF mac_mask_rotate
    <2> QED BY <2>2, <2>3, <2>4 DEF MaskInv
  <1>2. CASE mac_mask_set_preserve
    <2>1. PICK u \in BOOLEAN, l \in BOOLEAN : si_mask' = [si_mask EXCEPT !.keep = [unicast |-> u, locally |-> l]]
      BY <1>2 DEF mac_mask_set_preserve
    <2>2. si_mask'.key = si_mask.key /\ si_mask'.used = si_mask.used /\ si_mask'.masked = si_mask.masked
      BY <2>1
    <2>3. UNCHANGED <<si_rot, si_oui>>
      BY <1>2 DEF mac_mask_set_preserve
    <2> QED BY <2>2, <2>3 DEF MaskInv
  <1>3. CASE mac_rot_call
    <2>1. UNCHANGED <<si_mask, si_oui>>
      BY <1>3 DEF mac_rot_call
    <2>2. PICK c, i, a : si_rot' = [cur |-> c, idx |-> i, auto |-> a] /\ c.group = 0
      <3>1. si_rot = [cur |-> si_rot.cur, idx |-> si_rot.idx, auto |-> si_rot.auto] /\ si_rot.cur.group = 0
        BY DEF MaskInv
      <3>2. \A i : seed_chain(i).group = 0
        BY DEF seed_chain, SiMac
      <3>0. PICK c0, i0, a0 : si_rot = [cur |-> c0, idx |-> i0, auto |-> a0] /\ c0.group = 0
        BY <3>1
      <3>3. ASSUME NEW i
            PROVE  mac_rot_jump_to(si_rot, i) = [cur |-> seed_chain(i), idx |-> i, auto |-> a0]
        BY <3>0, RotSet
      <3>4. [si_rot EXCEPT !.auto = ~@] = [cur |-> c0, idx |-> i0, auto |-> ~a0]
        BY <3>0
      <3>5. mac_rot_rotate(si_rot) = mac_rot_jump_to(si_rot, (si_rot.idx + 1) % SI_CHAIN)
        BY DEF mac_rot_rotate
      <3>6. \/ si_rot' = mac_rot_rotate(si_rot)
            \/ si_rot' = [si_rot EXCEPT !.auto = ~@]
            \/ \E i \in 0 .. SI_CHAIN - 1 : si_rot' = mac_rot_jump_to(si_rot, i)
        BY <1>3 DEF mac_rot_call
      <3>7. CASE si_rot' = [si_rot EXCEPT !.auto = ~@]
        BY <3>0, <3>4, <3>7
      <3>8. CASE \E i : si_rot' = mac_rot_jump_to(si_rot, i)
        BY <3>2, <3>3, <3>8
      <3> QED BY <3>5, <3>6, <3>7, <3>8
    <2> QED BY <2>1, <2>2 DEF MaskInv
  <1>4. CASE oui_call
    <2>1. UNCHANGED <<si_mask, si_rot>>
      BY <1>4 DEF oui_call
    <2>2. PICK c, r, u : si_oui' = [mac |-> c, randomize |-> r, universal |-> u] /\ c.group = 0
      <3>1. si_oui = [mac |-> si_oui.mac, randomize |-> si_oui.randomize, universal |-> si_oui.universal] /\ si_oui.mac.group = 0
        BY DEF MaskInv
      <3>2. \A l, rest : SiMac(0, l, rest).group = 0
        BY DEF SiMac
      <3>3. \A m : [si_oui EXCEPT !.mac = m] = [mac |-> m, randomize |-> si_oui.randomize, universal |-> si_oui.universal]
        BY <3>1
      <3>4. /\ [si_oui EXCEPT !.universal = ~@] = [mac |-> si_oui.mac, randomize |-> si_oui.randomize, universal |-> ~si_oui.universal]
            /\ [si_oui EXCEPT !.randomize = ~@] = [mac |-> si_oui.mac, randomize |-> ~si_oui.randomize, universal |-> si_oui.universal]
        BY <3>1
      <3>5. \A i, r : \E l, rest : oui_spoof_select(si_oui, i, r) = [si_oui EXCEPT !.mac = SiMac(0, l, rest)]
        BY DEF oui_spoof_select
      <3>6. \/ \E i \in DOMAIN SI_OUIS, r \in SI_RANDOM : si_oui' = oui_spoof_select(si_oui, i, r)
            \/ si_oui' = [si_oui EXCEPT !.universal = ~@]
            \/ si_oui' = [si_oui EXCEPT !.randomize = ~@]
        BY <1>4 DEF oui_call
      <3> QED BY <3>1, <3>2, <3>3, <3>4, <3>5, <3>6
    <2> QED BY <2>1, <2>2 DEF MaskInv
  <1>5. CASE UNCHANGED <<si_mask, si_rot, si_oui>>
    BY <1>5 DEF MaskInv
  <1> QED BY <1>1, <1>2, <1>3, <1>4, <1>5 DEF SINext, siVars, mac_random_rotate, mac_clone_call, mac_apply, anti_ip_call

LEMMA MaskMeans == RandomInv /\ MaskInv => MaskUndone
  <1> SUFFICES ASSUME RandomInv, MaskInv PROVE MaskUndone
    OBVIOUS
  <1>1. si_rand.cur \in RandomMac
    BY LenProperties, ElementOfSeq DEF RandomInv, RandomFits
  <1>2. si_rand.cur.group = 0
    BY <1>1 DEF RandomMac, generate_random_mac, SiMac
  <1> QED BY <1>2, MaskTwice DEF MaskInv, MaskUndone, mac_mask_unmask

(***************************************************************************)
(* anti_ip: as long as the table has a free place the history holds every  *)
(* fake that is mapped, since it has two places for a mapping; so a fake   *)
(* is mapped once, and the ones in use lead back.                          *)
(***************************************************************************)
Family == {"v4", "v6"}
Fakes == [v4 : Nat, v6 : Nat]
Mappings == [fake : Fakes, real : Nat, expires : Nat, active : BOOLEAN]
Histories == [Family -> [1 .. SI_ADDR_HISTORY -> Nat]]
IpState == [fake : Fakes, peer : Nat, fakepeer : Fakes, epoch : Nat, map : Seq(Mappings), count : 0 .. SI_ADDR_HISTORY,
            layers : Seq(Nat), mode : {0, 4}, lost : BOOLEAN, onions : Nat, hist : Histories]
InHistory(p, f, a) == \E k \in 1 .. p.count : p.hist[f][k] = a
\* What the history and the table say of each other.
FakesKnown(p) ==
  /\ Len(p.map) <= SI_MAP
  /\ p.onions = 0 /\ Len(p.map) < SI_MAP =>
       /\ p.count <= 2 * Len(p.map)
       /\ \A i \in 1 .. Len(p.map) : /\ InHistory(p, "v4", p.map[i].fake.v4)
                                     /\ p.map[i].fake.v6 = 0 \/ InHistory(p, "v6", p.map[i].fake.v6)
  /\ p.onions = 0 =>
       \A i, j \in 1 .. Len(p.map) : i # j => /\ p.map[i].fake.v4 # p.map[j].fake.v4
                                              /\ p.map[i].fake.v6 # p.map[j].fake.v6 \/ p.map[i].fake.v6 = 0
\* A fake that was given in this epoch leads to an address.
LeadsTo(p, e, real) ==
  /\ e.v6 # 0
  /\ \E i \in 1 .. Len(p.map) : p.map[i].fake = e /\ p.map[i].real = real /\ p.map[i].active
IpInv(p) ==
  /\ p \in IpState /\ FakesKnown(p)
  /\ ~p.lost => LeadsTo(p, p.fake, 9) /\ (p.peer # 0 => LeadsTo(p, p.fakepeer, p.peer))

LEMMA IpBounds == SI_ADDR_HISTORY \in Nat /\ SI_ADDR_HISTORY >= 2 /\ SI_MAP \in Nat /\ SI_MAP >= 1 /\ SI_ADDR_HISTORY >= 2 * SI_MAP /\ SI_EXPIRE \in Nat
  BY SIAddresses

(* Among one address more than the history has places there is a new one. *)
LEMMA FreshFake ==
  ASSUME NEW p \in IpState, NEW f \in Family, NEW x \in Nat, x # 0
  PROVE  Fresh_fake(p, f, x) \in Nat /\ Fresh_fake(p, f, x) # 0 /\ ~InHistory(p, f, Fresh_fake(p, f, x))
  <1> DEFINE H == SI_ADDR_HISTORY
             h == p.hist[f]
             Seen == {h[i] : i \in 1 .. p.count}
             T == {a \in x .. x + H : a \notin Seen}
  <1>0. H \in Nat /\ p.count \in 0 .. H /\ h \in [1 .. H -> Nat]
    BY IpBounds DEF IpState, Histories
  <1> HIDE DEF h
  <1>1. IsFiniteSet(Seen) /\ Cardinality(Seen) <= p.count
    <2> DEFINE g == [i \in 1 .. p.count |-> h[i]]
    <2>1. IsFiniteSet(1 .. p.count) /\ Cardinality(1 .. p.count) = p.count
      <3> DEFINE n == p.count
      <3>1. n \in Int /\ n >= 0
        BY <1>0
      <3> HIDE DEF n
      <3>2. IsFiniteSet(1 .. n) /\ Cardinality(1 .. n) = IF 1 > n THEN 0 ELSE n - 1 + 1
        BY <3>1, FS_Interval
      <3>3. (IF 1 > n THEN 0 ELSE n - 1 + 1) = n
        BY <3>1
      <3> QED BY <3>2, <3>3 DEF n
    <2>2. g \in Surjection(1 .. p.count, Seen)
      BY Fun_IsSurj DEF Surjection
    <2> HIDE DEF g, Seen
    <2> QED BY <2>1, <2>2, FS_Surjection, <1>0, FS_CardinalityType
  <1>2. IsFiniteSet(x .. x + H) /\ Cardinality(x .. x + H) = H + 1
    <2> DEFINE y == x + H
    <2>1. x \in Int /\ y \in Int /\ y >= x /\ y - x + 1 = H + 1
      BY <1>0
    <2> HIDE DEF y
    <2>2. IsFiniteSet(x .. y) /\ Cardinality(x .. y) = IF x > y THEN 0 ELSE y - x + 1
      BY <2>1, FS_Interval
    <2>3. (IF x > y THEN 0 ELSE y - x + 1) = H + 1
      BY <2>1
    <2> QED BY <2>2, <2>3 DEF y
  <1>3. T # {}
    <2>1. SUFFICES ASSUME T = {} PROVE FALSE
      OBVIOUS
    <2>2. x .. x + H \subseteq Seen
      BY <2>1
    <2> HIDE DEF Seen, T
    <2>3. Cardinality(x .. x + H) <= Cardinality(Seen)
      BY <1>1, <2>2, FS_Subset
    <2> QED BY <1>0, <1>1, <1>2, <2>3, FS_CardinalityType
  <1>4. PICK a \in T : \A b \in T : a <= b
    <2>1. T \subseteq Nat
      BY <1>0
    <2> HIDE DEF T
    <2> QED BY <1>3, <2>1, SmallestOfNat
  <1> DEFINE Ok(c) == /\ \A i \in 1 .. p.count : p.hist[f][i] # c
                      /\ \A b \in x .. c - 1 : \E i \in 1 .. p.count : p.hist[f][i] = b
  <1>5. a \in x .. x + H /\ Ok(a)
    <2>1. a \in x .. x + H /\ \A i \in 1 .. p.count : p.hist[f][i] # a
      BY DEF h
    <2>2. ASSUME NEW b \in x .. a - 1 PROVE \E i \in 1 .. p.count : p.hist[f][i] = b
      <3>1. b \in x .. x + H /\ ~(a <= b)
        BY <1>0, <2>1
      <3>2. b \notin T
        BY <1>4, <3>1
      <3> QED BY <3>1, <3>2 DEF h
    <2> QED BY <2>1, <2>2
  <1>6. Fresh_fake(p, f, x) = CHOOSE c \in x .. x + H : Ok(c)
    BY DEF Fresh_fake
  <1> HIDE DEF Ok
  <1>7. Fresh_fake(p, f, x) \in x .. x + H /\ Ok(Fresh_fake(p, f, x))
    BY <1>5, <1>6
  <1> QED BY <1>0, <1>7 DEF Ok, InHistory

\* What giving an address from the history changes: nothing but the history.
SameButHistory(p, q) ==
  /\ q.fake = p.fake /\ q.peer = p.peer /\ q.fakepeer = p.fakepeer /\ q.epoch = p.epoch /\ q.map = p.map
  /\ q.layers = p.layers /\ q.mode = p.mode /\ q.lost = p.lost /\ q.onions = p.onions

(* As long as there is room the history keeps what it holds. *)
LEMMA HistoryAdded ==
  ASSUME NEW p \in IpState, NEW f \in Family, NEW a \in Nat
  PROVE  LET q == ip_add_history(p, f, a) IN
         /\ q \in IpState /\ SameButHistory(p, q)
         /\ p.count < SI_ADDR_HISTORY =>
              /\ q.count = p.count + 1 /\ InHistory(q, f, a)
              /\ \A k \in Family, b \in Nat : InHistory(p, k, b) => InHistory(q, k, b)
  <1> DEFINE H == SI_ADDR_HISTORY
             full == p.count >= H
             n == IF full THEN H ELSE p.count + 1
             h == IF full THEN [i \in 1 .. H |-> IF i = H THEN 0 ELSE p.hist[f][i + 1]] ELSE p.hist[f]
             g == [h EXCEPT ![n] = a]
             q == ip_add_history(p, f, a)
  <1>0. H \in Nat /\ H >= 2 /\ p.count \in 0 .. H /\ p.hist \in Histories /\ n \in 1 .. H
    BY IpBounds DEF IpState
  <1>1. h \in [1 .. H -> Nat] /\ g \in [1 .. H -> Nat] /\ g[n] = a /\ \A i \in 1 .. H : i # n => g[i] = h[i]
    <2>1. p.hist[f] \in [1 .. H -> Nat]
      BY <1>0 DEF Histories
    <2>2. [i \in 1 .. H |-> IF i = H THEN 0 ELSE p.hist[f][i + 1]] \in [1 .. H -> Nat]
      BY <1>0, <2>1
    <2>3. h \in [1 .. H -> Nat]
      BY <2>1, <2>2
    <2> HIDE DEF h, n
    <2> QED BY <1>0, <2>3
  <1>2. q = [p EXCEPT !.count = n, !.hist[f] = g]
    BY DEF ip_add_history
  <1>3. ~full => h = p.hist[f] /\ n = p.count + 1
    OBVIOUS
  <1> HIDE DEF n, h, g, q, H
  <1>4. /\ SameButHistory(p, q) /\ q.count = n /\ q.hist = [p.hist EXCEPT ![f] = g] /\ q \in IpState
    <2> DEFINE r == [p EXCEPT !.count = n]
               e == [p.hist EXCEPT ![f] = g]
    <2>1. r \in IpState /\ SameButHistory(p, r) /\ r.count = n /\ r.hist = p.hist
      <3>1. n \in 0 .. SI_ADDR_HISTORY
        BY <1>0 DEF H
      <3> QED BY <3>1 DEF IpState, SameButHistory
    <2>2. q = [r EXCEPT !.hist = e]
      BY <1>2, <2>1
    <2>3. e \in Histories
      BY <1>0, <1>1 DEF Histories, H
    <2> HIDE DEF r, e
    <2>4. q \in IpState /\ SameButHistory(r, q) /\ q.count = r.count /\ q.hist = e
      BY <2>1, <2>2, <2>3 DEF IpState, SameButHistory
    <2> QED BY <2>1, <2>4 DEF SameButHistory, e
  <1>5. ASSUME ~full
        PROVE  /\ q.count = p.count + 1 /\ InHistory(q, f, a)
               /\ \A k \in Family, b \in Nat : InHistory(p, k, b) => InHistory(q, k, b)
    <2>1. q.hist[f] = g /\ \A k \in Family : k # f => q.hist[k] = p.hist[k]
      BY <1>0, <1>4 DEF Histories
    <2>2. q.count = p.count + 1 /\ q.count \in 1 .. q.count
      BY <1>0, <1>3, <1>4, <1>5
    <2>3. InHistory(q, f, a)
      BY <1>1, <1>3, <1>5, <2>1, <2>2 DEF InHistory
    <2>4. ASSUME NEW k \in Family, NEW b \in Nat, InHistory(p, k, b) PROVE InHistory(q, k, b)
      <3>1. PICK i \in 1 .. p.count : p.hist[k][i] = b
        BY <2>4 DEF InHistory
      <3>2. i \in 1 .. q.count /\ i \in 1 .. H /\ i # n
        BY <1>0, <1>3, <1>5, <2>2
      <3>3. q.hist[k][i] = b
        BY <1>1, <1>3, <1>5, <2>1, <3>1, <3>2
      <3> QED BY <3>2, <3>3 DEF InHistory
    <2> QED BY <2>2, <2>3, <2>4
  <1> QED BY <1>0, <1>4, <1>5 DEF H, q

\* What a mapping leaves alone.
SameButMap(p, q) ==
  /\ q.fake = p.fake /\ q.peer = p.peer /\ q.fakepeer = p.fakepeer /\ q.epoch = p.epoch
  /\ q.layers = p.layers /\ q.mode = p.mode /\ q.onions = p.onions

LEMMA MappingAdded ==
  ASSUME NEW p \in IpState, NEW fake \in Fakes, NEW real \in Nat
  PROVE  LET q == add_mapping(p, [fake |-> fake, real |-> real])
             new == [fake |-> fake, real |-> real, expires |-> p.epoch + SI_EXPIRE, active |-> TRUE]
         IN  /\ q \in IpState /\ SameButMap(p, q) /\ q.count = p.count /\ q.hist = p.hist
             /\ IF Len(p.map) >= SI_MAP THEN q.map = p.map /\ q.lost
                ELSE q.map = Append(p.map, new) /\ q.lost = p.lost
  <1> DEFINE new == [fake |-> fake, real |-> real, expires |-> p.epoch + SI_EXPIRE, active |-> TRUE]
             longer == Append(p.map, new)
             q == add_mapping(p, [fake |-> fake, real |-> real])
  <1>1. new \in Mappings
    BY IpBounds DEF Mappings, IpState
  <1>2. q = IF Len(p.map) >= SI_MAP THEN [p EXCEPT !.lost = TRUE] ELSE [p EXCEPT !.map = longer]
    BY DEF add_mapping
  <1>3. longer \in Seq(Mappings)
    BY <1>1 DEF IpState
  <1> HIDE DEF new, longer, q
  <1>4. CASE Len(p.map) >= SI_MAP
    BY <1>2, <1>4 DEF IpState, SameButMap, q
  <1>5. CASE ~(Len(p.map) >= SI_MAP)
    <2>1. q = [p EXCEPT !.map = longer]
      BY <1>2, <1>5
    <2>2. q \in IpState /\ SameButMap(p, q) /\ q.count = p.count /\ q.hist = p.hist /\ q.map = longer /\ q.lost = p.lost
      BY <1>3, <2>1 DEF IpState, SameButMap
    <2> QED BY <1>5, <2>2 DEF longer, new, q
  <1> QED BY <1>4, <1>5

(***************************************************************************)
(* A fake that the history did not hold is put there and mapped: what was  *)
(* known stays known, and the fake leads to its address unless the table   *)
(* was full.                                                               *)
(***************************************************************************)
LEMMA FakeMapped ==
  ASSUME NEW p \in IpState, FakesKnown(p), NEW r \in IpState, SameButHistory(p, r),
         NEW e \in Fakes, NEW real \in Nat,
         p.onions = 0 /\ Len(p.map) < SI_MAP =>
           /\ ~InHistory(p, "v4", e.v4) /\ (e.v6 = 0 \/ ~InHistory(p, "v6", e.v6))
           /\ r.count <= p.count + 2 /\ InHistory(r, "v4", e.v4) /\ (e.v6 = 0 \/ InHistory(r, "v6", e.v6))
           /\ \A k \in Family, b \in Nat : InHistory(p, k, b) => InHistory(r, k, b)
  PROVE  LET q == add_mapping(r, [fake |-> e, real |-> real]) IN
         /\ q \in IpState /\ FakesKnown(q) /\ SameButMap(p, q)
         /\ p.lost => q.lost
         /\ ~q.lost /\ e.v6 # 0 => LeadsTo(q, e, real)
         /\ \A d, a : LeadsTo(p, d, a) => LeadsTo(q, d, a)
  <1> DEFINE new == [fake |-> e, real |-> real, expires |-> r.epoch + SI_EXPIRE, active |-> TRUE]
             q == add_mapping(r, [fake |-> e, real |-> real])
             n == Len(p.map)
  <1>0. SI_MAP \in Nat /\ n \in Nat /\ p.map \in Seq(Mappings) /\ n <= SI_MAP /\ p.onions \in Nat /\ p.count \in Nat /\ r.count \in Nat
    BY IpBounds, LenProperties DEF IpState, FakesKnown
  <1>1. r.map = p.map /\ r.lost = p.lost /\ SameButMap(p, r)
    BY DEF SameButHistory, SameButMap
  <1>2. /\ q \in IpState /\ SameButMap(r, q) /\ q.count = r.count /\ q.hist = r.hist
        /\ IF Len(r.map) >= SI_MAP THEN q.map = r.map /\ q.lost ELSE q.map = Append(r.map, new) /\ q.lost = r.lost
    BY MappingAdded
  <1>3. new.fake = e /\ new.real = real /\ new.active /\ new \in Mappings
    BY IpBounds DEF IpState, Mappings
  <1> HIDE DEF q, new
  <1>4. SameButMap(p, q)
    BY <1>1, <1>2 DEF SameButMap
  <1>5. \A k \in Family : \A b : InHistory(r, k, b) => InHistory(q, k, b)
    BY <1>2 DEF InHistory
  <1>6. CASE n >= SI_MAP
    <2>1. q.map = p.map /\ q.lost
      BY <1>1, <1>2, <1>6
    <2>2. FakesKnown(q)
      BY <1>0, <1>4, <1>6, <2>1 DEF FakesKnown, SameButMap
    <2>3. \A d, a : LeadsTo(p, d, a) => LeadsTo(q, d, a)
      BY <2>1 DEF LeadsTo
    <2> QED BY <1>2, <1>4, <2>1, <2>2, <2>3 DEF q
  <1>7. CASE n < SI_MAP
    <2>1. q.map = Append(p.map, new) /\ q.lost = p.lost
      BY <1>0, <1>1, <1>2, <1>7
    <2>2. Len(q.map) = n + 1 /\ q.map[n + 1] = new /\ \A i \in 1 .. n : q.map[i] = p.map[i]
      BY <1>0, <1>3, <2>1, AppendProperties
    <2> HIDE DEF n
    <2>3. \A i \in 1 .. n : p.map[i].fake.v4 \in Nat /\ p.map[i].fake.v6 \in Nat
      <3>1. \A i \in 1 .. n : p.map[i] \in Mappings
        BY <1>0, ElementOfSeq DEF n
      <3> QED BY <3>1 DEF Mappings, Fakes
    <2>4. q.onions = p.onions
      BY <1>4 DEF SameButMap
    <2>5. ASSUME q.onions = 0
          PROVE  /\ q.count <= 2 * (n + 1)
                 /\ \A i \in 1 .. n + 1 : /\ InHistory(q, "v4", q.map[i].fake.v4)
                                          /\ q.map[i].fake.v6 = 0 \/ InHistory(q, "v6", q.map[i].fake.v6)
      <3>1. /\ p.count <= 2 * n
            /\ \A i \in 1 .. n : /\ InHistory(p, "v4", p.map[i].fake.v4)
                                 /\ p.map[i].fake.v6 = 0 \/ InHistory(p, "v6", p.map[i].fake.v6)
        BY <1>7, <2>4, <2>5 DEF FakesKnown, n
      <3>2. /\ r.count <= p.count + 2 /\ InHistory(q, "v4", e.v4) /\ (e.v6 = 0 \/ InHistory(q, "v6", e.v6))
            /\ \A k \in Family, b \in Nat : InHistory(p, k, b) => InHistory(q, k, b)
        BY <1>5, <1>7, <2>4, <2>5 DEF n, Family
      <3>3. q.count <= 2 * (n + 1)
        BY <1>0, <1>2, <3>1, <3>2
      <3>4. ASSUME NEW i \in 1 .. n + 1
            PROVE  InHistory(q, "v4", q.map[i].fake.v4) /\ (q.map[i].fake.v6 = 0 \/ InHistory(q, "v6", q.map[i].fake.v6))
        <4>1. CASE i = n + 1
          BY <1>3, <2>2, <3>2, <4>1
        <4>2. CASE i # n + 1
          <5>1. i \in 1 .. n /\ q.map[i] = p.map[i]
            BY <1>0, <2>2, <4>2
          <5>2. PICK a4, a6 : a4 = p.map[i].fake.v4 /\ a6 = p.map[i].fake.v6
            OBVIOUS
          <5>5. a4 \in Nat /\ a6 \in Nat /\ InHistory(p, "v4", a4) /\ (a6 = 0 \/ InHistory(p, "v6", a6))
            <6>1. a4 \in Nat /\ a6 \in Nat
              BY <2>3, <5>1, <5>2
            <6>2. InHistory(p, "v4", p.map[i].fake.v4) /\ (p.map[i].fake.v6 = 0 \/ InHistory(p, "v6", p.map[i].fake.v6))
              BY <3>1, <5>1
            <6>3. InHistory(p, "v4", a4) /\ (a6 = 0 \/ InHistory(p, "v6", a6))
              BY <6>2, <5>2
            <6> QED BY <6>1, <6>3
          <5>3. q.map[i].fake.v4 = a4 /\ q.map[i].fake.v6 = a6
            BY <5>1, <5>2
          <5>4. InHistory(q, "v4", a4) /\ (a6 = 0 \/ InHistory(q, "v6", a6))
            BY <3>2, <5>5 DEF Family
          <5> QED BY <5>3, <5>4
        <4> QED BY <4>1, <4>2
      <3> QED BY <3>3, <3>4
    <2>6. ASSUME q.onions = 0, NEW i \in 1 .. n + 1, NEW j \in 1 .. n + 1, i # j
          PROVE  /\ q.map[i].fake.v4 # q.map[j].fake.v4
                 /\ q.map[i].fake.v6 # q.map[j].fake.v6 \/ q.map[i].fake.v6 = 0
      <3>1. \A k \in 1 .. n : /\ InHistory(p, "v4", p.map[k].fake.v4)
                              /\ p.map[k].fake.v6 = 0 \/ InHistory(p, "v6", p.map[k].fake.v6)
        BY <1>7, <2>4, <2>6 DEF FakesKnown, n
      <3>2. \A k, l \in 1 .. n : k # l => /\ p.map[k].fake.v4 # p.map[l].fake.v4
                                          /\ p.map[k].fake.v6 # p.map[l].fake.v6 \/ p.map[k].fake.v6 = 0
        BY <2>4, <2>6 DEF FakesKnown, n
      <3> DEFINE V4(m, k) == m[k].fake.v4
                 V6(m, k) == m[k].fake.v6
      <3>0. /\ \A k \in 1 .. n : V4(q.map, k) = V4(p.map, k) /\ V6(q.map, k) = V6(p.map, k)
            /\ V4(q.map, n + 1) = e.v4 /\ V6(q.map, n + 1) = e.v6
        BY <1>3, <2>2
      <3>6. /\ \A k \in 1 .. n : InHistory(p, "v4", V4(p.map, k)) /\ (V6(p.map, k) = 0 \/ InHistory(p, "v6", V6(p.map, k)))
            /\ \A k, l \in 1 .. n : k # l => V4(p.map, k) # V4(p.map, l) /\ (V6(p.map, k) # V6(p.map, l) \/ V6(p.map, k) = 0)
        BY <3>1, <3>2, Zenon
      <3>8. ~InHistory(p, "v4", e.v4) /\ (e.v6 = 0 \/ ~InHistory(p, "v6", e.v6))
        BY <1>7, <2>4, <2>6 DEF n
      <3>7. SUFFICES V4(q.map, i) # V4(q.map, j) /\ (V6(q.map, i) # V6(q.map, j) \/ V6(q.map, i) = 0)
        OBVIOUS
      <3> HIDE DEF V4, V6
      <3>3. CASE i = n + 1
        <4>1. j \in 1 .. n
          BY <1>0, <2>6, <3>3
        <4> QED BY <3>0, <3>3, <3>6, <3>8, <4>1
      <3>4. CASE j = n + 1
        <4>1. i \in 1 .. n
          BY <1>0, <2>6, <3>4
        <4> QED BY <3>0, <3>4, <3>6, <3>8, <4>1
      <3>5. CASE i # n + 1 /\ j # n + 1
        <4>1. i \in 1 .. n /\ j \in 1 .. n
          BY <1>0, <3>5
        <4> QED BY <2>6, <3>0, <3>6, <4>1
      <3> QED BY <3>3, <3>4, <3>5
    <2>7. FakesKnown(q)
      <3>1. Len(q.map) <= SI_MAP
        BY <1>0, <1>7, <2>2 DEF n
      <3> QED BY <2>2, <2>5, <2>6, <3>1 DEF FakesKnown
    <2>8. e.v6 # 0 => LeadsTo(q, e, real)
      <3>1. n + 1 \in 1 .. Len(q.map)
        BY <1>0, <2>2
      <3> QED BY <1>3, <2>2, <3>1 DEF LeadsTo
    <2>9. \A d, a : LeadsTo(p, d, a) => LeadsTo(q, d, a)
      <3>1. \A i \in 1 .. n : i \in 1 .. Len(q.map) /\ q.map[i] = p.map[i]
        BY <1>0, <2>2
      <3> QED BY <3>1 DEF LeadsTo, n
    <2> QED BY <1>2, <1>4, <2>1, <2>7, <2>8, <2>9 DEF q
  <1> QED BY <1>0, <1>6, <1>7

(* Both fakes of an address, its mapping, and what was mapped before. *)
LEMMA AddressMapped ==
  ASSUME NEW p \in IpState, FakesKnown(p), NEW real \in Nat, NEW x \in Nat, x # 0
  PROVE  LET m == MapAddress(p, real, x) IN
         /\ m.state \in IpState /\ FakesKnown(m.state) /\ SameButMap(p, m.state) /\ m.fake \in Fakes
         /\ p.lost => m.state.lost
         /\ ~m.state.lost => LeadsTo(m.state, m.fake, real)
         /\ \A d, a : LeadsTo(p, d, a) => LeadsTo(m.state, d, a)
  <1> DEFINE f4 == Fresh_fake(p, "v4", x)
             p4 == ip_add_history(p, "v4", f4)
             f6 == Fresh_fake(p4, "v6", x)
             r == ip_add_history(p4, "v6", f6)
             e == [v4 |-> f4, v6 |-> f6]
             q == add_mapping(r, [fake |-> e, real |-> real])
             m == MapAddress(p, real, x)
  <1>0. SI_ADDR_HISTORY \in Nat /\ SI_ADDR_HISTORY >= 2 * SI_MAP /\ SI_MAP \in Nat /\ Len(p.map) \in Nat /\ p.count \in Nat
    BY IpBounds, LenProperties DEF IpState
  <1>1. m.fake = e /\ m.state = q
    BY DEF MapAddress
  <1>2. f4 \in Nat /\ f4 # 0 /\ ~InHistory(p, "v4", f4)
    BY FreshFake DEF Family
  <1> HIDE DEF f4
  <1>3. /\ p4 \in IpState /\ SameButHistory(p, p4)
        /\ p.count < SI_ADDR_HISTORY =>
             /\ p4.count = p.count + 1 /\ InHistory(p4, "v4", f4)
             /\ \A k \in Family, b \in Nat : InHistory(p, k, b) => InHistory(p4, k, b)
    BY <1>2, HistoryAdded DEF Family
  <1> HIDE DEF p4
  <1>4. f6 \in Nat /\ f6 # 0 /\ ~InHistory(p4, "v6", f6)
    BY <1>3, FreshFake DEF Family
  <1> HIDE DEF f6
  <1>5. /\ r \in IpState /\ SameButHistory(p4, r)
        /\ p4.count < SI_ADDR_HISTORY =>
             /\ r.count = p4.count + 1 /\ InHistory(r, "v6", f6)
             /\ \A k \in Family, b \in Nat : InHistory(p4, k, b) => InHistory(r, k, b)
    BY <1>3, <1>4, HistoryAdded DEF Family
  <1> HIDE DEF r
  <1>6. e \in Fakes /\ e.v4 = f4 /\ e.v6 = f6
    BY <1>2, <1>4 DEF Fakes
  <1> HIDE DEF e
  <1>7. SameButHistory(p, r)
    BY <1>3, <1>5 DEF SameButHistory
  <1>8. ASSUME p.onions = 0, Len(p.map) < SI_MAP
        PROVE  /\ r.count <= p.count + 2 /\ InHistory(r, "v4", f4) /\ InHistory(r, "v6", f6)
               /\ ~InHistory(p, "v6", f6)
               /\ \A k \in Family, b \in Nat : InHistory(p, k, b) => InHistory(r, k, b)
    <2>1. p.count <= 2 * Len(p.map)
      BY <1>8 DEF FakesKnown
    <2>2. p.count < SI_ADDR_HISTORY /\ p.count + 1 < SI_ADDR_HISTORY
      BY <1>0, <1>8, <2>1
    <2>3. /\ p4.count = p.count + 1 /\ InHistory(p4, "v4", f4)
          /\ \A k \in Family, b \in Nat : InHistory(p, k, b) => InHistory(p4, k, b)
      BY <1>3, <2>2
    <2>4. /\ r.count = p.count + 2 /\ InHistory(r, "v6", f6)
          /\ \A k \in Family, b \in Nat : InHistory(p4, k, b) => InHistory(r, k, b)
      BY <1>0, <1>5, <2>2, <2>3
    <2>5. "v4" \in Family /\ "v6" \in Family
      BY DEF Family
    <2> QED BY <1>0, <1>2, <1>4, <2>3, <2>4, <2>5
  <1>9. /\ q \in IpState /\ FakesKnown(q) /\ SameButMap(p, q) /\ (p.lost => q.lost)
        /\ ~q.lost /\ e.v6 # 0 => LeadsTo(q, e, real)
        /\ \A d, a : LeadsTo(p, d, a) => LeadsTo(q, d, a)
    <2>1. p.onions = 0 /\ Len(p.map) < SI_MAP =>
            /\ ~InHistory(p, "v4", e.v4) /\ (e.v6 = 0 \/ ~InHistory(p, "v6", e.v6))
            /\ r.count <= p.count + 2 /\ InHistory(r, "v4", e.v4) /\ (e.v6 = 0 \/ InHistory(r, "v6", e.v6))
            /\ \A k \in Family, b \in Nat : InHistory(p, k, b) => InHistory(r, k, b)
      BY <1>2, <1>6, <1>8
    <2> QED BY <1>5, <1>6, <1>7, <2>1, FakeMapped
  <1> HIDE DEF q
  <1> QED BY <1>1, <1>4, <1>6, <1>9

(***************************************************************************)
(* The calls.  Expiry takes nothing out of the table; what is given after  *)
(* it leads back.                                                          *)
(***************************************************************************)
LEMMA PeerSet ==
  ASSUME NEW p \in IpState, FakesKnown(p), ~p.lost => LeadsTo(p, p.fake, 9), NEW peer \in Nat, NEW x \in Nat, x # 0
  PROVE  IpInv(anti_ip_set_peer(p, peer, x))
  <1> DEFINE m == MapAddress(p, peer, x)
             s == m.state
             f == m.fake
             q == anti_ip_set_peer(p, peer, x)
  <1>1. /\ s \in IpState /\ FakesKnown(s) /\ SameButMap(p, s) /\ f \in Fakes /\ (p.lost => s.lost)
        /\ ~s.lost => LeadsTo(s, f, peer)
        /\ \A d, a : LeadsTo(p, d, a) => LeadsTo(s, d, a)
    BY AddressMapped
  <1>2. q = [s EXCEPT !.peer = peer, !.fakepeer = f]
    BY DEF anti_ip_set_peer
  <1> HIDE DEF s, f, m, q
  <1>3. /\ q \in IpState /\ q.fake = s.fake /\ q.peer = peer /\ q.fakepeer = f /\ q.map = s.map /\ q.lost = s.lost
        /\ q.onions = s.onions /\ q.count = s.count /\ q.hist = s.hist
    <2> DEFINE t == [s EXCEPT !.peer = peer]
    <2>1. t \in IpState /\ t.fake = s.fake /\ t.peer = peer /\ t.map = s.map /\ t.lost = s.lost /\ t.onions = s.onions /\ t.count = s.count /\ t.hist = s.hist
      BY <1>1 DEF IpState
    <2>2. q = [t EXCEPT !.fakepeer = f]
      BY <1>2
    <2> HIDE DEF t
    <2> QED BY <1>1, <2>1, <2>2 DEF IpState
  <1>4. FakesKnown(q)
    BY <1>1, <1>3 DEF FakesKnown, InHistory
  <1>5. \A d, a : LeadsTo(s, d, a) => LeadsTo(q, d, a)
    BY <1>3 DEF LeadsTo
  <1>6. s.fake = p.fake
    BY <1>1 DEF SameButMap
  <1>7. IpInv(q)
    BY <1>1, <1>3, <1>4, <1>5, <1>6 DEF IpInv
  <1> QED BY <1>7 DEF q

LEMMA MappingsExpired ==
  ASSUME NEW p \in IpState, FakesKnown(p)
  PROVE  LET q == expire_mappings(p) IN q \in IpState /\ FakesKnown(q) /\ SameButMap(p, q) /\ q.lost = p.lost
  <1> DEFINE n == Len(p.map)
             kept(i) == [p.map[i] EXCEPT !.active = @ /\ p.epoch <= p.map[i].expires]
             g == [i \in DOMAIN p.map |-> kept(i)]
             q == expire_mappings(p)
  <1>1. n \in Nat /\ DOMAIN p.map = 1 .. n /\ \A i \in 1 .. n : p.map[i] \in Mappings
    BY LenProperties, ElementOfSeq DEF IpState
  <1> HIDE DEF n
  <1>2. \A i \in 1 .. n : kept(i) \in Mappings /\ kept(i).fake = p.map[i].fake
    BY <1>1 DEF Mappings
  <1> HIDE DEF kept
  <1>3. /\ g \in Seq(Mappings) /\ Len(g) = n /\ \A i \in 1 .. n : g[i] = kept(i)
    BY <1>1, <1>2
  <1>4. q = [p EXCEPT !.map = g]
    BY DEF expire_mappings, kept
  <1> HIDE DEF g, q
  <1>5. /\ q \in IpState /\ SameButMap(p, q) /\ q.lost = p.lost /\ q.map = g /\ q.count = p.count /\ q.hist = p.hist /\ q.onions = p.onions
    BY <1>3, <1>4 DEF IpState, SameButMap
  <1>6. Len(q.map) = Len(p.map) /\ \A i \in 1 .. Len(p.map) : q.map[i].fake = p.map[i].fake
    BY <1>2, <1>3, <1>5 DEF n
  <1>7. \A f, a : InHistory(q, f, a) <=> InHistory(p, f, a)
    BY <1>5 DEF InHistory
  <1>8. FakesKnown(q)
    BY <1>5, <1>6, <1>7 DEF FakesKnown
  <1> QED BY <1>5, <1>8 DEF q

LEMMA Rotated ==
  ASSUME NEW p, IpInv(p), NEW x \in Nat, x # 0
  PROVE  IpInv(anti_ip_rotate(p, x))
  <1> DEFINE q == [p EXCEPT !.epoch = @ + 1]
             z == expire_mappings(q)
             m == MapAddress(z, 9, x)
             s == m.state
             f == m.fake
             r == [s EXCEPT !.fake = f]
  <1>0. p \in IpState /\ FakesKnown(p)
    BY DEF IpInv
  <1>1. q \in IpState /\ q.map = p.map /\ q.onions = p.onions /\ q.count = p.count /\ q.hist = p.hist /\ q.peer = p.peer
    <2> DEFINE n == p.epoch + 1
    <2>1. n \in Nat
      BY <1>0 DEF IpState
    <2>2. q = [p EXCEPT !.epoch = n]
      OBVIOUS
    <2> HIDE DEF n, q
    <2> QED BY <1>0, <2>1, <2>2 DEF IpState
  <1>2. FakesKnown(q)
    BY <1>0, <1>1 DEF FakesKnown, InHistory
  <1> HIDE DEF q
  <1>3. z \in IpState /\ FakesKnown(z) /\ SameButMap(q, z)
    BY <1>1, <1>2, MappingsExpired
  <1> HIDE DEF z
  <1>4. /\ s \in IpState /\ FakesKnown(s) /\ SameButMap(z, s) /\ f \in Fakes
        /\ ~s.lost => LeadsTo(s, f, 9)
    BY <1>3, AddressMapped
  <1> HIDE DEF m, s, f
  <1>5. r \in IpState /\ r.fake = f /\ r.map = s.map /\ r.lost = s.lost /\ r.onions = s.onions /\ r.count = s.count /\ r.hist = s.hist /\ r.peer = s.peer
    BY <1>4 DEF IpState
  <1>6. FakesKnown(r) /\ (~r.lost => LeadsTo(r, r.fake, 9))
    BY <1>4, <1>5 DEF FakesKnown, InHistory, LeadsTo
  <1>7. r.peer = p.peer /\ p.peer \in Nat
    BY <1>0, <1>1, <1>3, <1>4, <1>5 DEF SameButMap, IpState
  <1>8. anti_ip_rotate(p, x) = IF p.peer = 0 THEN r ELSE anti_ip_set_peer(r, p.peer, x)
    BY DEF anti_ip_rotate, q, z, m, s, f
  <1> HIDE DEF r
  <1>9. CASE p.peer = 0
    BY <1>5, <1>6, <1>7, <1>8, <1>9 DEF IpInv
  <1>10. CASE p.peer # 0
    BY <1>5, <1>6, <1>7, <1>8, <1>10, PeerSet
  <1> QED BY <1>9, <1>10

(* What keeps the fakes in use and only adds to the table keeps IpInv. *)
LEMMA StillLead ==
  ASSUME NEW p, IpInv(p), NEW q \in IpState, FakesKnown(q), q.fake = p.fake, q.peer = p.peer, q.fakepeer = p.fakepeer,
         p.lost => q.lost, \A d, a : LeadsTo(p, d, a) => LeadsTo(q, d, a)
  PROVE  IpInv(q)
  BY DEF IpInv

LEMMA Wrapped ==
  ASSUME NEW p, IpInv(p), NEW relay \in Nat, NEW x \in Nat, x # 0
  PROVE  IpInv(anti_ip_onion_wrap(p, relay, x))
  <1> DEFINE f4 == Fresh_fake(p, "v4", x)
             r == ip_add_history(p, "v4", f4)
             e == [v4 |-> f4, v6 |-> 0]
             s == add_mapping(r, [fake |-> e, real |-> relay])
             longer == Append(s.layers, relay)
             q == [s EXCEPT !.layers = longer]
  <1>0. p \in IpState /\ FakesKnown(p)
    BY DEF IpInv
  <1>1. f4 \in Nat /\ f4 # 0 /\ ~InHistory(p, "v4", f4)
    BY <1>0, FreshFake DEF Family
  <1> HIDE DEF f4
  <1>2. /\ r \in IpState /\ SameButHistory(p, r)
        /\ p.count < SI_ADDR_HISTORY =>
             /\ r.count = p.count + 1 /\ InHistory(r, "v4", f4)
             /\ \A k \in Family, b \in Nat : InHistory(p, k, b) => InHistory(r, k, b)
    BY <1>0, <1>1, HistoryAdded DEF Family
  <1> HIDE DEF r
  <1>3. e \in Fakes /\ e.v4 = f4 /\ e.v6 = 0
    BY <1>1 DEF Fakes
  <1> HIDE DEF e
  <1>4. p.onions = 0 /\ Len(p.map) < SI_MAP =>
          /\ ~InHistory(p, "v4", e.v4) /\ (e.v6 = 0 \/ ~InHistory(p, "v6", e.v6))
          /\ r.count <= p.count + 2 /\ InHistory(r, "v4", e.v4) /\ (e.v6 = 0 \/ InHistory(r, "v6", e.v6))
          /\ \A k \in Family, b \in Nat : InHistory(p, k, b) => InHistory(r, k, b)
    <2>1. SUFFICES ASSUME p.onions = 0, Len(p.map) < SI_MAP
                   PROVE  /\ r.count <= p.count + 2 /\ InHistory(r, "v4", f4)
                          /\ \A k \in Family, b \in Nat : InHistory(p, k, b) => InHistory(r, k, b)
      BY <1>1, <1>3
    <2>2. p.count <= 2 * Len(p.map)
      BY <1>0, <2>1 DEF FakesKnown
    <2>3. p.count < SI_ADDR_HISTORY /\ p.count \in Nat
      BY <1>0, <2>1, <2>2, IpBounds, LenProperties DEF IpState
    <2> QED BY <1>2, <2>3
  <1>5. /\ s \in IpState /\ FakesKnown(s) /\ SameButMap(p, s) /\ (p.lost => s.lost)
        /\ \A d, a : LeadsTo(p, d, a) => LeadsTo(s, d, a)
    BY <1>0, <1>2, <1>3, <1>4, FakeMapped
  <1> HIDE DEF s
  <1>6. longer \in Seq(Nat)
    BY <1>5 DEF IpState
  <1> HIDE DEF longer
  <1>7. /\ q \in IpState /\ q.fake = s.fake /\ q.peer = s.peer /\ q.fakepeer = s.fakepeer /\ q.map = s.map /\ q.lost = s.lost
        /\ q.onions = s.onions /\ q.count = s.count /\ q.hist = s.hist
    BY <1>5, <1>6 DEF IpState
  <1>8. FakesKnown(q) /\ \A d, a : LeadsTo(s, d, a) => LeadsTo(q, d, a)
    BY <1>5, <1>7 DEF FakesKnown, InHistory, LeadsTo
  <1>9. q.fake = p.fake /\ q.peer = p.peer /\ q.fakepeer = p.fakepeer
    BY <1>5, <1>7 DEF SameButMap
  <1>10. anti_ip_onion_wrap(p, relay, x) = IF Len(p.layers) >= SI_LAYERS THEN p ELSE q
    BY DEF anti_ip_onion_wrap, f4, r, e, s, longer
  <1> HIDE DEF q
  <1>11. IpInv(q)
    BY <1>5, <1>7, <1>8, <1>9, StillLead
  <1> QED BY <1>10, <1>11

LEMMA OnionApplied ==
  ASSUME NEW p, IpInv(p), NEW x \in Nat, x # 0
  PROVE  IpInv(anti_ip_onion_apply_v4(p, x))
  <1> DEFINE f4 == Fresh_fake(p, "v4", x)
             r == ip_add_history(p, "v4", f4)
             q == [r EXCEPT !.onions = @ + 1]
  <1>0. p \in IpState /\ FakesKnown(p)
    BY DEF IpInv
  <1>1. f4 \in Nat
    BY <1>0, FreshFake DEF Family
  <1> HIDE DEF f4
  <1>2. r \in IpState /\ SameButHistory(p, r)
    BY <1>0, <1>1, HistoryAdded DEF Family
  <1> HIDE DEF r
  <1>3. /\ q \in IpState /\ q.fake = p.fake /\ q.peer = p.peer /\ q.fakepeer = p.fakepeer /\ q.map = p.map /\ q.lost = p.lost
        /\ q.onions = r.onions + 1 /\ r.onions \in Nat
    <2> DEFINE n == r.onions + 1
    <2>1. n \in Nat /\ r.onions \in Nat
      BY <1>2 DEF IpState
    <2>2. q = [r EXCEPT !.onions = n]
      OBVIOUS
    <2> HIDE DEF q
    <2>3. n = r.onions + 1
      OBVIOUS
    <2> HIDE DEF n
    <2> QED BY <1>2, <2>1, <2>2, <2>3 DEF IpState, SameButHistory
  <1>4. FakesKnown(q) /\ \A d, a : LeadsTo(p, d, a) => LeadsTo(q, d, a)
    BY <1>0, <1>3 DEF FakesKnown, LeadsTo
  <1>5. anti_ip_onion_apply_v4(p, x) = IF p.layers = <<>> THEN p ELSE q
    BY DEF anti_ip_onion_apply_v4, f4, r
  <1> HIDE DEF q
  <1>6. IpInv(q)
    BY <1>3, <1>4, StillLead
  <1> QED BY <1>5, <1>6

LEMMA ModeSet ==
  ASSUME NEW p, IpInv(p)
  PROVE  IpInv([p EXCEPT !.mode = 4 - @])
  <1> DEFINE q == [p EXCEPT !.mode = 4 - @]
  <1>0. p \in IpState /\ FakesKnown(p)
    BY DEF IpInv
  <1>1. /\ q \in IpState /\ q.fake = p.fake /\ q.peer = p.peer /\ q.fakepeer = p.fakepeer /\ q.map = p.map /\ q.lost = p.lost
        /\ q.onions = p.onions /\ q.count = p.count /\ q.hist = p.hist
    <2> DEFINE n == 4 - p.mode
    <2>1. n \in {0, 4}
      BY <1>0 DEF IpState
    <2>2. q = [p EXCEPT !.mode = n]
      OBVIOUS
    <2> HIDE DEF n, q
    <2> QED BY <1>0, <2>1, <2>2 DEF IpState
  <1> HIDE DEF q
  <1>2. FakesKnown(q) /\ \A d, a : LeadsTo(p, d, a) => LeadsTo(q, d, a)
    BY <1>0, <1>1 DEF FakesKnown, InHistory, LeadsTo
  <1>3. IpInv(q)
    BY <1>1, <1>2, StillLead
  <1> QED BY <1>3 DEF q

LEMMA IpStart == ASSUME NEW x \in Nat, x # 0 PROVE IpInv(anti_ip_init(x))
  <1> DEFINE none == [v4 |-> 0, v6 |-> 0]
             empty == [k \in {"v4", "v6"} |-> [i \in 1 .. SI_ADDR_HISTORY |-> 0]]
             p == [fake |-> none, peer |-> 0, fakepeer |-> none, epoch |-> 0, map |-> <<>>, count |-> 0, layers |-> <<>>,
                   mode |-> 4, lost |-> FALSE, onions |-> 0, hist |-> empty]
             m == MapAddress(p, 9, x)
             s == m.state
             f == m.fake
             q == [s EXCEPT !.fake = f]
  <1>0. none \in Fakes /\ empty \in Histories
    BY DEF Fakes, Histories, Family
  <1> HIDE DEF none, empty
  <1>1. p \in IpState /\ p.map = <<>> /\ p.count = 0 /\ p.peer = 0
    BY <1>0, IpBounds DEF IpState
  <1>2. FakesKnown(p)
    BY <1>1, IpBounds DEF FakesKnown
  <1>3. anti_ip_init(x) = q
    BY DEF anti_ip_init, none, empty
  <1> HIDE DEF p
  <1>4. /\ s \in IpState /\ FakesKnown(s) /\ SameButMap(p, s) /\ f \in Fakes
        /\ ~s.lost => LeadsTo(s, f, 9)
    BY <1>1, <1>2, AddressMapped
  <1> HIDE DEF m, s, f
  <1>5. q \in IpState /\ q.fake = f /\ q.map = s.map /\ q.lost = s.lost /\ q.onions = s.onions /\ q.count = s.count /\ q.hist = s.hist /\ q.peer = 0
    BY <1>1, <1>4 DEF IpState, SameButMap
  <1> HIDE DEF q
  <1>6. IpInv(q)
    BY <1>4, <1>5 DEF FakesKnown, InHistory, LeadsTo, IpInv
  <1> QED BY <1>3, <1>6

(* A fake that is mapped once and in use is found, by either family. *)
LEMMA FakeFound ==
  ASSUME NEW p \in IpState, FakesKnown(p), p.onions = 0, NEW e \in Fakes, NEW real, LeadsTo(p, e, real), NEW f \in Family
  PROVE  lookup_mapping(p, f, e[f]) = real
  <1>1. PICK i \in 1 .. Len(p.map) : p.map[i].fake = e /\ p.map[i].real = real /\ p.map[i].active
    BY DEF LeadsTo
  <1>2. e.v6 # 0 /\ DOMAIN p.map = 1 .. Len(p.map)
    BY LenProperties DEF LeadsTo, IpState
  <1> DEFINE S == {j \in DOMAIN p.map : p.map[j].active /\ p.map[j].fake[f] = e[f]}
  <1>3. S = {i}
    <2>1. i \in S
      BY <1>1, <1>2
    <2>2. ASSUME NEW j \in S, j # i PROVE FALSE
      <3>1. j \in 1 .. Len(p.map) /\ p.map[j].fake[f] = e[f]
        BY <1>2
      <3>2. p.map[i].fake.v4 # p.map[j].fake.v4 /\ (p.map[i].fake.v6 # p.map[j].fake.v6 \/ p.map[i].fake.v6 = 0)
        BY <2>2, <3>1 DEF FakesKnown
      <3> QED BY <1>1, <1>2, <3>1, <3>2 DEF Family
    <2> QED BY <2>1, <2>2
  <1>4. lookup_mapping(p, f, e[f]) = IF S = {} THEN e[f] ELSE p.map[CHOOSE j \in S : \A k \in S : j <= k].real
    BY DEF lookup_mapping
  <1>5. (CHOOSE j \in S : \A k \in S : j <= k) = i
    <2>1. \E j \in S : \A k \in S : j <= k
      BY <1>3
    <2> QED BY <1>3, <2>1
  <1> QED BY <1>1, <1>3, <1>4, <1>5

LEMMA PacketsLeadBack == ASSUME IpInv(si_ip) PROVE PacketsComeBack
  <1> DEFINE p == si_ip
             packet == [src |-> 9, dst |-> p.peer]
  <1>0. p \in IpState /\ FakesKnown(p) /\ p.fake \in Fakes /\ p.fakepeer \in Fakes /\ DOMAIN p.map = 1 .. Len(p.map)
    BY LenProperties DEF IpInv, IpState
  <1>1. ASSUME ~p.lost, p.onions = 0, NEW f \in Family, p.peer # 0
        PROVE  deobfuscate(p, f, obfuscate(p, f, packet)) = packet
    <2>1. lookup_mapping(p, f, p.fake[f]) = 9 /\ lookup_mapping(p, f, p.fakepeer[f]) = p.peer
      <3>1. LeadsTo(p, p.fake, 9) /\ LeadsTo(p, p.fakepeer, p.peer)
        BY <1>1 DEF IpInv
      <3> QED BY <1>0, <1>1, <3>1, FakeFound
    <2>2. CASE p.mode = 0
      BY <2>2 DEF deobfuscate, obfuscate
    <2>3. CASE p.mode # 0
      <3>1. obfuscate(p, f, packet) = [src |-> p.fake[f], dst |-> p.fakepeer[f]]
        BY <2>3 DEF obfuscate
      <3> QED BY <2>1, <2>3, <3>1 DEF deobfuscate
    <2> QED BY <2>2, <2>3
  <1>2. ASSUME p.onions = 0, NEW i \in DOMAIN p.map, NEW j \in DOMAIN p.map, p.map[i].fake.v4 = p.map[j].fake.v4
        PROVE  i = j
    BY <1>0, <1>2 DEF FakesKnown
  <1> QED BY <1>1, <1>2 DEF PacketsComeBack, Family

WireInv == RandomInv /\ NoQuickReuse /\ MaskInv /\ IpInv(si_ip)

LEMMA WireStart == SIInit => WireInv
  <1> SUFFICES ASSUME SIInit PROVE WireInv
    OBVIOUS
  <1>1. RandomInv /\ MaskInv
    BY RandomStart, MaskStart
  <1>2. NoQuickReuse
    <2> DEFINE m == generate_random_mac(CHOOSE r \in SI_RANDOM : TRUE)
    <2>1. si_rand = [cur |-> m, hist |-> <<Hardware, m>>, given |-> <<m>>]
      BY DEF SIInit
    <2> HIDE DEF m
    <2>2. DOMAIN si_rand.given = {1}
      BY <2>1
    <2> QED BY <2>2 DEF NoQuickReuse
  <1>3. IpInv(si_ip)
    <2>1. (CHOOSE x \in SI_HASH : TRUE) \in Nat \ {0}
      BY SIAddresses
    <2>2. si_ip = anti_ip_init(CHOOSE x \in SI_HASH : TRUE)
      BY DEF SIInit
    <2> QED BY <2>1, <2>2, IpStart
  <1> QED BY <1>1, <1>2, <1>3 DEF WireInv

LEMMA WireStep == WireInv /\ [SINext]_siVars => WireInv'
  <1> SUFFICES ASSUME WireInv, [SINext]_siVars PROVE WireInv'
    OBVIOUS
  <1>1. MaskInv'
    BY MaskStep DEF WireInv
  <1>2. RandomInv' /\ NoQuickReuse'
    <2>1. CASE mac_random_rotate
      BY <2>1, RandomStep, RandomKeepsApart DEF WireInv
    <2>2. CASE UNCHANGED si_rand
      BY <2>2 DEF WireInv, RandomInv, NoQuickReuse
    <2> QED BY <2>1, <2>2 DEF SINext, siVars, mac_mask_rotate, mac_mask_set_preserve, mac_rot_call, oui_call, mac_clone_call, mac_apply, anti_ip_call
  <1>3. IpInv(si_ip')
    <2>1. CASE anti_ip_call
      <3>1. PICK x \in SI_HASH :
              \/ si_ip' = anti_ip_rotate(si_ip, x)
              \/ si_ip' = anti_ip_onion_apply_v4(si_ip, x)
              \/ si_ip' = [si_ip EXCEPT !.mode = 4 - @]
              \/ \E a \in SI_PEERS : si_ip' = anti_ip_set_peer(si_ip, a, x)
              \/ \E a \in SI_PEERS : si_ip' = anti_ip_onion_wrap(si_ip, a, x)
        BY <2>1 DEF anti_ip_call
      <3>2. x \in Nat /\ x # 0 /\ SI_PEERS \subseteq Nat
        BY SIAddresses
      <3>3. IpInv(si_ip)
        BY DEF WireInv
      <3>4. CASE si_ip' = anti_ip_rotate(si_ip, x)
        BY <3>2, <3>3, <3>4, Rotated
      <3>5. CASE si_ip' = anti_ip_onion_apply_v4(si_ip, x)
        BY <3>2, <3>3, <3>5, OnionApplied
      <3>6. CASE si_ip' = [si_ip EXCEPT !.mode = 4 - @]
        BY <3>3, <3>6, ModeSet
      <3>7. CASE \E a \in SI_PEERS : si_ip' = anti_ip_set_peer(si_ip, a, x)
        <4>1. PICK a \in SI_PEERS : si_ip' = anti_ip_set_peer(si_ip, a, x)
          BY <3>7
        <4>2. si_ip \in IpState /\ FakesKnown(si_ip) /\ (~si_ip.lost => LeadsTo(si_ip, si_ip.fake, 9)) /\ a \in Nat
          BY <3>2, <3>3 DEF IpInv
        <4> QED BY <3>2, <4>1, <4>2, PeerSet
      <3>8. CASE \E a \in SI_PEERS : si_ip' = anti_ip_onion_wrap(si_ip, a, x)
        <4>1. PICK a \in SI_PEERS : si_ip' = anti_ip_onion_wrap(si_ip, a, x)
          BY <3>8
        <4>2. a \in Nat
          BY <3>2
        <4> QED BY <3>2, <3>3, <4>1, <4>2, Wrapped
      <3> QED BY <3>1, <3>4, <3>5, <3>6, <3>7, <3>8
    <2>2. CASE UNCHANGED si_ip
      BY <2>2 DEF WireInv
    <2> QED BY <2>1, <2>2 DEF SINext, siVars, mac_random_rotate, mac_mask_rotate, mac_mask_set_preserve, mac_rot_call, oui_call, mac_clone_call, mac_apply
  <1> QED BY <1>1, <1>2, <1>3 DEF WireInv

LEMMA WireMeans == WireInv => WireAddresses
  BY MaskMeans, PacketsLeadBack DEF WireInv, WireAddresses

(***************************************************************************)
(* The addresses on the wire: no random MAC comes back while half the      *)
(* history reaches, what a mask turned is turned back, and a packet that   *)
(* leaves with fake addresses comes back with the real ones as long as no  *)
(* mapping was refused (mac_random, mac_mask, anti_ip).                    *)
(***************************************************************************)
THEOREM WireAddressesLeadBack == SISpec => []WireAddresses
  <1>1. SISpec => []WireInv
    BY WireStart, WireStep, PTL DEF SISpec
  <1> QED BY <1>1, WireMeans, PTL

(***************************************************************************)
(* Streams and addresses together: no byte of keystream is used twice and  *)
(* what is encrypted comes back, and what goes out instead of an address   *)
(* leads back to it (security/common, mac_encrypt, anti_ip).               *)
(***************************************************************************)
THEOREM SecretsCorrect == CYSpec /\ SISpec => []SecretsSound
  BY StreamsComeBack, WireAddressesLeadBack, PTL DEF SecretsSound
=============================================================================
