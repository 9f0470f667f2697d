------------------------------- MODULE SIdent -------------------------------
(***************************************************************************)
(* The addresses stage 2 shows on the wire: the five MAC modules           *)
(* (mac_random, mac_mask, mac_rot, mac_oui, mac_clone) over one card, and  *)
(* anti_ip, which puts fake IPv4 and IPv6 addresses into packets.          *)
(*                                                                         *)
(* A MAC is its two IEEE bits and a set of atoms, so that exclusive or is  *)
(* symmetric difference.  An IP address is a number, 0 is none; what a     *)
(* hash of key, address and epoch gives is any number of SI_HASH.          *)
(***************************************************************************)
EXTENDS SDisk, SCipher

CONSTANTS SI_RANDOM,      \* values of the random bytes of a MAC
          SI_HISTORY,     \* MAC_RANDOM_HISTORY
          SI_CHAIN,       \* MAC_ROT_MAX_CHAIN
          SI_OUIS,        \* the local bit of each prefix of common_ouis
          SI_TARGETS,     \* MAC_CLONE_MAX_TARGETS
          SI_HASH,        \* fake addresses a hash may give
          SI_PEERS,       \* addresses of peers and relays; 9 is the real one
          SI_MAP, SI_ADDR_HISTORY, SI_LAYERS,  \* ANTI_IP_MAX_ENTITIES, ANTI_IP_HISTORY, MAX_ONION_LAYERS
          SI_EXPIRE,      \* epochs a mapping lives
          SI_CALLS        \* bound on calls

\* There are more random MACs than places in the history (2^46 and 16).
ASSUME SIRandomEnough ==
  /\ SI_HISTORY \in Nat /\ SI_HISTORY >= 2 /\ SI_RANDOM # {}
  /\ \A f \in [1 .. SI_HISTORY - 1 -> SI_RANDOM] : \E r \in SI_RANDOM : \A i \in 1 .. SI_HISTORY - 1 : f[i] # r
\* The addresses' history has two places for every mapping (64 and 32); no hash
\* gives the address 0.
ASSUME SIAddresses ==
  /\ SI_MAP \in Nat \ {0} /\ SI_ADDR_HISTORY \in Nat /\ 2 * SI_MAP <= SI_ADDR_HISTORY
  /\ SI_HASH \subseteq Nat \ {0} /\ SI_HASH # {} /\ SI_PEERS \subseteq Nat
  /\ SI_EXPIRE \in Nat /\ SI_LAYERS \in Nat

VARIABLES si_nic,     \* the card's MAC
          si_rand,    \* mac_random: current MAC, history; given: the MACs it made, newest last
          si_mask,    \* mac_mask: key, masked MAC, preserved bits now and when it was masked
          si_rot,     \* mac_rot: current MAC, chain index, auto_rotate
          si_oui,     \* mac_oui: spoofed MAC, randomize_nic, preserve_universal
          si_clone,   \* mac_clone: targets, cloned MAC, is_cloned
          si_ip,      \* anti_ip: fakes, peer, epoch, mapping, histories, layers, mode; lost: a mapping was refused
          si_calls
siVars == <<si_nic, si_rand, si_mask, si_rot, si_oui, si_clone, si_ip, si_calls>>

SiXor(a, b) == (a \ b) \cup (b \ a)
SiMac(group, local, rest) == [group |-> group, local |-> local, rest |-> rest]
\* The hardware address, which every module was given at its init.
Hardware == SiMac(0, 0, {<<"hw", 0>>})

----------------------------------------------------------------------------
(* MAC modules *)

\* mac_add_history: the oldest gives way.
mac_add_history(h, m) == Append(IF Len(h) >= SI_HISTORY THEN Tail(h) ELSE h, m)
\* generate_random_mac: locally administered, unicast; the bits kept from the
\* original change nothing.
generate_random_mac(r) == SiMac(0, 1, {<<"random", r>>})
\* mac_random_rotate: the current MAC goes to the history again; a MAC that is in
\* the history is not taken, unless all are.
mac_random_rotate ==
  LET h == mac_add_history(si_rand.hist, si_rand.cur)
      Free == {r \in SI_RANDOM : \A i \in DOMAIN h : h[i] # generate_random_mac(r)}
  IN  /\ \E r \in IF Free = {} THEN SI_RANDOM ELSE Free :
           LET m == generate_random_mac(r) IN si_rand' = [cur |-> m, hist |-> mac_add_history(h, m), given |-> Append(si_rand.given, m)]
      /\ UNCHANGED <<si_nic, si_mask, si_rot, si_oui, si_clone, si_ip>>

\* mask_byte, apply_mask: preserved bits stay, the others are turned by the key.
apply_mask(m, key, keep) ==
  SiMac(IF keep.unicast THEN m.group ELSE (m.group + key.group) % 2, IF keep.locally THEN m.local ELSE (m.local + key.local) % 2,
        SiXor(m.rest, {<<"mask", key.version>>}))
\* mac_mask_rotate: the next key, and the hardware address masked with it.
mac_mask_rotate ==
  /\ \E g, l \in {0, 1} :
       LET key == [version |-> si_mask.key.version + 1, group |-> g, local |-> l]
       IN  si_mask' = [key |-> key, keep |-> si_mask.keep, used |-> si_mask.keep, masked |-> apply_mask(Hardware, key, si_mask.keep)]
  /\ UNCHANGED <<si_nic, si_rand, si_rot, si_oui, si_clone, si_ip>>
mac_mask_set_preserve ==
  /\ \E u, l \in BOOLEAN : si_mask' = [si_mask EXCEPT !.keep = [unicast |-> u, locally |-> l]]
  /\ UNCHANGED <<si_nic, si_rand, si_rot, si_oui, si_clone, si_ip>>
\* mac_mask_unmask: masks once more, with the bits preserved now.
mac_mask_unmask(m) == apply_mask(m, si_mask.key, si_mask.keep)

\* derive_next_mac: the chain is made at init.
seed_chain(i) == SiMac(0, 1, {<<"chain", i>>})
mac_rot_jump_to(s, i) == [s EXCEPT !.idx = i, !.cur = seed_chain(i)]
mac_rot_rotate(s) == mac_rot_jump_to(s, (s.idx + 1) % SI_CHAIN)
\* mac_rot_tick sets the card when the interval has passed; mac_rot_set_auto.
mac_rot_call ==
  /\ \/ si_rot.auto /\ si_rot' = mac_rot_rotate(si_rot) /\ si_nic' = mac_rot_rotate(si_rot).cur
     \/ /\ UNCHANGED si_nic
        /\ si_rot' \in {mac_rot_rotate(si_rot), [si_rot EXCEPT !.auto = ~@]} \cup {mac_rot_jump_to(si_rot, i) : i \in 0 .. SI_CHAIN - 1}
  /\ UNCHANGED <<si_rand, si_mask, si_oui, si_clone, si_ip>>

\* oui_spoof_select: the prefix, the rest of the original or random, and the
\* original's local bit.
oui_spoof_select(s, i, r) ==
  [s EXCEPT !.mac = SiMac(0, IF s.universal THEN Hardware.local ELSE SI_OUIS[i], {<<"oui", i>>} \cup (IF s.randomize THEN {<<"random", r>>} ELSE Hardware.rest))]
oui_call ==
  /\ \/ \E i \in DOMAIN SI_OUIS, r \in SI_RANDOM : si_oui' = oui_spoof_select(si_oui, i, r)
     \/ si_oui' \in {[si_oui EXCEPT !.universal = ~@], [si_oui EXCEPT !.randomize = ~@]}
  /\ UNCHANGED <<si_nic, si_rand, si_mask, si_rot, si_clone, si_ip>>

\* mac_clone_add_target, mac_clone_scan: a target's round trip time is never set,
\* so select finds none and only mac_clone_set_target makes the card a clone.
mac_clone_add_target(c, m) == IF Len(c.targets) >= SI_TARGETS THEN c ELSE [c EXCEPT !.targets = Append(@, [mac |-> m, rtt |-> "never"])]
mac_clone_select_target(c) ==
  LET S == {i \in DOMAIN c.targets : c.targets[i].rtt # "never"} IN IF S = {} THEN c ELSE [c EXCEPT !.mac = c.targets[CHOOSE i \in S : TRUE].mac]
mac_clone_call ==
  /\ \E r \in SI_RANDOM, g \in {0, 1} :
       LET m == SiMac(g, 0, {<<"peer", r>>})
       IN  \/ si_clone' = mac_clone_add_target(si_clone, m) /\ UNCHANGED si_nic
           \/ si_clone' = [si_clone EXCEPT !.mac = m, !.cloned = TRUE] /\ si_nic' = m
  /\ UNCHANGED <<si_rand, si_mask, si_rot, si_oui, si_ip>>

\* *_apply and *_restore of the five modules.
mac_apply ==
  /\ \/ si_nic' \in {si_rand.cur, si_mask.masked, si_rot.cur, si_oui.mac, Hardware} /\ UNCHANGED si_clone
     \/ LET c == IF si_clone.cloned THEN si_clone ELSE mac_clone_select_target(si_clone)
        IN  si_clone' = c /\ si_nic' = IF c.cloned THEN c.mac ELSE si_nic
     \/ si_nic' = Hardware /\ si_clone' = [si_clone EXCEPT !.cloned = FALSE]
  /\ UNCHANGED <<si_rand, si_mask, si_rot, si_oui, si_ip>>

----------------------------------------------------------------------------
(* anti_ip.  Both histories use one count, and a full one is shifted alone. *)
ip_add_history(p, f, a) ==
  LET full == p.count >= SI_ADDR_HISTORY
      n == IF full THEN SI_ADDR_HISTORY ELSE p.count + 1
      h == IF full THEN [i \in 1 .. SI_ADDR_HISTORY |-> IF i = SI_ADDR_HISTORY THEN 0 ELSE p.hist[f][i + 1]] ELSE p.hist[f]
  IN  [p EXCEPT !.count = n, !.hist[f] = [h EXCEPT ![n] = a]]
\* generate_fake_v4, generate_fake_v6: the next address that is not in the history.
Fresh_fake(p, f, x) == CHOOSE a \in x .. x + SI_ADDR_HISTORY : /\ \A i \in 1 .. p.count : p.hist[f][i] # a
                                                               /\ \A b \in x .. a - 1 : \E i \in 1 .. p.count : p.hist[f][i] = b
\* add_mapping: nothing when the table is full.
add_mapping(p, e) ==
  IF Len(p.map) >= SI_MAP THEN [p EXCEPT !.lost = TRUE] ELSE [p EXCEPT !.map = Append(@, [fake |-> e.fake, real |-> e.real, expires |-> p.epoch + SI_EXPIRE, active |-> TRUE])]
\* Fakes for an address, both families, and its mapping.
MapAddress(p, real, x) ==
  LET f4 == Fresh_fake(p, "v4", x)
      p4 == ip_add_history(p, "v4", f4)
      f6 == Fresh_fake(p4, "v6", x)
  IN  [fake |-> [v4 |-> f4, v6 |-> f6], state |-> add_mapping(ip_add_history(p4, "v6", f6), [fake |-> [v4 |-> f4, v6 |-> f6], real |-> real])]
anti_ip_init(x) ==
  LET p == [fake |-> [v4 |-> 0, v6 |-> 0], peer |-> 0, fakepeer |-> [v4 |-> 0, v6 |-> 0], epoch |-> 0, map |-> <<>>, count |-> 0, layers |-> <<>>, mode |-> 4, lost |-> FALSE, onions |-> 0,
            hist |-> [f \in {"v4", "v6"} |-> [i \in 1 .. SI_ADDR_HISTORY |-> 0]]]
      m == MapAddress(p, 9, x)
  IN  [m.state EXCEPT !.fake = m.fake]
\* anti_ip_set_peer
anti_ip_set_peer(p, peer, x) == LET m == MapAddress(p, peer, x) IN [m.state EXCEPT !.peer = peer, !.fakepeer = m.fake]
\* expire_mappings: a place in the table is not given back.
expire_mappings(p) == [p EXCEPT !.map = [i \in DOMAIN p.map |-> [p.map[i] EXCEPT !.active = @ /\ p.epoch <= p.map[i].expires]]]
\* anti_ip_rotate: new fakes for the real address and the peer; the old ones stay mapped.
anti_ip_rotate(p, x) ==
  LET q == [p EXCEPT !.epoch = @ + 1]
      m == MapAddress(expire_mappings(q), 9, x)
      r == [m.state EXCEPT !.fake = m.fake]
  IN  IF p.peer = 0 THEN r ELSE anti_ip_set_peer(r, p.peer, x)
\* anti_ip_onion_wrap: an IPv4 fake for a relay; none for IPv6.
anti_ip_onion_wrap(p, relay, x) ==
  IF Len(p.layers) >= SI_LAYERS THEN p
  ELSE LET f4 == Fresh_fake(p, "v4", x)
       IN  [add_mapping(ip_add_history(p, "v4", f4), [fake |-> [v4 |-> f4, v6 |-> 0], real |-> relay]) EXCEPT !.layers = Append(@, relay)]
\* anti_ip_onion_apply_v4: another fake for every packet, which nothing maps.
anti_ip_onion_apply_v4(p, x) == IF p.layers = <<>> THEN p ELSE [ip_add_history(p, "v4", Fresh_fake(p, "v4", x)) EXCEPT !.onions = @ + 1]

\* anti_ip_obfuscate_v4, _v6; anti_ip_deobfuscate_v4, _v6 by the first mapping.
obfuscate(p, f, packet) ==
  IF p.mode = 0 THEN packet
  ELSE [src |-> IF packet.src = 9 THEN p.fake[f] ELSE packet.src, dst |-> IF packet.dst = p.peer THEN p.fakepeer[f] ELSE packet.dst]
lookup_mapping(p, f, a) ==
  LET S == {i \in DOMAIN p.map : p.map[i].active /\ p.map[i].fake[f] = a} IN IF S = {} THEN a ELSE p.map[CHOOSE i \in S : \A j \in S : i <= j].real
deobfuscate(p, f, packet) == IF p.mode = 0 THEN packet ELSE [src |-> lookup_mapping(p, f, packet.src), dst |-> lookup_mapping(p, f, packet.dst)]

anti_ip_call ==
  /\ \E x \in SI_HASH :
       si_ip' \in {anti_ip_rotate(si_ip, x), anti_ip_onion_apply_v4(si_ip, x), [si_ip EXCEPT !.mode = 4 - @]}
                  \cup UNION {{anti_ip_set_peer(si_ip, a, x), anti_ip_onion_wrap(si_ip, a, x)} : a \in SI_PEERS}
  /\ UNCHANGED <<si_nic, si_rand, si_mask, si_rot, si_oui, si_clone>>

----------------------------------------------------------------------------
SIInit ==
  /\ si_nic = Hardware /\ si_calls = 0
  /\ LET m == generate_random_mac(CHOOSE r \in SI_RANDOM : TRUE) IN si_rand = [cur |-> m, hist |-> <<Hardware, m>>, given |-> <<m>>]
  /\ LET keep == [unicast |-> TRUE, locally |-> TRUE]
         key == [version |-> 1, group |-> 1, local |-> 1]
     IN  si_mask = [key |-> key, keep |-> keep, used |-> keep, masked |-> apply_mask(Hardware, key, keep)]
  /\ si_rot = [cur |-> Hardware, idx |-> 0, auto |-> TRUE]
  /\ si_oui = [mac |-> SiMac(0, 0, {}), randomize |-> FALSE, universal |-> TRUE]
  /\ si_clone = [targets |-> <<>>, mac |-> SiMac(0, 0, {}), cloned |-> FALSE]
  /\ si_ip = anti_ip_init(CHOOSE x \in SI_HASH : TRUE)

\* The card and the packets share nothing.
SINext ==
  /\ si_calls < SI_CALLS /\ si_calls' = si_calls + 1
  /\ \/ Len(si_ip.map) = 1 /\ si_ip.mode = 4 /\ (mac_random_rotate \/ mac_mask_rotate \/ mac_mask_set_preserve \/ mac_rot_call \/ oui_call \/ mac_clone_call \/ mac_apply)
     \/ si_nic = Hardware /\ Len(si_rand.given) = 1 /\ si_mask.key.version = 1 /\ si_rot.idx = 0 /\ anti_ip_call

----------------------------------------------------------------------------
\* The MACs of mac_random are different from each other as far back as half its
\* history goes: every MAC is put there twice.
NoQuickReuse ==
  \A i, j \in DOMAIN si_rand.given : i < j /\ j - i <= SI_HISTORY \div 2 => si_rand.given[i] # si_rand.given[j]

\* A masked MAC is unmasked to the hardware's, unless the preserved bits were
\* changed in between; and no module but the cloner makes a group address, if the
\* masker preserves the bit.
MaskUndone ==
  /\ si_mask.keep = si_mask.used => mac_mask_unmask(si_mask.masked) = Hardware
  /\ si_rand.cur.group = 0 /\ si_rot.cur.group = 0 /\ si_oui.mac.group = 0
  /\ si_mask.used.unicast => si_mask.masked.group = 0

\* A packet that goes out with fake addresses gets the real ones back, after any
\* rotations, as long as no mapping was refused or has expired; and a fake stands
\* for one address, unless fakes nothing maps have pushed it out of the history.
PacketsComeBack ==
  LET p == si_ip
      packet == [src |-> 9, dst |-> p.peer]
  IN  /\ ~p.lost /\ p.onions = 0 => \A f \in {"v4", "v6"} : p.peer # 0 => deobfuscate(p, f, obfuscate(p, f, packet)) = packet
      /\ p.onions = 0 => \A i, j \in DOMAIN p.map : p.map[i].fake.v4 = p.map[j].fake.v4 => i = j

WireAddresses == NoQuickReuse /\ MaskUndone /\ PacketsComeBack

\* Keystream is used once and what is encrypted comes back (security/common); what
\* goes out instead of an address leads back to it, through rotations (mac_encrypt,
\* anti_ip).
SecretsSound == KeystreamOnce /\ StreamComesBack /\ WireAddresses

SISpec == SIInit /\ [][SINext]_siVars
=============================================================================
