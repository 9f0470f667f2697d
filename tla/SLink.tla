------------------------------- MODULE SLink --------------------------------
(***************************************************************************)
(* The encrypted links of stage 2: the WPA3 handshake (wpa3_sae.c) and the *)
(* WPA2 one (wpa2_aes.c), DNS over HTTPS, over TLS and DNSCrypt.  Keys are *)
(* named by what they are derived from, frames by what is in them.         *)
(*                                                                         *)
(* The access point and the name servers are outside: any frame may come,  *)
(* or none.  Nothing in the repository moves WPA2 to ASSOCIATED, so its    *)
(* handlers refuse every call.                                             *)
(***************************************************************************)
EXTENDS Integers, Sequences, FiniteSets, SequencesExt

CONSTANTS SL_RANDS,     \* bound on random scalars drawn
          SL_PEERS,     \* scalars an access point may send
          SL_KEYS,      \* keys set by hand
          SL_PN,        \* bound on frames under one association
          SL_SERVERS,   \* public keys of DNSCrypt servers
          SL_NONCES,    \* bound on DNSCrypt queries
          SL_IV, SL_TAG, SL_PAD,    \* 12, 16, 64
          SL_LABEL, SL_HOST, SL_PORTS,  \* 63, 127, 2^16
          SL_LENGTHS, SL_NAMES, SL_URLS \* queries' lengths, host names, urls by their parts

VARIABLES sl_sae,       \* sae_state_t: state, rand, peer, key, tk, installed, pn
          sl_drawn,     \* random scalars drawn
          sl_conf,      \* history: the key whose confirm was verified
          sl_used,      \* history: key and frame number of frames sent since wpa3_sae_init
          sl_wpa2,      \* wpa2_state_t: state, installed
          sl_dot,       \* dot_state_t: connected, queries encrypted
          sl_crypt,     \* dnscrypt_state_t: server key, nonce_counter; its queries
          sl_dns        \* the last url, name and query that were encoded
slVars == <<sl_sae, sl_drawn, sl_conf, sl_used, sl_wpa2, sl_dot, sl_crypt, sl_dns>>

----------------------------------------------------------------------------
(* WPA3.  An operator gives the state after a call. *)
SaeKey(rand, peer) == <<rand, peer>>

\* wpa3_sae_init
NewSae == [state |-> "disconnected", rand |-> 0, peer |-> 0, key |-> <<0, 0>>, tk |-> <<0, 0>>, installed |-> FALSE, pn |-> 0]
wpa3_sae_init ==
  /\ sl_sae' = NewSae /\ sl_conf' = <<0, 0>> /\ sl_used' = {}
  /\ UNCHANGED <<sl_drawn, sl_wpa2, sl_dot, sl_crypt, sl_dns>>

\* wpa3_sae_compute_pwe: a new scalar, whatever the state.
wpa3_sae_compute_pwe(s, rand) == [s EXCEPT !.rand = rand]

\* Mutant: a commit is taken in any state.
wpa3_sae_handle_commit_any(s, peer) == [s EXCEPT !.peer = peer, !.key = SaeKey(s.rand, peer), !.tk = SaeKey(s.rand, peer), !.state = "commit_rcvd"]
\* wpa3_sae_handle_commit: the keys, only from DISCONNECTED.
wpa3_sae_handle_commit(s, peer) ==
  IF s.state # "disconnected" THEN s
  ELSE [s EXCEPT !.peer = peer, !.key = SaeKey(s.rand, peer), !.tk = SaeKey(s.rand, peer), !.state = "commit_rcvd"]

\* wpa3_sae_build_confirm
wpa3_sae_build_confirm(s) == IF s.state = "commit_rcvd" THEN [s EXCEPT !.state = "confirm_sent"] ELSE s

\* wpa3_sae_handle_confirm: the hash is over both scalars, under the key.
Confirm(key, peer, rand) == <<key, peer, rand>>
wpa3_sae_handle_confirm(s, frame) ==
  IF s.state = "confirm_sent" /\ frame = Confirm(s.key, s.peer, s.rand) THEN [s EXCEPT !.state = "completed", !.installed = TRUE] ELSE s

SaeCall(s) ==
  /\ sl_sae' = s
  /\ sl_conf' = IF s.state = "completed" /\ sl_sae.state # "completed" THEN s.key ELSE sl_conf
  /\ UNCHANGED <<sl_used, sl_wpa2, sl_dot, sl_crypt, sl_dns>>

sae_call ==
  \/ sl_drawn < SL_RANDS /\ sl_drawn' = sl_drawn + 1 /\ SaeCall(wpa3_sae_compute_pwe(sl_sae, sl_drawn + 1))
  \/ \E peer \in SL_PEERS : SaeCall(wpa3_sae_handle_commit(sl_sae, peer)) /\ UNCHANGED sl_drawn
  \/ SaeCall(wpa3_sae_build_confirm(sl_sae)) /\ UNCHANGED sl_drawn
  \/ \E rand \in 1 .. sl_drawn : SaeCall(wpa3_sae_handle_confirm(sl_sae, Confirm(sl_sae.key, sl_sae.peer, rand))) /\ UNCHANGED sl_drawn

\* wpa3_sae_perform_handshake: commit, commit, confirm, confirm; the card may fail
\* or time out before any frame, and a refused frame ends it.
wpa3_sae_perform_handshake(peer, steps) ==
  LET s1 == wpa3_sae_compute_pwe(sl_sae, sl_drawn + 1)
      s2 == wpa3_sae_handle_commit(s1, peer)
      s3 == IF s2 = s1 THEN s2 ELSE wpa3_sae_build_confirm(s2)
      s4 == IF s2 = s1 THEN s2 ELSE wpa3_sae_handle_confirm(s3, Confirm(s3.key, s3.peer, s3.rand))
  IN  /\ sl_drawn < SL_RANDS /\ sl_drawn' = sl_drawn + 1
      /\ SaeCall(CASE steps = 1 -> s1 [] steps = 2 -> s2 [] steps = 3 -> s3 [] OTHER -> s4)

\* wpa3_sae_encrypt_frame: a frame number of its own (32 bits, not exhausted here).
wpa3_sae_encrypt_frame ==
  /\ sl_sae.installed /\ sl_sae.pn < SL_PN
  /\ sl_used' = sl_used \cup {<<sl_sae.tk, sl_sae.pn>>} /\ sl_sae' = [sl_sae EXCEPT !.pn = @ + 1]
  /\ UNCHANGED <<sl_drawn, sl_conf, sl_wpa2, sl_dot, sl_crypt, sl_dns>>

\* wpa3_sae_set_keys: the frame counter goes on.
wpa3_sae_set_keys(tk) ==
  /\ sl_sae' = [sl_sae EXCEPT !.tk = tk]
  /\ UNCHANGED <<sl_drawn, sl_conf, sl_used, sl_wpa2, sl_dot, sl_crypt, sl_dns>>

----------------------------------------------------------------------------
(* WPA2: each handler asks for the state the one before it leaves. *)
wpa2_handle_msg1(s) == IF s.state = "associated" THEN [s EXCEPT !.state = "msg1_rcvd"] ELSE s
wpa2_build_msg2(s) == IF s.state = "msg1_rcvd" THEN [s EXCEPT !.state = "msg2_sent"] ELSE s
wpa2_handle_msg3(s, mic_ok) == IF s.state = "msg2_sent" /\ mic_ok THEN [s EXCEPT !.state = "msg3_rcvd"] ELSE s
wpa2_build_msg4(s) == IF s.state = "msg3_rcvd" THEN [s EXCEPT !.state = "completed", !.installed = TRUE] ELSE s
wpa2_call ==
  /\ \E mic_ok \in BOOLEAN :
       sl_wpa2' \in {wpa2_handle_msg1(sl_wpa2), wpa2_build_msg2(sl_wpa2), wpa2_handle_msg3(sl_wpa2, mic_ok), wpa2_build_msg4(sl_wpa2)}
  /\ UNCHANGED <<sl_sae, sl_drawn, sl_conf, sl_used, sl_dot, sl_crypt, sl_dns>>

----------------------------------------------------------------------------
(* DNS over TLS and DNSCrypt *)

\* dns_dot_handshake: any frame that comes back is taken for the server's.
dns_dot_handshake(d, answered) == IF answered THEN [d EXCEPT !.connected = TRUE] ELSE d
\* dns_dot_send_receive: connects when needed; the query is encrypted before
\* it is known whether it can be sent.
dns_dot_send_receive(answered) ==
  LET d == IF sl_dot.connected THEN sl_dot ELSE dns_dot_handshake(sl_dot, answered)
  IN  /\ sl_dot' = [d EXCEPT !.queries = IF d.connected /\ @ < SL_NONCES THEN @ + 1 ELSE @]
      /\ UNCHANGED <<sl_sae, sl_drawn, sl_conf, sl_used, sl_wpa2, sl_crypt, sl_dns>>

\* dnscrypt_set_server: other keys, the nonce counter goes on.
dnscrypt_set_server(c, key) == [c EXCEPT !.key = key]
dnscrypt_call ==
  /\ \/ \E key \in SL_SERVERS : sl_crypt' = dnscrypt_set_server(sl_crypt, key)
     \/ \* dns_dnscrypt_encrypt_query: the nonce is made from the key and the counter.
        /\ sl_crypt.nonce < SL_NONCES
        /\ sl_crypt' = [sl_crypt EXCEPT !.nonce = @ + 1, !.used = Append(@, <<sl_crypt.key, sl_crypt.nonce>>)]
  /\ UNCHANGED <<sl_sae, sl_drawn, sl_conf, sl_used, sl_wpa2, sl_dot, sl_dns>>

\* The padding of a query: to a multiple of the block, at least the two bytes
\* that hold its length.
PadLen(n) == LET p == SL_PAD - (n % SL_PAD) IN IF p < 2 THEN p + SL_PAD ELSE p
PadQuery(n) ==
  [i \in 1 .. n + PadLen(n) |-> IF i > n + PadLen(n) - 2 THEN <<"len", PadLen(n)>> ELSE IF i <= n THEN <<"query", i>> ELSE <<"random", i>>]

\* dns_doh_encrypt_query: the bytes that make room for the IV go behind the tag.
dns_doh_encrypt_query(n) ==
  LET out == [i \in 1 .. n |-> <<"cipher", i>>] \o [i \in 1 .. SL_TAG |-> <<"tag", i>>]
  IN  [i \in 1 .. SL_IV |-> <<"iv", i>>] \o SubSeq(out, SL_IV + 1, Len(out)) \o SubSeq(out, 1, SL_IV)
\* dns_dot_encrypt_query: the same with the two bytes of length before it.
dns_dot_encrypt_query(n) ==
  LET out == << <<"len", 1>>, <<"len", 2>> >> \o [i \in 1 .. n |-> <<"cipher", i>>] \o [i \in 1 .. SL_TAG |-> <<"tag", i>>]
  IN  [i \in 1 .. SL_IV |-> <<"iv", i>>] \o SubSeq(out, SL_IV + 1, Len(out)) \o SubSeq(out, 1, SL_IV)

\* How many characters there are before one of stop, at most max.
Lead(s, stop, max) == CHOOSE n \in 0 .. Len(s) : (n = Len(s) \/ n = max \/ s[n + 1] \in stop) /\ \A i \in 1 .. n : i <= max /\ s[i] \notin stop
After(s, n) == SubSeq(s, n + 1, Len(s))
IsDigit(c) == c \in {"0", "7"}

\* parse_doh_url, parse_dot_server: host up to the stop characters, a port of 16
\* bits, the rest.
ParseServer(s, stop, port) ==
  LET h == Lead(s, stop, SL_HOST)
      rest == After(s, h)
      colon == rest # <<>> /\ rest[1] = ":"
      digits == IF colon THEN Lead(Tail(rest), {"p", ":", "/", "."}, Len(rest)) ELSE 0
  IN  [host |-> SubSeq(s, 1, h),
       port |-> IF colon THEN FoldLeft(LAMBDA v, c : (10 * v + (IF c = "7" THEN 7 ELSE 0)) % SL_PORTS, 0, SubSeq(rest, 2, digits + 1)) ELSE port,
       path |-> IF colon THEN After(rest, digits + 1) ELSE rest]
parse_doh_url(s) == ParseServer(s, {":", "/"}, 443)
parse_dot_server(s) == ParseServer(s, {":"}, 853)

\* The question of dns_doh_build_request: labels of at most SL_LABEL characters.
question[s \in Seq({"p", "."})] ==
  IF s = <<>> THEN <<>>
  ELSE LET n == Lead(s, {"."}, SL_LABEL)
           rest == After(s, n)
       IN  <<SubSeq(s, 1, n)>> \o question[IF rest # <<>> /\ rest[1] = "." THEN Tail(rest) ELSE rest]

NoQuery == [url |-> [host |-> <<>>, port |-> <<>>, path |-> <<>>], name |-> <<>>, len |-> 0]
\* A url from its parts is parsed, a name becomes a question, a query of some
\* length is padded and framed.
dns_encode ==
  /\ \/ \E u \in SL_URLS : sl_dns' = [NoQuery EXCEPT !.url = u]
     \/ \E name \in SL_NAMES : sl_dns' = [NoQuery EXCEPT !.name = name]
     \/ \E n \in SL_LENGTHS : sl_dns' = [NoQuery EXCEPT !.len = n]
  /\ UNCHANGED <<sl_sae, sl_drawn, sl_conf, sl_used, sl_wpa2, sl_dot, sl_crypt>>

----------------------------------------------------------------------------
SLInit ==
  /\ sl_sae = NewSae /\ sl_drawn = 0 /\ sl_conf = <<0, 0>> /\ sl_used = {}
  /\ sl_wpa2 = [state |-> "disconnected", installed |-> FALSE]
  /\ sl_dot = [connected |-> FALSE, queries |-> 0]
  /\ sl_crypt = [key |-> 0, nonce |-> 0, used |-> <<>>]
  /\ sl_dns = NoQuery

\* The links share nothing: a behaviour is one of the radio, of the encodings or
\* of the encrypted queries.
Radio == sl_crypt.used = <<>> /\ sl_dot.queries = 0 /\ ~sl_dot.connected /\ sl_crypt.key = 0 /\ sl_dns = NoQuery
SLNext ==
  \/ Radio /\ ( \/ wpa3_sae_init \/ sae_call \/ wpa2_call
                 \/ \E peer \in SL_PEERS, steps \in 1 .. 4 : wpa3_sae_perform_handshake(peer, steps)
                 \/ wpa3_sae_encrypt_frame \/ \E tk \in SL_KEYS : wpa3_sae_set_keys(tk) )
  \/ /\ sl_sae = NewSae /\ sl_drawn = 0
     /\ \/ sl_dns = NoQuery /\ (dnscrypt_call \/ \E a \in BOOLEAN : dns_dot_send_receive(a))
        \/ sl_crypt.used = <<>> /\ sl_dot.queries = 0 /\ dns_encode
SLSpec == SLInit /\ [][SLNext]_slVars

----------------------------------------------------------------------------
\* Frames of an installed link are encrypted under the key whose confirm was
\* verified, or one that was set by hand: no commit that comes later, repeated
\* or from someone else, replaces it.
ConfirmedKey == sl_sae.installed => sl_sae.tk = sl_conf \/ sl_sae.tk \in SL_KEYS

\* One key and frame number are used once in an association, also when the keys
\* are set again; one key and nonce once in the life of the DNSCrypt client.
NonceOnce ==
  /\ Cardinality(sl_used) = sl_sae.pn
  /\ \A i, j \in DOMAIN sl_crypt.used : i # j => sl_crypt.used[i] # sl_crypt.used[j]

\* The keys of the links.
LinkKeys == ConfirmedKey /\ NonceOnce

\* A url gives back the parts it was made of, if the host and port fit.
UrlParts ==
  LET u == sl_dns.url
      s == u.host \o (IF u.port = <<>> THEN <<>> ELSE <<":">> \o u.port) \o u.path
      value == FoldLeft(LAMBDA v, c : 10 * v + (IF c = "7" THEN 7 ELSE 0), 0, u.port)
      p == parse_doh_url(s)
  IN  Len(u.host) <= SL_HOST =>
        /\ p.host = u.host /\ p.path = u.path
        /\ value < SL_PORTS => p.port = IF u.port = <<>> THEN 443 ELSE value
        /\ u.path = <<>> => parse_dot_server(s).host = u.host

\* The labels of a question, with dots between, are the name, if no label of it
\* is empty or too long; a query is padded to whole blocks and can be cut back.
QuestionIsName ==
  LET q == question[sl_dns.name]
      Join == FoldLeft(LAMBDA a, l : IF a = <<>> THEN l ELSE a \o <<".">> \o l, <<>>, q)
      name == sl_dns.name
      Whole == \A i, j \in 0 .. Len(name) : i < j /\ (i = 0 \/ name[i] = ".") /\ (j = Len(name) \/ name[j + 1] = ".")
                  /\ (\A k \in i + 1 .. j : name[k] # ".") => j - i <= SL_LABEL
      Dots == \A i \in 1 .. Len(name) : name[i] = "." => i > 1 /\ i < Len(name) /\ name[i - 1] # "."
  IN  Whole /\ Dots => Join = name
QueryPadded ==
  LET p == PadQuery(sl_dns.len)
  IN  /\ Len(p) % SL_PAD = 0 /\ p[Len(p)] = <<"len", Len(p) - sl_dns.len>>
      /\ \A i \in 1 .. sl_dns.len : p[i] = <<"query", i>>

\* Making room for the IV loses no byte of cipher text, tag or length.
FrameKeepsAll ==
  /\ LET f == dns_doh_encrypt_query(sl_dns.len) IN Len(f) = sl_dns.len + SL_TAG + SL_IV /\ Cardinality({f[i] : i \in DOMAIN f}) = Len(f)
  /\ LET f == dns_dot_encrypt_query(sl_dns.len) IN Len(f) = sl_dns.len + SL_TAG + SL_IV + 2 /\ Cardinality({f[i] : i \in DOMAIN f}) = Len(f)

\* What is encoded for the name servers.
QueriesEncoded == UrlParts /\ QuestionIsName /\ QueryPadded /\ FrameKeepsAll
=============================================================================
