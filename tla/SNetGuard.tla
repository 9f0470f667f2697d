----------------------------- MODULE SNetGuard -----------------------------
(***************************************************************************)
(* NetGuard (stage2/security/netguard/netguard.c): the scanner flags       *)
(* packets by signature and blacklist, the hunter by heuristics, the wiper *)
(* empties the ring, the display copies the counters.  Here a call on the  *)
(* ring is one step, so it is a queue; NGRing looks at the memory accesses *)
(* of calls that overlap.                                                  *)
(*                                                                         *)
(* A packet is [src, dst, port, proto, bytes, size]: port is the           *)
(* destination port, bytes what can be found in the payload, "" if it has  *)
(* one at all.  Address, port and protocol 0 in an entry match everything. *)
(***************************************************************************)
EXTENDS Naturals, Sequences, FiniteSets, SequencesExt

CONSTANTS NG_RING,             \* NETGUARD_RING_SIZE
          NG_MAX_BLACKLIST, NG_WIPE_BATCH,
          NGTraffic,           \* the packets on the wire
          NGSignatures,        \* load_signatures, in its order
          NGTelemetry,         \* the pairs of address and port of the hunter
          NGSmp                \* TRUE: a core for each thread; FALSE: netguard_start

ASSUME NGAssumption == NG_RING \in Nat \ {0, 1} /\ NG_MAX_BLACKLIST \in Nat /\ NGSmp \in BOOLEAN

VARIABLES ng_ring, ng_blacklist, ng_shutdown, ng_running,
          ng_thread,           \* the thread netguard_start is in
          ng_severe            \* ghost: the packets that were found severe
ngVars == <<ng_ring, ng_blacklist, ng_shutdown, ng_running, ng_thread, ng_severe>>

NGThreads == <<"scanner", "wiper", "display", "hunter">>

\* netguard_init, then netguard_start up to its loop.
NGInit ==
  /\ ng_ring = <<>> /\ ng_blacklist = <<>> /\ ng_shutdown = FALSE
  /\ ng_running = ToSet(NGThreads) /\ ng_thread = 1 /\ ng_severe = {}

----------------------------------------------------------------------------
pattern_match(pkt, sig) == "" \in pkt.bytes /\ sig.pattern \in pkt.bytes
\* The first signature that matches gives the severity.
check_signatures(pkt) ==
  LET Hit(sig) == (sig.proto = 0 \/ sig.proto = pkt.proto) /\ (sig.port = 0 \/ sig.port = pkt.port) /\ pattern_match(pkt, sig)
      i == SelectInSeq(NGSignatures, Hit)
  IN  IF i = 0 THEN 0 ELSE NGSignatures[i].severity

Flow(pkt) == [src |-> pkt.src, dst |-> pkt.dst, port |-> pkt.port, proto |-> pkt.proto]
Covers(entry, pkt) == \A f \in DOMAIN entry : entry[f] = 0 \/ entry[f] = pkt[f]
blacklist_check(pkt) == \E i \in DOMAIN ng_blacklist : Covers(ng_blacklist[i], Flow(pkt))

\* Mutant: the entry keeps the addresses only.
blacklist_add_hosts(list, pkt) ==
  IF Len(list) < NG_MAX_BLACKLIST THEN Append(list, [Flow(pkt) EXCEPT !.port = 0, !.proto = 0]) ELSE list
\* A full list drops the entry.
blacklist_add(list, pkt) ==
  IF Len(list) < NG_MAX_BLACKLIST THEN Append(list, Flow(pkt)) ELSE list

RingPush(ring, pkt) == IF Len(ring) < NG_RING - 1 THEN Append(ring, pkt) ELSE ring

----------------------------------------------------------------------------
(***************************************************************************)
(* netguard_start calls the entry of each thread in turn, and an entry     *)
(* returns only after the shutdown.                                        *)
(***************************************************************************)
Runs(t) == t \in ng_running /\ (NGSmp \/ NGThreads[ng_thread] = t)

thread_scanner(pkt) ==
  /\ Runs("scanner") /\ ~ ng_shutdown
  /\ LET severity == check_signatures(pkt)
         bl       == blacklist_check(pkt)
     IN  /\ ng_ring' = IF severity >= 2 \/ bl THEN RingPush(ng_ring, pkt) ELSE ng_ring
         /\ ng_blacklist' = IF severity >= 3 /\ ~ bl THEN blacklist_add(ng_blacklist, pkt) ELSE ng_blacklist
         /\ ng_severe' = IF severity >= 3 THEN ng_severe \cup {Flow(pkt)} ELSE ng_severe
  /\ UNCHANGED <<ng_shutdown, ng_running, ng_thread>>

\* The hunter pushes a packet once for every rule that fires.
Suspicions(pkt) ==
  Cardinality({r \in {"host", "dns", "icmp", "beacon"} :
    \/ r = "host" /\ <<pkt.dst, pkt.port>> \in NGTelemetry
    \/ r = "dns" /\ pkt.proto = 17 /\ pkt.port = 53 /\ pkt.size = "large"
    \/ r = "icmp" /\ pkt.proto = 1 /\ pkt.size # "small"
    \/ r = "beacon" /\ pkt.proto = 6 /\ pkt.size # "small" /\ "control" \in pkt.bytes})

thread_telemetry_hunter(pkt) ==
  /\ Runs("hunter") /\ ~ ng_shutdown
  /\ ng_ring' = FoldLeft(LAMBDA ring, n : RingPush(ring, pkt), ng_ring, [n \in 1 .. Suspicions(pkt) |-> n])
  /\ UNCHANGED <<ng_blacklist, ng_shutdown, ng_running, ng_thread, ng_severe>>

\* One round of the wiper takes a batch at most.
thread_wiper ==
  /\ Runs("wiper") /\ ~ ng_shutdown /\ ng_ring # <<>>
  /\ ng_ring' = IF Len(ng_ring) <= NG_WIPE_BATCH THEN <<>> ELSE SubSeq(ng_ring, NG_WIPE_BATCH + 1, Len(ng_ring))
  /\ UNCHANGED <<ng_blacklist, ng_shutdown, ng_running, ng_thread, ng_severe>>

\* After the shutdown an entry returns, and the loop goes to the next thread.
ThreadReturns(t) ==
  /\ Runs(t) /\ ng_shutdown
  /\ ng_running' = ng_running \ {t}
  /\ ng_thread' = IF NGSmp \/ ng_thread = Len(NGThreads) THEN ng_thread ELSE ng_thread + 1
  /\ UNCHANGED <<ng_ring, ng_blacklist, ng_shutdown, ng_severe>>

netguard_stop ==
  /\ ng_shutdown' = TRUE
  /\ UNCHANGED <<ng_ring, ng_blacklist, ng_running, ng_thread, ng_severe>>

NGNext ==
  \/ \E pkt \in NGTraffic : thread_scanner(pkt) \/ thread_telemetry_hunter(pkt)
  \/ thread_wiper \/ netguard_stop
  \/ \E t \in ToSet(NGThreads) : ThreadReturns(t)
NGSpec == NGInit /\ [][NGNext]_ngVars
\* Every thread that has a processor goes on.
NGFairness == WF_ngVars(thread_wiper) /\ WF_ngVars(\E t \in ToSet(NGThreads) : ThreadReturns(t))

----------------------------------------------------------------------------
NGTypeOK ==
  /\ Len(ng_ring) <= NG_RING - 1 /\ ToSet(ng_ring) \subseteq NGTraffic
  /\ Len(ng_blacklist) <= NG_MAX_BLACKLIST
  /\ ng_shutdown \in BOOLEAN /\ ng_running \subseteq ToSet(NGThreads) /\ ng_thread \in 1 .. Len(NGThreads)

\* blacklist_add and blacklist_check together: a flow is dropped for its
\* history only if a severe packet with the same addresses, port and protocol,
\* wherever that packet had one that is not 0, was seen before.
OnlyGuiltyFlows ==
  \A pkt \in NGTraffic : blacklist_check(pkt) =>
    \E guilty \in ng_severe : Covers(guilty, Flow(pkt))

\* The wiper makes room: a full ring, which drops every flagged packet, does
\* not stay full unless NetGuard is stopped.
RingDrains == Len(ng_ring) = NG_RING - 1 ~> Len(ng_ring) < NG_RING - 1 \/ ng_shutdown
=============================================================================
