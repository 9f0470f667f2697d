----------------------------- MODULE SAdaptive -----------------------------
(***************************************************************************)
(* Firewall 4 of stage 2, anomaly detection with automatic blocking        *)
(* (stage2/security/firewall/gen2_adaptive).                               *)
(*                                                                         *)
(* The statistics of a profile are abstracted to the number of baseline    *)
(* updates, up to 2: without one no packet is judged, and the first leaves *)
(* the variance 0, so that no packet is an anomaly.  From then on any      *)
(* packet may be one.  Expiry times are kept relative to the clock.        *)
(*                                                                         *)
(* History variable: until is how long an address was promised to stay     *)
(* blocked.                                                                *)
(***************************************************************************)
EXTENDS Integers

CONSTANTS MAX_TRACK_IPS, MAX_BLOCKLIST,
          Ips, NoIp,
          Durations,        \* values of threshold_block_duration_ms
          BLOCK_DURATION    \* its first value

ASSUME AdaptiveAssumption ==
  /\ MAX_TRACK_IPS \in Nat /\ MAX_BLOCKLIST \in Nat
  /\ NoIp \notin Ips /\ Durations \subseteq Nat /\ BLOCK_DURATION \in Durations

Track == 1 .. MAX_TRACK_IPS
Block == 1 .. MAX_BLOCKLIST

VARIABLES profiles, blocklist, threshold_block_duration_ms, until

adaptiveVars == <<profiles, blocklist, threshold_block_duration_ms, until>>

\* fw_adaptive_init
AdaptiveInit ==
  /\ profiles = [t \in Track |-> [ip |-> NoIp, counted |-> FALSE, baseline |-> 0]]
  /\ blocklist = [b \in Block |-> [active |-> FALSE, ip |-> NoIp, left |-> 0]]
  /\ threshold_block_duration_ms = BLOCK_DURATION
  /\ until = [ip \in Ips |-> 0]

Smallest(S) == CHOOSE i \in S : \A j \in S : i <= j

-----------------------------------------------------------------------------
Live(ip)    == {b \in Block : blocklist[b].active /\ blocklist[b].ip = ip /\ blocklist[b].left > 0}
Expired(ip) == {b \in Block : blocklist[b].active /\ blocklist[b].ip = ip /\ blocklist[b].left = 0}

\* ip_in_blocklist: expired entries are given up on the way to a live one.
ip_in_blocklist(ip) ==
  [b \in Block |-> IF b \in Expired(ip) /\ \A l \in Live(ip) : b < l
                   THEN [blocklist[b] EXCEPT !.active = FALSE] ELSE blocklist[b]]

\* Mutant: a full list gives up its first entry.
ip_block_evicts(list, ip) ==
  LET free == {b \in Block : ~list[b].active}
  IN  [list EXCEPT ![IF free = {} THEN 1 ELSE Smallest(free)] =
         [active |-> TRUE, ip |-> ip, left |-> threshold_block_duration_ms]]

\* A full list takes no more.
ip_block(list, ip) ==
  LET free == {b \in Block : ~list[b].active}
  IN  IF free = {} THEN list
      ELSE [list EXCEPT ![Smallest(free)] =
              [active |-> TRUE, ip |-> ip, left |-> threshold_block_duration_ms]]

\* The profile of an address, else a free one; {} when the table is full.
find_or_create_profile(ip) ==
  LET own  == {t \in Track : profiles[t].ip = ip}
      free == {t \in Track : profiles[t].ip = NoIp}
  IN  IF own # {} THEN {Smallest(own)} ELSE IF free # {} THEN {Smallest(free)} ELSE {}

\* A packet of a blocked address is dropped.
eval_blocked(ip) ==
  /\ Live(ip) # {}
  /\ blocklist' = ip_in_blocklist(ip)
  /\ UNCHANGED <<profiles, threshold_block_duration_ms, until>>

\* fw_adaptive_detect_anomaly for any other packet.
eval_judged(ip, anomaly) ==
  /\ Live(ip) = {}
  /\ profiles' = [t \in Track |-> IF t \notin find_or_create_profile(ip) THEN profiles[t]
                                  ELSE [profiles[t] EXCEPT !.ip = ip, !.counted = TRUE]]
  /\ anomaly => \E t \in find_or_create_profile(ip) : profiles[t].baseline = 2
  /\ LET list == ip_in_blocklist(ip)
     IN  /\ blocklist' = IF anomaly THEN ip_block(list, ip) ELSE list
         /\ until' = IF anomaly /\ \E b \in Block : ~list[b].active
                     THEN [until EXCEPT ![ip] = threshold_block_duration_ms] ELSE until
  /\ UNCHANGED threshold_block_duration_ms

fw_adaptive_update_baseline ==
  /\ profiles' = [t \in Track |->
       IF profiles[t].ip = NoIp \/ ~profiles[t].counted THEN profiles[t]
       ELSE [profiles[t] EXCEPT !.counted = FALSE, !.baseline = IF @ < 2 THEN @ + 1 ELSE 2]]
  /\ UNCHANGED <<blocklist, threshold_block_duration_ms, until>>

fw_adaptive_set_threshold(d) ==
  /\ threshold_block_duration_ms' = d
  /\ UNCHANGED <<profiles, blocklist, until>>

\* Time passes between packets.
Less(n) == IF n = 0 THEN 0 ELSE n - 1
clock ==
  /\ blocklist' = [b \in Block |-> [blocklist[b] EXCEPT !.left = Less(@)]]
  /\ until' = [ip \in Ips |-> Less(until[ip])]
  /\ UNCHANGED <<profiles, threshold_block_duration_ms>>

AdaptiveNext ==
  \/ \E ip \in Ips : eval_blocked(ip)
  \/ \E ip \in Ips, anomaly \in BOOLEAN : eval_judged(ip, anomaly)
  \/ fw_adaptive_update_baseline
  \/ \E d \in Durations : fw_adaptive_set_threshold(d)
  \/ clock

AdaptiveSpec == AdaptiveInit /\ [][AdaptiveNext]_adaptiveVars

-----------------------------------------------------------------------------
(***************************************************************************)
(* "auto-blocking": an address that ip_block found room for is blocked     *)
(* until its time is over and no longer, whatever other addresses do, how  *)
(* the duration is changed meanwhile and which entries are given up; an    *)
(* address has at most one entry, so it cannot use up the list alone.      *)
(***************************************************************************)
BlockHolds ==
  \A ip \in Ips :
    /\ \A b \in Live(ip) : blocklist[b].left = until[ip]
    /\ until[ip] > 0 => Live(ip) # {}
    /\ \A a, b \in Live(ip) \cup Expired(ip) : a = b
=============================================================================
