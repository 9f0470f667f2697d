------------------------------ MODULE SFilter ------------------------------
(***************************************************************************)
(* Firewall 1 of stage 2, the packet filter                                *)
(* (stage2/security/firewall/gen2_packet_filter), and the rules stage 2    *)
(* loads into it (stage2/main.c, load_default_rules).                      *)
(*                                                                         *)
(* The match fields of a rule are abstracted to the set of packets they    *)
(* match.  The token bucket of a rule is the one with number rule_id %     *)
(* RATE_BUCKETS; refilling by the time-stamp counter is a choice of any    *)
(* number of tokens up to the burst.                                       *)
(***************************************************************************)
EXTENDS Integers, Sequences, SequencesExt

CONSTANTS MAX_FILTER_RULES, RATE_BUCKETS,
          Rules,            \* rules that callers add
          Packets

\* The packets load_default_rules names, and one it does not name.
DefaultPackets == {"dns", "http", "https", "ntp", "icmp", "other"}

ASSUME FilterAssumption ==
  /\ MAX_FILTER_RULES \in Nat /\ RATE_BUCKETS \in Nat \ {0}
  /\ Rules \subseteq [id : Nat, enabled : BOOLEAN, priority : Nat, match : SUBSET Packets,
                      action : {"ALLOW", "DENY", "DROP"}, rate_limit : Nat, burst : Nat]

VARIABLES filter_rules,     \* the first filter_rule_count rules of the array
          rate_buckets,
          fw_rules_loaded

filterVars == <<filter_rules, rate_buckets, fw_rules_loaded>>

Bucket(r) == r.id % RATE_BUCKETS

\* fw_packet_filter_init
FilterInit ==
  /\ filter_rules = <<>>
  /\ rate_buckets = [b \in 0 .. RATE_BUCKETS - 1 |-> [tokens |-> 0, burst |-> 0]]
  /\ fw_rules_loaded = FALSE

-----------------------------------------------------------------------------
\* The array and the buckets after fw_packet_filter_add_rule.
Added(f, r) ==
  IF Len(f.rules) >= MAX_FILTER_RULES THEN f
  ELSE [rules   |-> Append(f.rules, r),
        buckets |-> IF r.rate_limit = 0 THEN f.buckets
                    ELSE [f.buckets EXCEPT ![Bucket(r)] = [tokens |-> r.burst, burst |-> r.burst]]]

\* The same for every rule of a sequence in turn.
AddedAll(f, rules) ==
  LET g[i \in 0 .. Len(rules)] == IF i = 0 THEN f ELSE Added(g[i - 1], rules[i])
  IN  g[Len(rules)]

Filter == [rules |-> filter_rules, buckets |-> rate_buckets]

fw_packet_filter_add_rule(r) ==
  /\ filter_rules' = Added(Filter, r).rules
  /\ rate_buckets' = Added(Filter, r).buckets
  /\ UNCHANGED fw_rules_loaded

\* The first rule with that number is taken out and the others move up.
fw_packet_filter_remove_rule(id) ==
  /\ \E i \in DOMAIN filter_rules :
       /\ filter_rules[i].id = id
       /\ \A j \in 1 .. i - 1 : filter_rules[j].id # id
       /\ filter_rules' = RemoveAt(filter_rules, i)
  /\ UNCHANGED <<rate_buckets, fw_rules_loaded>>

fw_packet_filter_flush == filter_rules' = <<>> /\ UNCHANGED <<rate_buckets, fw_rules_loaded>>

-----------------------------------------------------------------------------
rule_matches(r, p) == p \in r.match

\* Mutant: of equal priorities the first rule decides.
Consider_first(e, r, p) ==
  IF e.limited \/ ~r.enabled \/ (e.found /\ r.priority <= e.priority) \/ ~rule_matches(r, p) THEN e
  ELSE IF r.rate_limit > 0 /\ e.buckets[Bucket(r)].tokens = 0
    THEN [e EXCEPT !.limited = TRUE, !.action = "DROP"]
  ELSE [limited |-> FALSE, found |-> TRUE, priority |-> r.priority, action |-> r.action,
        buckets |-> IF r.rate_limit = 0 THEN e.buckets
                    ELSE [e.buckets EXCEPT ![Bucket(r)].tokens = @ - 1]]

\* The body of the loop of fw_packet_filter_eval: an exhausted bucket ends it.
Consider(e, r, p) ==
  IF e.limited \/ ~r.enabled \/ (e.found /\ r.priority < e.priority) \/ ~rule_matches(r, p) THEN e
  ELSE IF r.rate_limit > 0 /\ e.buckets[Bucket(r)].tokens = 0
    THEN [e EXCEPT !.limited = TRUE, !.action = "DROP"]
  ELSE [limited |-> FALSE, found |-> TRUE, priority |-> r.priority, action |-> r.action,
        buckets |-> IF r.rate_limit = 0 THEN e.buckets
                    ELSE [e.buckets EXCEPT ![Bucket(r)].tokens = @ - 1]]

\* The loop: e[i] is what is known after the first i rules.
Eval(buckets, p) ==
  LET e[i \in 0 .. Len(filter_rules)] ==
        IF i = 0 THEN [limited |-> FALSE, found |-> FALSE, priority |-> 0, action |-> "DENY",
                       buckets |-> buckets]
        ELSE Consider(e[i - 1], filter_rules[i], p)
  IN  e[Len(filter_rules)]

\* rate_refill
Refilled(buckets) ==
  {b \in [DOMAIN buckets -> UNION {[tokens : 0 .. buckets[i].burst, burst : {buckets[i].burst}]
                                     : i \in DOMAIN buckets}] :
     \A i \in DOMAIN buckets : b[i].tokens >= buckets[i].tokens /\ b[i].burst = buckets[i].burst}

fw_packet_filter_eval(p) ==
  /\ \E b \in Refilled(rate_buckets) : rate_buckets' = Eval(b, p).buckets
  /\ UNCHANGED <<filter_rules, fw_rules_loaded>>

-----------------------------------------------------------------------------
(***************************************************************************)
(* load_default_rules.  The structure is on the stack and only some fields *)
(* are set: the number, enabled, the limits and the MAC, flag and          *)
(* interface fields are whatever was there, the same for every rule; pass  *)
(* is the packets the last three let through.  action 1 is FW_ACTION_DENY  *)
(* and 0 is FW_ACTION_ALLOW.  The rule for loopback asks for protocol 255. *)
(***************************************************************************)
DefaultRules(enabled, pass, limit) ==
  LET rule(match, action, priority) ==
        [id |-> 0, enabled |-> enabled, priority |-> priority, match |-> match \cap pass,
         action |-> action, rate_limit |-> limit, burst |-> 2 * limit]
  IN  << rule({}, "DENY", 0),
         rule({"dns"}, "DENY", 0),
         rule({"http"}, "DENY", 0),
         rule({"https"}, "DENY", 0),
         rule({"ntp"}, "DENY", 0),
         rule({"icmp"}, "DENY", 0),
         rule(DefaultPackets, "ALLOW", 100) >>

load_default_rules(enabled, pass, limit) ==
  /\ ~fw_rules_loaded
  /\ LET f == AddedAll(Filter, DefaultRules(enabled, pass, limit))
     IN  filter_rules' = f.rules /\ rate_buckets' = f.buckets
  /\ fw_rules_loaded' = TRUE

FilterNext ==
  \/ \E enabled \in BOOLEAN, pass \in {{}, DefaultPackets}, limit \in {0, 1} :
       load_default_rules(enabled, pass, limit)
  \/ \E r \in Rules : fw_packet_filter_add_rule(r)
  \/ \E id \in {r.id : r \in Rules} : fw_packet_filter_remove_rule(id)
  \/ fw_packet_filter_flush
  \/ \E p \in Packets : fw_packet_filter_eval(p)

FilterSpec == FilterInit /\ [][FilterNext]_filterVars

-----------------------------------------------------------------------------
(***************************************************************************)
(* "Static L2/L3/L4 rule matching with priority ordering": whatever rules  *)
(* were added and removed, in any order, a packet that no bucket stops     *)
(* gets the action of the last of the enabled matching rules of highest    *)
(* priority, and DENY when none matches.  Only a bucket of a rule that     *)
(* matches can stop it (fw_packet_filter_eval scans the array once, and it *)
(* is not sorted).                                                         *)
(***************************************************************************)
FilterVerdict ==
  \A p \in Packets :
    LET e    == Eval(rate_buckets, p)
        hit  == {i \in DOMAIN filter_rules : filter_rules[i].enabled /\ p \in filter_rules[i].match}
        best == {i \in hit : \A j \in hit : filter_rules[j].priority <= filter_rules[i].priority}
    IN  IF e.limited THEN \E i \in hit : filter_rules[i].rate_limit > 0
        ELSE IF hit = {} THEN e.action = "DENY"
        ELSE \E i \in best : /\ \A j \in best : j <= i
                             /\ e.action = filter_rules[i].action
=============================================================================
