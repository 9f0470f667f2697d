----------------------------- MODULE MCNetwork -----------------------------
(***************************************************************************)
(* One run for what decides about packets in stage 2, three firewalls and  *)
(* NetGuard, its ring one memory access at a time and its threads around   *)
(* it; and for the kernel's files (bounds: the end of KFiles).  They share *)
(* no state, so a behaviour is one of a single part; the others stay as    *)
(* they start.                                                             *)
(***************************************************************************)
EXTENDS SFilter, SStateful, SAdaptive, NGRing, SNetGuard, KFiles

VARIABLE part
vars == <<part, filesVars, filterVars, statefulVars, adaptiveVars, ringVars, ngVars>>

Rule(id, enabled, priority, match, action, rate_limit) ==
  [id |-> id, enabled |-> enabled, priority |-> priority, match |-> match,
   action |-> action, rate_limit |-> rate_limit, burst |-> rate_limit]

\* Equal and different priorities, overlapping matches, a limit on either
\* side, two numbers that share a bucket and one that does not.
MCRules ==
  { Rule(1, TRUE, 1, {"dns", "other"}, "ALLOW", 0),
    Rule(1, TRUE, 0, {"dns", "http"}, "DROP", 1),
    Rule(2, TRUE, 1, {"http", "other"}, "DROP", 2),
    Rule(3, TRUE, 2, {"other"}, "DENY", 1),
    Rule(3, FALSE, 2, {"dns"}, "ALLOW", 0) }

Pkt(src, dst, port, proto, bytes, size) ==
  [src |-> src, dst |-> dst, port |-> port, proto |-> proto, bytes |-> bytes, size |-> size]
Sig(proto, port, pattern, severity) ==
  [proto |-> proto, port |-> port, pattern |-> pattern, severity |-> severity]

\* For NetGuard a packet for each rule of the hunter, for each severity, without
\* a payload, and without a port, an address or a protocol, which entries take
\* for any.
MCTraffic ==
  { Pkt(1, 1, 53, 17, {"", "q"}, "large"), Pkt(1, 1, 443, 6, {"", "t"}, "mid"),
    Pkt(2, 1, 53, 17, {}, "small"),        Pkt(0, 1, 0, 1, {""}, "mid"),
    Pkt(2, 1, 0, 1, {}, "small"),          Pkt(1, 1, 53, 6, {"", "control"}, "mid"),
    Pkt(2, 1, 0, 0, {"", "t"}, "small") }
MCSignatures == << Sig(6, 443, "t", 2), Sig(17, 53, "", 3), Sig(1, 0, "", 3), Sig(0, 0, "t", 3) >>
MCTelemetry == { <<1, 443>> }

\* A state is told apart by the part that runs.
View ==
  CASE part = "files" -> <<part, filesVars>>
    [] part = "filter" -> <<part, filterVars>>
    [] part = "stateful" -> <<part, statefulVars>>
    [] part = "adaptive" -> <<part, adaptiveVars>>
    [] part = "ring" -> <<part, ringVars>>
    [] part = "guard" -> <<part, ngVars>>

Init ==
  /\ part \in {"files", "filter", "stateful", "adaptive", "ring", "guard"}
  /\ FilesInit /\ FilterInit /\ StatefulInit /\ AdaptiveInit /\ RingInit /\ NGInit

Next ==
  \/ part = "files" /\ FilesNext /\ UNCHANGED <<part, filterVars, statefulVars, adaptiveVars, ringVars, ngVars>>
  \/ part = "filter" /\ FilterNext /\ UNCHANGED <<part, filesVars, statefulVars, adaptiveVars, ringVars, ngVars>>
  \/ part = "stateful" /\ StatefulNext /\ UNCHANGED <<part, filesVars, filterVars, adaptiveVars, ringVars, ngVars>>
  \/ part = "adaptive" /\ AdaptiveNext /\ UNCHANGED <<part, filesVars, filterVars, statefulVars, ringVars, ngVars>>
  \/ part = "ring" /\ RingNext /\ UNCHANGED <<part, filesVars, filterVars, statefulVars, adaptiveVars, ngVars>>
  \/ part = "guard" /\ NGNext /\ UNCHANGED <<part, filesVars, filterVars, statefulVars, adaptiveVars, ringVars>>

Spec == Init /\ [][Next]_vars

\* NetGuard alone, with its threads scheduled fairly.
GuardFairSpec == Init /\ part = "guard" /\ [][Next]_vars /\ NGFairness
=============================================================================
