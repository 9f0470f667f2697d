----------------------------- MODULE SStateful -----------------------------
(***************************************************************************)
(* Firewall 2 of stage 2, connection tracking                              *)
(* (stage2/security/firewall/gen2_stateful).                               *)
(*                                                                         *)
(* A flow is a five-tuple taken in both directions, as find_connection     *)
(* takes it.  Time is only compared with last_seen, so the model keeps the *)
(* order in which the tracked connections were last seen.  The statistics  *)
(* and the rules, which nothing reads, are left out, and so are packets     *)
(* that are dropped or not TCP, which change nothing else.                 *)
(***************************************************************************)
EXTENDS Integers, Sequences, SequencesExt, FiniteSets

CONSTANTS MAX_CONNECTIONS, SYN_COOKIES_MAX, CONN_HALFOPEN_MAX,
          Flows, NoFlow     \* NoFlow: proto 0, a free entry

ASSUME StatefulAssumption ==
  /\ MAX_CONNECTIONS \in Nat /\ SYN_COOKIES_MAX \in Nat /\ CONN_HALFOPEN_MAX \in Nat
  /\ NoFlow \notin Flows

Conn  == 1 .. MAX_CONNECTIONS
Flags == SUBSET {"SYN", "ACK", "FIN", "RST"}
Free  == [flow |-> NoFlow, state |-> "NONE"]

VARIABLES connections, conn_count,
          syn_cookie_count,
          halfopen_count,
          seen              \* tracked entries, the one seen longest ago first

statefulVars == <<connections, conn_count, syn_cookie_count, halfopen_count, seen>>

\* fw_stateful_init
StatefulInit ==
  /\ connections = [c \in Conn |-> Free]
  /\ conn_count = 0 /\ syn_cookie_count = 0 /\ halfopen_count = 0
  /\ seen = <<>>

Without(c) == RemoveAt(seen, CHOOSE i \in DOMAIN seen : seen[i] = c)

tcp_state_advance(state, flags) ==
  CASE state = "NONE" /\ "SYN" \in flags        -> "SYN_RCVD"
    [] state = "SYN_RCVD" /\ "ACK" \in flags    -> "ESTABLISHED"
    [] state = "ESTABLISHED" /\ "RST" \in flags -> "CLOSED"
    [] state = "ESTABLISHED" /\ "RST" \notin flags /\ "FIN" \in flags -> "FIN_WAIT_1"
    [] state = "FIN_WAIT_1" /\ "FIN" \in flags  -> "CLOSING"
    [] state = "FIN_WAIT_1" /\ "FIN" \notin flags /\ "ACK" \in flags  -> "FIN_WAIT_2"
    [] state = "FIN_WAIT_2" /\ "FIN" \in flags  -> "TIME_WAIT"
    [] state = "CLOSING" /\ "ACK" \in flags     -> "TIME_WAIT"
    [] state = "TIME_WAIT"                      -> "CLOSED"
    [] state = "CLOSE_WAIT" /\ "FIN" \in flags  -> "LAST_ACK"
    [] state = "LAST_ACK" /\ "ACK" \in flags    -> "CLOSED"
    [] OTHER                                    -> state

\* The first entry of a flow, in either direction; {} when there is none.
find_connection(f) ==
  {c \in Conn : connections[c].flow = f /\ \A d \in 1 .. c - 1 : connections[d].flow # f}

\* The first free entry becomes the flow's; returns {} when there is none.
create_connection == find_connection(NoFlow)

\* A full table makes no cookie, and nobody asks whether one was made.
syn_cookie_create ==
  syn_cookie_count' = IF syn_cookie_count < SYN_COOKIES_MAX THEN syn_cookie_count + 1
                      ELSE syn_cookie_count

\* syn_cookie_verify with ack_seq 0: cookies are made with seq 0, and 0 # 0 + 1.
syn_cookie_verify(f) == 0 = 0 + 1

\* fw_stateful_eval: a SYN opens an entry of its own, also when the flow has one.
eval_syn(f, flags) ==
  /\ "SYN" \in flags /\ "ACK" \notin flags
  /\ halfopen_count < CONN_HALFOPEN_MAX
  /\ conn_count < MAX_CONNECTIONS
  /\ syn_cookie_create
  /\ IF create_connection = {} THEN UNCHANGED <<connections, seen, conn_count, halfopen_count>>
     ELSE \E c \in create_connection :
            /\ connections' = [connections EXCEPT ![c] =
                 [flow |-> f, state |-> tcp_state_advance("NONE", flags)]]
            /\ seen' = Append(seen, c)
            /\ conn_count' = conn_count + 1
            /\ halfopen_count' = halfopen_count + 1

\* fw_stateful_eval: any other TCP packet moves the first entry of its flow.
eval_tracked(f, flags) ==
  /\ ~("SYN" \in flags /\ "ACK" \notin flags)
  /\ \E c \in find_connection(f) :
       LET next == tcp_state_advance(connections[c].state, flags)
       IN  /\ halfopen_count' = IF next = "SYN_RCVD" /\ "ACK" \in flags /\ syn_cookie_verify(f)
                                THEN halfopen_count - 1 ELSE halfopen_count
           /\ IF next = "CLOSED"
              THEN /\ connections' = [connections EXCEPT ![c] = Free]
                   /\ conn_count' = conn_count - 1
                   /\ seen' = Without(c)
              ELSE /\ connections' = [connections EXCEPT ![c].state = next]
                   /\ seen' = Append(Without(c), c)
                   /\ UNCHANGED conn_count
  /\ UNCHANGED syn_cookie_count

\* Mutant: the counter is not touched.
fw_stateful_timeout_stale_uncounted(n) ==
  /\ connections' = [c \in Conn |-> IF \E k \in 1 .. n : seen[k] = c THEN Free ELSE connections[c]]
  /\ seen' = SubSeq(seen, n + 1, Len(seen))
  /\ UNCHANGED <<conn_count, syn_cookie_count, halfopen_count>>

\* The n entries seen longest ago are too old.
fw_stateful_timeout_stale(n) ==
  /\ connections' = [c \in Conn |-> IF \E k \in 1 .. n : seen[k] = c THEN Free ELSE connections[c]]
  /\ conn_count' = conn_count - n
  /\ seen' = SubSeq(seen, n + 1, Len(seen))
  /\ UNCHANGED <<syn_cookie_count, halfopen_count>>

StatefulNext ==
  \/ \E f \in Flows, flags \in Flags : eval_syn(f, flags) \/ eval_tracked(f, flags)
  \/ \E n \in 1 .. Len(seen) : fw_stateful_timeout_stale(n)

StatefulSpec == StatefulInit /\ [][StatefulNext]_statefulVars

-----------------------------------------------------------------------------
(***************************************************************************)
(* conn_count is the number of entries in use, through closes and          *)
(* time-outs in any order, so a SYN that passes its test always gets an    *)
(* entry and a free entry is never refused (fw_stateful_eval).             *)
(***************************************************************************)
ConnCountExact == conn_count = Cardinality({c \in Conn : connections[c].flow # NoFlow})
=============================================================================
