-------------------------------- MODULE STor --------------------------------
(***************************************************************************)
(* The Tor client: circuits and streams (tor_core.c), the relay list       *)
(* (tor_directory.c), the bootstrap state machine, hidden services and the *)
(* SOCKS5 front end.  Keys and cells are abstract: a hop is the relay it   *)
(* was made for, a cell is counted when it is sent.                        *)
(*                                                                         *)
(* A circuit in the table and the copy tor_circuit_create hands out are    *)
(* different objects: callers extend the copy.  Nothing in the code makes  *)
(* a circuit "established".                                                *)
(***************************************************************************)
EXTENDS Integers, Sequences, FiniteSets, SequencesExt

CONSTANTS TR_CIRCUITS, TR_STREAMS, TR_HOPS, TR_SOCKS,  \* sizes of the tables (32, 64, 8, 16)
          TR_LOW,       \* values of the low half of a circuit id (2^16)
          TR_HSDIRS,    \* directories of a hidden service (16)
          TR_RELAYS,    \* bootstrap_relays: which flags each has
          TR_CELLS      \* bound on cells sent

ASSUME TRAssumption == TR_CIRCUITS \in Nat /\ TR_LOW \in Nat /\ TR_CIRCUITS < TR_LOW /\ TR_HOPS >= 3

VARIABLES tr_boot,      \* tor_boot: state, circuit_id, hs_published
          tr_circ, tr_streams,  \* tor_circuits, tor_streams
          tr_next, tr_stream,   \* tor_circ_counter, tor_stream_counter
          tr_sent,      \* cells sent
          tr_copy,      \* a caller's tor_circuit_t
          tr_cons,      \* dir_consensus, <<>> while not valid
          tr_hs,        \* a caller's tor_hidden_service_t
          tr_socks,     \* socks5_conns, <<>> before tor_socks5_init
          tr_made       \* history: circuits the callers made since tor_init
trVars == <<tr_boot, tr_circ, tr_streams, tr_next, tr_stream, tr_sent, tr_copy, tr_cons, tr_hs, tr_socks, tr_made>>

NoCirc == [id |-> 0, state |-> "none", hops |-> <<>>]
NoTorStream == [id |-> 0, circ |-> 0, state |-> "none"]
NoSocks == [state |-> "none", stream |-> 0]
FirstIn(S) == IF S = {} THEN 0 ELSE CHOOSE i \in S : \A j \in S : i <= j

----------------------------------------------------------------------------
(* The relay list *)

\* tor_directory_fetch_consensus: the built-in relays; is_guard, is_exit and
\* is_hsdir are set, the field flags stays zero.
tor_directory_fetch_consensus == [i \in DOMAIN TR_RELAYS |-> [relay |-> i, is |-> TR_RELAYS[i], flags |-> {}]]

\* The selections look at flags; a guard and a middle relay have a fallback.
tor_select_guard(cons) ==
  LET g == FirstIn({i \in DOMAIN cons : "guard" \in cons[i].flags}) IN IF g # 0 THEN g ELSE IF cons # <<>> THEN 1 ELSE 0
tor_select_middle(cons) ==
  LET m == FirstIn({i \in DOMAIN cons : cons[i].flags \cap {"guard", "exit"} = {}})
  IN  IF m # 0 THEN m ELSE IF Len(cons) > 1 THEN 2 ELSE 0
tor_select_exit(cons) == FirstIn({i \in DOMAIN cons : "exit" \in cons[i].flags})

----------------------------------------------------------------------------
(* Circuits *)
FreeCirc(circ) == FirstIn({i \in DOMAIN circ : circ[i].state = "none"})
NewCirc == [id |-> tr_next, state |-> "building", hops |-> <<>>]

\* Mutant: the counter starts again, to avoid correlation.
FreshCounter_base(c) == TR_LOW
\* tor_force_new_circuit: the high half of the counter is set back, the low is kept.
FreshCounter(c) == TR_LOW + (c % TR_LOW)

tor_circuit_create ==
  LET slot == FreeCirc(tr_circ)
  IN  /\ tr_boot.state # "idle" /\ slot # 0
      /\ tr_circ' = [tr_circ EXCEPT ![slot] = NewCirc] /\ tr_copy' = NewCirc
      /\ tr_next' = tr_next + 1 /\ tr_made' = tr_made + 1
      /\ UNCHANGED <<tr_boot, tr_streams, tr_stream, tr_sent, tr_cons, tr_hs, tr_socks>>

\* tor_circuit_extend, on the caller's copy, in whatever state it is: one that was
\* destroyed, or never created, is extended like any other.
tor_circuit_extend(relay) ==
  /\ Len(tr_copy.hops) < TR_HOPS
  /\ tr_copy' = [tr_copy EXCEPT !.hops = Append(@, relay), !.state = "extending"]
  /\ UNCHANGED <<tr_boot, tr_circ, tr_streams, tr_next, tr_stream, tr_sent, tr_cons, tr_hs, tr_socks, tr_made>>

\* tor_circuit_destroy: a cell, the keys of the hops cleared.
Destroyed(c) == [c EXCEPT !.state = "dead", !.hops = [i \in DOMAIN @ |-> "zero"]]
tor_circuit_destroy ==
  /\ tr_sent < TR_CELLS
  /\ tr_copy' = Destroyed(tr_copy) /\ tr_sent' = tr_sent + 1
  /\ UNCHANGED <<tr_boot, tr_circ, tr_streams, tr_next, tr_stream, tr_cons, tr_hs, tr_socks, tr_made>>

tor_force_new_circuit ==
  LET used == {i \in DOMAIN tr_circ : tr_circ[i].state # "none"}
  IN  /\ tr_sent + Cardinality(used) <= TR_CELLS
      /\ tr_circ' = [i \in DOMAIN tr_circ |-> IF i \in used THEN Destroyed(tr_circ[i]) ELSE tr_circ[i]]
      /\ tr_sent' = tr_sent + Cardinality(used)
      /\ tr_next' = FreshCounter(tr_next) /\ tr_stream' = 1
      /\ UNCHANGED <<tr_boot, tr_streams, tr_copy, tr_cons, tr_hs, tr_socks, tr_made>>

----------------------------------------------------------------------------
(* Streams *)

\* tor_stream_open: an established circuit and a free slot.
Established(id) == FirstIn({i \in DOMAIN tr_circ : tr_circ[i].id = id /\ tr_circ[i].state = "established"})
FreeStream == FirstIn({i \in DOMAIN tr_streams : tr_streams[i].state = "none"})
tor_stream_open(id) ==
  IF Established(id) = 0 \/ FreeStream = 0 THEN [ok |-> FALSE, streams |-> tr_streams]
  ELSE [ok |-> TRUE, streams |-> [tr_streams EXCEPT ![FreeStream] = [id |-> tr_stream, circ |-> id, state |-> "connecting"]]]

\* tor_stream_send_data: only on an established stream, which there is none.
CanSend(id) == \E i \in DOMAIN tr_streams : tr_streams[i].id = id /\ tr_streams[i].state = "established"

\* tor_stream_close: the first slot with the number, which for 0 is an unused one;
\* the END cell goes to the first circuit slot with the stream's circuit number.
Closed(streams, id) == LET i == FirstIn({i \in DOMAIN streams : streams[i].id = id}) IN IF i = 0 THEN streams ELSE [streams EXCEPT ![i].state = "closed"]
EndCells(streams, id) ==
  LET i == FirstIn({i \in DOMAIN streams : streams[i].id = id})
  IN  IF i # 0 /\ \E j \in DOMAIN tr_circ : tr_circ[j].id = streams[i].circ THEN 1 ELSE 0
tor_stream_close(id) ==
  /\ tr_sent + EndCells(tr_streams, id) <= TR_CELLS
  /\ tr_streams' = Closed(tr_streams, id) /\ tr_sent' = tr_sent + EndCells(tr_streams, id)
  /\ UNCHANGED <<tr_boot, tr_circ, tr_next, tr_stream, tr_copy, tr_cons, tr_hs, tr_socks, tr_made>>

\* tor_flush_streams: every used slot is closed, then all are cleared.
tor_flush_streams ==
  LET used == {i \in DOMAIN tr_streams : tr_streams[i].state # "none"}
      cells == Cardinality({i \in used : EndCells(tr_streams, tr_streams[i].id) = 1})
  IN  /\ used # {} /\ tr_sent + cells <= TR_CELLS
      /\ tr_streams' = [i \in DOMAIN tr_streams |-> NoTorStream] /\ tr_sent' = tr_sent + cells
      /\ UNCHANGED <<tr_boot, tr_circ, tr_next, tr_stream, tr_copy, tr_cons, tr_hs, tr_socks, tr_made>>

----------------------------------------------------------------------------
(* Bootstrap *)

\* tor_bootstrap_init, tor_init: at any time, also over circuits and streams in use,
\* whose callers keep their copies.
tor_bootstrap_init ==
  /\ tr_boot' = [state |-> "consensus", circuit |-> 0]
  /\ tr_circ' = [i \in 1 .. TR_CIRCUITS |-> NoCirc] /\ tr_streams' = [i \in 1 .. TR_STREAMS |-> NoTorStream]
  /\ tr_next' = TR_LOW /\ tr_stream' = 1 /\ tr_sent' = 0 /\ tr_made' = 0
  /\ UNCHANGED <<tr_copy, tr_cons, tr_hs, tr_socks>>

\* The slot a poll takes: relays for all three hops come first.
CircTaken(cons) ==
  IF tor_select_guard(cons) # 0 /\ tor_select_middle(cons) # 0 /\ tor_select_exit(cons) # 0 THEN FreeCirc(tr_circ) ELSE 0

\* tor_bootstrap_poll in state CONSENSUS, and in the states after it, which no
\* bootstrap reaches while flags stay zero.
poll_later(state) ==
  CASE state = "circuit_ready" -> [state |-> "socks5_start", socks |-> [i \in 1 .. TR_SOCKS |-> NoSocks], hs |-> tr_hs]
    [] state = "socks5_start" -> [state |-> "ready", socks |-> tr_socks, hs |-> [init |-> TRUE, hsdirs |-> <<>>, published |-> TRUE]]
    [] OTHER -> [state |-> state, socks |-> tr_socks, hs |-> tr_hs]
poll_consensus ==
  LET cons  == tor_directory_fetch_consensus
      slot  == CircTaken(cons)
      built == slot # 0 /\ tor_select_exit(cons) # 0
  IN  /\ cons # <<>> /\ tr_cons' = cons
      /\ tr_boot' = [tr_boot EXCEPT !.state = IF built THEN "circuit_ready" ELSE "failed", !.circuit = IF built THEN tr_next ELSE @]
      /\ IF slot = 0 THEN UNCHANGED <<tr_circ, tr_next>>
         ELSE tr_circ' = [tr_circ EXCEPT ![slot] = NewCirc] /\ tr_next' = tr_next + 1
      /\ UNCHANGED <<tr_hs, tr_socks>>
tor_bootstrap_poll ==
  /\ tr_boot.state # "idle"
  /\ IF tr_boot.state = "consensus" THEN poll_consensus
     ELSE LET after == poll_later(tr_boot.state)
          IN  /\ tr_boot' = [tr_boot EXCEPT !.state = after.state] /\ tr_socks' = after.socks /\ tr_hs' = after.hs
              /\ UNCHANGED <<tr_circ, tr_next, tr_cons>>
  /\ UNCHANGED <<tr_streams, tr_stream, tr_sent, tr_copy, tr_made>>

----------------------------------------------------------------------------
(* Hidden service *)

\* tor_hs_init, tor_hs_select_hsdirs, tor_hs_publish (which sends nothing).
tor_hs_init ==
  /\ tr_hs' = [init |-> TRUE, hsdirs |-> <<>>, published |-> FALSE]
  /\ UNCHANGED <<tr_boot, tr_circ, tr_streams, tr_next, tr_stream, tr_sent, tr_copy, tr_cons, tr_socks, tr_made>>
tor_hs_select_hsdirs ==
  LET dirs == SelectSeq(tr_cons, LAMBDA r : "hsdir" \in r.is)
  IN  /\ tr_hs.init /\ tr_hs' = [tr_hs EXCEPT !.hsdirs = SubSeq(dirs, 1, IF Len(dirs) < TR_HSDIRS THEN Len(dirs) ELSE TR_HSDIRS)]
      /\ UNCHANGED <<tr_boot, tr_circ, tr_streams, tr_next, tr_stream, tr_sent, tr_copy, tr_cons, tr_socks, tr_made>>
tor_hs_publish ==
  /\ tr_hs.init /\ tr_hs' = [tr_hs EXCEPT !.published = TRUE]
  /\ UNCHANGED <<tr_boot, tr_circ, tr_streams, tr_next, tr_stream, tr_sent, tr_copy, tr_cons, tr_socks, tr_made>>

----------------------------------------------------------------------------
(* SOCKS5 *)
\* tor_socks5_init, and tor_socks5_accept once it was called.
tor_socks5_init ==
  /\ tr_socks' = [i \in 1 .. TR_SOCKS |-> NoSocks]
  /\ UNCHANGED <<tr_boot, tr_circ, tr_streams, tr_next, tr_stream, tr_sent, tr_copy, tr_cons, tr_hs, tr_made>>
tor_socks5_accept ==
  LET i == FirstIn({i \in DOMAIN tr_socks : tr_socks[i].state = "none"})
  IN  /\ i # 0 /\ tr_socks' = [tr_socks EXCEPT ![i] = [NoSocks EXCEPT !.state = "wait_auth"]]
      /\ UNCHANGED <<tr_boot, tr_circ, tr_streams, tr_next, tr_stream, tr_sent, tr_copy, tr_cons, tr_hs, tr_made>>

\* tor_socks5_handle: the connection is looked up by its stream, 0 for all that
\* have none yet, so the first of them is meant.  Messages that are too short, or
\* of another version, change nothing.
tor_socks5_handle(stream, msg) ==
  LET i == FirstIn({k \in DOMAIN tr_socks : tr_socks[k].state # "none" /\ tr_socks[k].stream = stream})
      opened == tor_stream_open(0)
  IN  /\ i # 0
      /\ \/ tr_socks[i].state = "wait_auth" /\ msg \in {"no_auth", "other_auth"}
            /\ tr_socks' = [tr_socks EXCEPT ![i].state = IF msg = "no_auth" THEN "wait_cmd" ELSE "error"]
            /\ UNCHANGED <<tr_streams, tr_stream>>
         \/ tr_socks[i].state = "wait_cmd" /\ msg = "bind"
            /\ tr_socks' = [tr_socks EXCEPT ![i].state = "error"] /\ UNCHANGED <<tr_streams, tr_stream>>
         \/ tr_socks[i].state = "wait_cmd" /\ msg = "connect" /\ tr_streams' = opened.streams
            /\ tr_socks' = [tr_socks EXCEPT ![i] = IF opened.ok THEN [state |-> "connected", stream |-> tr_stream] ELSE [@ EXCEPT !.state = "error"]]
            /\ tr_stream' = IF opened.ok THEN tr_stream + 1 ELSE tr_stream
      /\ UNCHANGED <<tr_boot, tr_circ, tr_next, tr_sent, tr_copy, tr_cons, tr_hs, tr_made>>

----------------------------------------------------------------------------
TRInit ==
  /\ tr_boot = [state |-> "idle", circuit |-> 0]
  /\ tr_circ = [i \in 1 .. TR_CIRCUITS |-> NoCirc] /\ tr_streams = [i \in 1 .. TR_STREAMS |-> NoTorStream]
  /\ tr_next = 0 /\ tr_stream = 0 /\ tr_sent = 0 /\ tr_copy = NoCirc /\ tr_cons = <<>>
  /\ tr_hs = [init |-> FALSE, hsdirs |-> <<>>, published |-> FALSE]
  /\ tr_socks = <<>> /\ tr_made = 0

TRNext ==
  \/ tor_bootstrap_init \/ tor_bootstrap_poll
  \/ tor_circuit_create \/ (\E r \in DOMAIN tr_cons : tor_circuit_extend(r)) \/ tor_circuit_destroy \/ tor_force_new_circuit
  \/ (\E id \in 0 .. 1 : tor_stream_close(id)) \/ tor_flush_streams
  \/ tor_hs_init \/ tor_hs_select_hsdirs \/ tor_hs_publish
  \/ tor_socks5_init \/ tor_socks5_accept
  \/ \E s \in 0 .. 1, msg \in {"no_auth", "other_auth", "bind", "connect"} : tor_socks5_handle(s, msg)

TRSpec == TRInit /\ [][TRNext]_trVars

----------------------------------------------------------------------------
\* No two circuits of the table ever have one number, although the counter is
\* set back when all circuits are given up: dead ones stay in the table.
CircuitsDistinct == \A i, j \in DOMAIN tr_circ : i # j /\ tr_circ[i].id = tr_circ[j].id => tr_circ[i].id = 0

\* A bootstrap that fails has taken no circuit: slots are never given back.
FailedTakesNone ==
  tr_boot.state = "failed" => Cardinality({i \in DOMAIN tr_circ : tr_circ[i].state # "none"}) = tr_made

\* A circuit that was given up has no keys left, and no stream is open without an
\* established circuit: the SOCKS front end tells nobody that it is connected.
NothingLeft ==
  /\ \A c \in {tr_circ[i] : i \in DOMAIN tr_circ} \cup {tr_copy} : c.state = "dead" => \A i \in DOMAIN c.hops : c.hops[i] = "zero"
  /\ \A i \in DOMAIN tr_socks : tr_socks[i].state = "connected" => CanSend(tr_socks[i].stream)

\* The Tor client as a whole.
TorClient == CircuitsDistinct /\ FailedTakesNone /\ NothingLeft
=============================================================================
