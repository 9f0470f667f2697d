-------------------------------- MODULE KMsg --------------------------------
(***************************************************************************)
(* The kernel message ring (kernel/kmsg.c): a fixed array of entries, the  *)
(* index of the next entry to overwrite and the number of entries in use.  *)
(* dmesg reads it back with kmsg_get(0), kmsg_get(1), ...                  *)
(*                                                                         *)
(* The text kmsg_vprintf builds is an element of Msgs: no property is      *)
(* about its wording.                                                      *)
(***************************************************************************)
EXTENDS Integers, Sequences

CONSTANTS KMSG_BUF_SIZE,  \* number of entries of the ring
          Levels,         \* kmsg_level_t
          Msgs,           \* formatted messages
          NoMsg,          \* the empty text of an entry never written
          MaxTicks,       \* bound on timer_ticks
          MaxAdds         \* bound on the number of messages added

ASSUME KMsgAssumption ==
    /\ KMSG_BUF_SIZE \in Nat \ {0}
    /\ NoMsg \notin Msgs
    /\ "LOG" \in Levels
    /\ MaxTicks \in Nat
    /\ MaxAdds \in Nat

VARIABLES kmsg_ring, kmsg_head, kmsg_total,
          timer_ticks,   \* timer.c's clock, the source of the timestamps
          history        \* every entry ever added, oldest first (history variable)

kmsgVars == <<kmsg_ring, kmsg_head, kmsg_total, timer_ticks, history>>

KmsgEntry == [timestamp : Nat, level : Levels, msg : Msgs \cup {NoMsg}]

(* kmsg_init *)
KmsgInit ==
    /\ kmsg_ring = [i \in 0..(KMSG_BUF_SIZE - 1) |->
                      [timestamp |-> 0, level |-> "LOG", msg |-> NoMsg]]
    /\ kmsg_head = 0
    /\ kmsg_total = 0
    /\ timer_ticks = 0
    /\ history = <<>>

(* timer_handler's increment; the callback and the scheduler it may call   *)
(* do not touch the ring.                                                  *)
Tick ==
    /\ timer_ticks < MaxTicks
    /\ timer_ticks' = timer_ticks + 1
    /\ UNCHANGED <<kmsg_ring, kmsg_head, kmsg_total, history>>

(* Mistake: the head is advanced without the modulo. *)
kmsg_add_unwrapped(level, msg) ==
    /\ Len(history) < MaxAdds
    /\ kmsg_ring' = [kmsg_ring EXCEPT ![kmsg_head] =
                       [timestamp |-> timer_ticks, level |-> level, msg |-> msg]]
    /\ history' = Append(history, kmsg_ring'[kmsg_head])
    /\ kmsg_head' = kmsg_head + 1
    /\ kmsg_total' = IF kmsg_total < KMSG_BUF_SIZE THEN kmsg_total + 1 ELSE kmsg_total
    /\ UNCHANGED timer_ticks

kmsg_add(level, msg) ==
    /\ Len(history) < MaxAdds
    /\ LET e == [timestamp |-> timer_ticks, level |-> level, msg |-> msg]
       IN  /\ kmsg_ring' = [kmsg_ring EXCEPT ![kmsg_head] = e]
           /\ history' = Append(history, e)
    /\ kmsg_head' = (kmsg_head + 1) % KMSG_BUF_SIZE
    /\ kmsg_total' = IF kmsg_total < KMSG_BUF_SIZE THEN kmsg_total + 1 ELSE kmsg_total
    /\ UNCHANGED timer_ticks

kmsg_count == kmsg_total

(* Mistake: kmsg_get that forgets that a full ring starts at the head. *)
kmsg_get_from_zero(index) == kmsg_ring[index % KMSG_BUF_SIZE]

(* kmsg_get for an index below kmsg_count; above it the code returns 0.    *)
kmsg_get(index) ==
    LET start == IF kmsg_total < KMSG_BUF_SIZE THEN 0 ELSE kmsg_head
    IN  kmsg_ring[(start + index) % KMSG_BUF_SIZE]

KmsgNext ==
    \/ Tick
    \/ \E level \in Levels, msg \in Msgs : kmsg_add(level, msg)

KmsgSpec == KmsgInit /\ [][KmsgNext]_kmsgVars

-----------------------------------------------------------------------------
KmsgTypeOK ==
    /\ kmsg_ring \in [0..(KMSG_BUF_SIZE - 1) -> KmsgEntry]
    /\ kmsg_head \in 0..(KMSG_BUF_SIZE - 1)
    /\ kmsg_total \in 0..KMSG_BUF_SIZE
    /\ timer_ticks \in Nat
    /\ history \in Seq(KmsgEntry)

(* dmesg (shell.c: for i below kmsg_count(), kmsg_get(i)) prints exactly   *)
(* the newest kmsg_count messages, oldest first: nothing is skipped,       *)
(* repeated or shown out of order, before and after the ring wraps.        *)
DmesgShowsNewest ==
    /\ kmsg_count <= Len(history)
    /\ kmsg_count < Len(history) => kmsg_count = KMSG_BUF_SIZE
    /\ \A i \in 0..(kmsg_count - 1) :
          kmsg_get(i) = history[Len(history) - kmsg_count + 1 + i]

=============================================================================
