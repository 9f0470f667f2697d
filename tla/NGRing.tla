------------------------------- MODULE NGRing -------------------------------
(***************************************************************************)
(* The ring of stage2/security/netguard/netguard.c between the threads     *)
(* that flag packets and the wiper, one memory access at a time.  The      *)
(* scanner and the hunter both call ring_push, the wiper calls ring_pop,   *)
(* each on its own core; mfence keeps the stores in program order.         *)
(* NETGUARD_RING_SIZE is 256.  Nothing keeps the two producers apart: the  *)
(* history variable overlapped records that one took a slot while the      *)
(* other was between its read of the head and its store of it.             *)
(***************************************************************************)
EXTENDS Integers, Sequences

CONSTANTS NG_RING_SIZE, NGPackets,
          NGProducers,   \* the threads that call ring_push
          NGNone         \* what a slot holds before the first packet
ASSUME NGRingAssumption == NG_RING_SIZE \in Nat \ {0, 1} /\ NGNone \in NGPackets

VARIABLES ring_head, ring_tail, ring_slots,
          pushing,   \* per producer: where it is in ring_push, and what it read
          popping,   \* the same for the wiper in ring_pop
          handed,    \* the packet the last ring_pop returned
          overlapped
ringVars == <<ring_head, ring_tail, ring_slots, pushing, popping, handed, overlapped>>

RingIndex == 0 .. NG_RING_SIZE - 1
Advance(i) == (i + 1) % NG_RING_SIZE
\* Outside the two functions their variables are gone.
NotPushing == [at |-> "idle", pkt |-> NGNone, head |-> 0]
NotPopping == [at |-> "idle", pkt |-> NGNone]

RingInit ==
  /\ ring_head = 0 /\ ring_tail = 0
  /\ ring_slots = [i \in RingIndex |-> NGNone]
  /\ pushing = [p \in NGProducers |-> NotPushing]
  /\ popping = NotPopping /\ handed = NGNone
  /\ overlapped = FALSE

\* head is read, and the test for a full ring reads tail; a full ring drops
\* the packet.
PushBegin(p) ==
  /\ pushing[p].at = "idle"
  /\ \E pkt \in NGPackets :
       pushing' = [pushing EXCEPT ![p] = IF Advance(ring_head) = ring_tail THEN @
                                         ELSE [at |-> "copy", pkt |-> pkt, head |-> ring_head]]
  /\ overlapped' = (overlapped \/ (pushing' # pushing /\ \E q \in NGProducers : pushing[q].at # "idle"))
  /\ UNCHANGED <<ring_head, ring_tail, ring_slots, popping, handed>>

\* Mutant: the barrier is missing, and the head is seen before the packet.
PushCopy_unfenced(p) ==
  /\ pushing[p].at = "copy"
  /\ \/ /\ ring_head = pushing[p].head
        /\ ring_head' = Advance(ring_head)
        /\ UNCHANGED <<ring_slots, pushing>>
     \/ /\ ring_head # pushing[p].head
        /\ ring_slots' = [ring_slots EXCEPT ![pushing[p].head] = pushing[p].pkt]
        /\ pushing' = [pushing EXCEPT ![p].at = "publish"]
        /\ UNCHANGED ring_head
  /\ UNCHANGED <<ring_tail, popping, handed, overlapped>>
PushCopy(p) ==
  /\ pushing[p].at = "copy"
  /\ ring_slots' = [ring_slots EXCEPT ![pushing[p].head] = pushing[p].pkt]
  /\ pushing' = [pushing EXCEPT ![p].at = "publish"]
  /\ UNCHANGED <<ring_head, ring_tail, popping, handed, overlapped>>

PushPublish(p) ==
  /\ pushing[p].at = "publish"
  /\ ring_head' = Advance(pushing[p].head)
  /\ pushing' = [pushing EXCEPT ![p] = NotPushing]
  /\ UNCHANGED <<ring_tail, ring_slots, popping, handed, overlapped>>

PopBegin ==
  /\ popping.at = "idle" /\ ring_tail # ring_head
  /\ popping' = [popping EXCEPT !.at = "copy"]
  /\ UNCHANGED <<ring_head, ring_tail, ring_slots, pushing, handed, overlapped>>

PopCopy ==
  /\ popping.at = "copy"
  /\ popping' = [at |-> "publish", pkt |-> ring_slots[ring_tail]]
  /\ UNCHANGED <<ring_head, ring_tail, ring_slots, pushing, handed, overlapped>>

PopPublish ==
  /\ popping.at = "publish"
  /\ ring_tail' = Advance(ring_tail)
  /\ popping' = NotPopping /\ handed' = popping.pkt
  /\ UNCHANGED <<ring_head, ring_slots, pushing, overlapped>>

RingNext ==
  \/ \E p \in NGProducers : PushBegin(p) \/ PushCopy(p) \/ PushPublish(p)
  \/ PopBegin \/ PopCopy \/ PopPublish
RingSpec == RingInit /\ [][RingNext]_ringVars

----------------------------------------------------------------------------
RingTypeOK ==
  /\ ring_head \in RingIndex /\ ring_tail \in RingIndex
  /\ ring_slots \in [RingIndex -> NGPackets]
  /\ pushing \in [NGProducers -> [at : {"idle", "copy", "publish"}, pkt : NGPackets, head : RingIndex]]
  /\ popping \in [at : {"idle", "copy", "publish"}, pkt : NGPackets] /\ handed \in NGPackets
  /\ overlapped \in BOOLEAN

\* ring_count, and the packets from the oldest one on.
ring_count == (ring_head - ring_tail) % NG_RING_SIZE
Contents == [i \in 1 .. ring_count |-> ring_slots[(ring_tail + i - 1) % NG_RING_SIZE]]

Fifo == INSTANCE NGFifo WITH FifoItems <- NGPackets, FifoCapacity <- NG_RING_SIZE - 1, fifo <- Contents, given <- handed

\* As long as no two calls of ring_push overlap, every interleaving with ring_pop
\* looks like a bounded queue: no packet is lost, repeated, torn or out of order
\* once ring_push returned 0, and one slot stays free.
RingIsFifoApart == Fifo!FifoInit /\ [][overlapped' \/ Fifo!FifoNext]_<<Contents, handed>>

\* netguard.c:67, "Lock-Free SPSC Ring Buffer (Single Producer, Single Consumer)":
\* the ring is a bounded queue, whoever pushes.
RingIsFifo == Fifo!FifoSpec

\* Bound of the exploration only: RingIsFifoApart says nothing of what follows.
Apart == ~ overlapped
=============================================================================
