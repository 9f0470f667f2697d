------------------------------- MODULE NGFifo -------------------------------
(***************************************************************************)
(* What a ring between one producer and one consumer promises: a bounded   *)
(* queue whose operations take effect at one instant.                      *)
(***************************************************************************)
EXTENDS Naturals, Sequences

CONSTANTS FifoItems, FifoCapacity
VARIABLES fifo, given   \* the queue; the item handed out last

FifoInit == fifo = <<>> /\ given \in FifoItems

Enqueue == \E item \in FifoItems :
  Len(fifo) < FifoCapacity /\ fifo' = Append(fifo, item) /\ UNCHANGED given
Dequeue ==
  fifo # <<>> /\ given' = Head(fifo) /\ fifo' = Tail(fifo)

FifoNext == Enqueue \/ Dequeue
FifoSpec == FifoInit /\ [][FifoNext]_<<fifo, given>>
=============================================================================
