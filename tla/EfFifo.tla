------------------------------- MODULE EfFifo -------------------------------
(***************************************************************************)
(* What ef_queue_push and ef_queue_pop promise (README.md, "FIFO queue"):  *)
(* any number of producers and consumers share one first-in first-out      *)
(* queue.  A push or a pop that fails changes nothing.                     *)
(***************************************************************************)
EXTENDS Sequences

CONSTANT Messages

VARIABLES q,           \* the messages in the queue, oldest first
          delivered    \* the messages taken out, in the order of the pops

fifoVars == <<q, delivered>>

FifoInit == q = <<>> /\ delivered = <<>>

Enqueue(m) ==
  /\ q' = Append(q, m)
  /\ UNCHANGED delivered

Dequeue ==
  /\ q # <<>>
  /\ q' = Tail(q)
  /\ delivered' = Append(delivered, Head(q))

FifoNext == Dequeue \/ \E m \in Messages : Enqueue(m)

FifoSpec == FifoInit /\ [][FifoNext]_fifoVars
=============================================================================
