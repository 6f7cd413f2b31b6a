---------------------------- MODULE MCRingbuffer ----------------------------
(***************************************************************************)
(* Model checking of the ring buffer, and the refinement mapping to the    *)
(* FIFO queue: the queue is what lies in the cells from read_pos on, the   *)
(* batch what lies in the caller's buffer.                                 *)
(***************************************************************************)
EXTENDS Ringbuffer, Sequences

Queue == INSTANCE Fifo WITH
  Capacity <- Size,
  Request  <- Readlen,
  Burst    <- 1,
  queue    <- [i \in 1 .. Unread |-> data[Index(rpos + i - 1)]],
  batch    <- [k \in 1 .. got |-> buf[k - 1]],
  last     <- written

\* The ring buffer, used with discipline, implements the FIFO queue: every
\* interleaving of write() and read() is a sequence of puts and of takes of
\* the oldest elements.
ImplementsFifo == Queue!Spec
=============================================================================
