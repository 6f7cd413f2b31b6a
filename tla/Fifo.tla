-------------------------------- MODULE Fifo --------------------------------
(***************************************************************************)
(* What two audio elements expect of what lies between them: a bounded     *)
(* first-in first-out queue. Elements, numbered in the order they are put, *)
(* are put in bursts; a batch taken from the queue is a prefix of it, no   *)
(* longer than the request. A chain of such buffers looks the same from    *)
(* its two ends.                                                           *)
(***************************************************************************)
EXTENDS Integers, Sequences

CONSTANTS Capacity, Request, Burst

VARIABLES
  queue,   \* the elements in the buffer, oldest first
  batch,   \* the elements the reader is working on
  last     \* the number of the last element put

vars == <<queue, batch, last>>

Init == queue = <<>> /\ batch = <<>> /\ last = 0

Put ==
  /\ \E n \in 1 .. Burst :
       /\ Len(queue) + n <= Capacity
       /\ last' = last + n
       /\ queue' = queue \o [i \in 1 .. n |-> last + i]
  /\ UNCHANGED batch

TakeBatch ==
  /\ batch = <<>>
  /\ \E n \in 1 .. Len(queue) :
       /\ n <= Request
       /\ batch' = SubSeq(queue, 1, n)
       /\ queue' = SubSeq(queue, n + 1, Len(queue))
  /\ UNCHANGED last

Finish == batch' = <<>> /\ UNCHANGED <<queue, last>>

Next == Put \/ TakeBatch \/ Finish

Spec == Init /\ [][Next]_vars
=============================================================================
