----------------------------- MODULE RingCalls ------------------------------
(***************************************************************************)
(* What one call of Ringbuffer::write or Ringbuffer::read does when the    *)
(* other side is not inside a call: the whole call as one function of the  *)
(* buffer. Ringbuffer.tla takes the calls apart to see them overlap; here  *)
(* they are what the tasks of the audio chain are composed with.           *)
(*                                                                         *)
(* A buffer is a record of its cells and their number, its two positions   *)
(* (a position on data_.end() never outlives a call made alone) and its    *)
(* flag.                                                                   *)
(***************************************************************************)
EXTENDS Integers, Sequences

EmptyRing(size) == [size    |-> size,
                    data    |-> [c \in 0 .. size - 1 |-> 0],
                    wpos    |-> 0,
                    rpos    |-> 0,
                    newData |-> FALSE]

\* What read() takes the number of unread elements to be.
Available(ring) ==
  IF ~ring.newData THEN 0
  ELSE IF ring.wpos > ring.rpos THEN ring.wpos - ring.rpos
  ELSE ring.size - (ring.rpos - ring.wpos)

\* Mutant: a packet that passes data_.end() leaves write_pos on the first cell.
AfterWriteRestarts(ring, s) ==
  LET Into(c) == {i \in 1 .. Len(s) : (ring.wpos + i - 1) % ring.size = c}
      Last(I) == CHOOSE i \in I : \A j \in I : j <= i
  IN [ring EXCEPT
       !.data    = [c \in DOMAIN ring.data |->
                      IF Into(c) = {} THEN ring.data[c] ELSE s[Last(Into(c))]],
       !.wpos    = IF ring.wpos + Len(s) < ring.size THEN ring.wpos + Len(s) ELSE 0,
       !.newData = ring.newData \/ s # <<>>]

\* write(s): the last of the elements that go into a cell stays in it.
AfterWrite(ring, s) ==
  LET Into(c) == {i \in 1 .. Len(s) : (ring.wpos + i - 1) % ring.size = c}
      Last(I) == CHOOSE i \in I : \A j \in I : j <= i
  IN [ring EXCEPT
       !.data    = [c \in DOMAIN ring.data |->
                      IF Into(c) = {} THEN ring.data[c] ELSE s[Last(Into(c))]],
       !.wpos    = (ring.wpos + Len(s)) % ring.size,
       !.newData = ring.newData \/ s # <<>>]

Length(ring, n) == IF n <= Available(ring) THEN n ELSE Available(ring)

\* The one branch of read() that puts its second piece in the wrong place:
\* a full buffer, a request shorter than it, and a wrap-around in between.
Misplaces(ring, n) ==
  /\ Available(ring) = ring.size
  /\ n < ring.size
  /\ ring.rpos + n > ring.size

\* What read(buffer, n) leaves in the first slots of the caller's buffer; 0
\* is a slot it skips, which keeps what an earlier read left there.
Delivered(ring, n) ==
  LET toEnd == ring.size - ring.rpos
      rest  == n - toEnd
  IN [k \in 1 .. Length(ring, n) |->
        IF ~Misplaces(ring, n)
        THEN ring.data[(ring.rpos + k - 1) % ring.size]
        ELSE IF k \in rest + 1 .. 2 * rest THEN ring.data[k - 1 - rest]
        ELSE IF k <= toEnd THEN ring.data[ring.rpos + k - 1]
        ELSE 0]

\* Mutant: a read that empties the buffer leaves the flag set.
AfterReadKeepsFlag(ring, n) ==
  [ring EXCEPT !.rpos = (ring.rpos + Length(ring, n)) % ring.size]

AfterRead(ring, n) ==
  [ring EXCEPT !.rpos    = (ring.rpos + Length(ring, n)) % ring.size,
               !.newData = Length(ring, n) < Available(ring)]
=============================================================================
