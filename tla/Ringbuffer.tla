----------------------------- MODULE Ringbuffer -----------------------------
(***************************************************************************)
(* The ring buffer that joins two neighbouring audio elements              *)
(* (Ringbuffer.h), with its two users: the upstream task that writes a     *)
(* packet and gives the binary semaphore, and the downstream task that     *)
(* takes the semaphore and performs one read.                              *)
(*                                                                         *)
(* The ESP32 runs the two on different cores and the buffer takes no lock  *)
(* (the ScopedLocker of read() is commented out), so every access to a     *)
(* location both sides use - write_pos, newDataAvailable_, the semaphore - *)
(* is a step of its own. read_pos belongs to the reader: its updates are   *)
(* folded into the copy next to them.                                      *)
(*                                                                         *)
(* Elements are numbered from 1 in the order they are written; a cell      *)
(* holds the number of the element stored in it, 0 the initial zeros.      *)
(***************************************************************************)
EXTENDS Integers

CONSTANTS
  Size,        \* number of cells of data_
  Readlen,     \* elements one read() asks for
  MaxPacket,   \* the largest packet written: a bound
  MaxWritten,  \* elements written in a behaviour: a bound
  Discipline   \* what the writer waits for, see MayWrite

Disciplines == {"none", "room", "slack", "drained"}

ASSUME RingAssumption ==
  /\ Size \in Nat \ {0}
  /\ Readlen \in Nat \ {0}
  /\ MaxPacket \in Nat \ {0}
  /\ MaxWritten \in Nat
  /\ Discipline \in Disciplines

VARIABLES
  data,      \* data_
  wpos,      \* write_pos as an offset; Size is data_.end()
  rpos,      \* read_pos as an offset
  newData,   \* newDataAvailable_
  sem,       \* BinarySemaphore
  wpc,       \* where the writer is
  wleft,     \* elements of the packet still to add
  rpc,       \* where the reader is
  dist,      \* bytesAvailableDist_
  front,     \* distanceBW_
  buf,       \* the caller's buffer and the memory behind it; -1 marks a slot
             \* this read has not written to
  got,       \* what this read returns
  written,   \* history: elements added so far
  consumed   \* history: elements the reader has moved past

writerVars == <<data, wpos, wpc, wleft, written>>
readerVars == <<rpos, rpc, dist, front, buf, got, consumed>>
vars == <<data, wpos, rpos, newData, sem, wpc, wleft, rpc, dist, front, buf,
          got, written, consumed>>

Cell == 0 .. Size - 1

\* The caller's buffer has Readlen slots, and no more: the tasks read into
\* arrays as long as their requests. The slots from Readlen on are memory
\* behind it, as far as a copy of read() can reach; see ReadFullWrapped.
Slot == 0 .. 2 * Readlen - 1
EmptyBuf == [k \in Slot |-> -1]
Unread == written - consumed

Init ==
  /\ data = [c \in Cell |-> 0]
  /\ wpos = 0 /\ rpos = 0
  /\ newData = FALSE
  /\ sem = 0
  /\ wpc = "idle" /\ wleft = 0
  /\ rpc = "wait"
  /\ dist = 0 /\ front = 0
  /\ buf = EmptyBuf /\ got = 0
  /\ written = 0 /\ consumed = 0

-----------------------------------------------------------------------------
(***************************************************************************)
(* The writer: write(buffer, n), then GiveBinarySemaphore().               *)
(***************************************************************************)

(***************************************************************************)
(* Under "none" the writer waits for nothing, as the code does. The other  *)
(* disciplines are readings of the comment on read(), "It is the users     *)
(* responsibility to make sure that all available bytes are read before a  *)
(* new write is performed": "drained" is the letter of it, for packets one *)
(* read can hold; under "room" and "slack" packets may queue up between    *)
(* reads, to the last cell or leaving one free.                            *)
(***************************************************************************)
MayWrite(n) ==
  LET ReaderResting == rpc \in {"wait", "process"}
  IN CASE Discipline = "none"    -> TRUE
       [] Discipline = "room"    -> /\ ReaderResting
                                    /\ sem = 0
                                    /\ Unread + n <= Size
       [] Discipline = "slack"   -> /\ ReaderResting
                                    /\ sem = 0
                                    /\ Unread + n < Size
       [] Discipline = "drained" -> /\ ReaderResting
                                    /\ Unread = 0
                                    /\ n <= Size /\ n <= Readlen

\* Mutant: newDataAvailable_ is set before the elements are stored.
BeginWriteFlagsFirst(n) ==
  /\ wpc = "idle"
  /\ n > 0 => MayWrite(n)
  /\ written + n <= MaxWritten
  /\ wleft' = n
  /\ wpc' = IF n > 0 THEN "add" ELSE "give"
  /\ newData' = (newData \/ n > 0)
  /\ UNCHANGED <<data, wpos, sem, written>>
  /\ UNCHANGED readerVars

\* Only packets that are not empty touch the buffer; the give comes anyway.
BeginWrite(n) ==
  /\ wpc = "idle"
  /\ n > 0 => MayWrite(n)
  /\ written + n <= MaxWritten
  /\ wleft' = n
  /\ wpc' = IF n > 0 THEN "add" ELSE "give"
  /\ UNCHANGED <<data, wpos, newData, sem, written>>
  /\ UNCHANGED readerVars

\* add(): store the element, then step write_pos, possibly onto data_.end().
Add ==
  /\ wpc = "add"
  /\ data' = [data EXCEPT ![wpos] = written + 1]
  /\ wpos' = wpos + 1
  /\ written' = written + 1
  /\ wleft' = wleft - 1
  /\ wpc' = "wrap"
  /\ UNCHANGED <<newData, sem>>
  /\ UNCHANGED readerVars

\* Mutant: the wrap-around of add() is off by one.
WrapLate ==
  /\ wpc = "wrap"
  /\ wpos' = IF wpos > Size THEN 0 ELSE wpos
  /\ wpc' = IF wleft > 0 THEN "add" ELSE "flag"
  /\ UNCHANGED <<data, newData, sem, wleft, written>>
  /\ UNCHANGED readerVars

Wrap ==
  /\ wpc = "wrap"
  /\ wpos' = IF wpos = Size THEN 0 ELSE wpos
  /\ wpc' = IF wleft > 0 THEN "add" ELSE "flag"
  /\ UNCHANGED <<data, newData, sem, wleft, written>>
  /\ UNCHANGED readerVars

SetFlag ==
  /\ wpc = "flag"
  /\ newData' = TRUE
  /\ wpc' = "give"
  /\ UNCHANGED <<data, wpos, sem, wleft, written>>
  /\ UNCHANGED readerVars

Give ==
  /\ wpc = "give"
  /\ sem' = 1
  /\ wpc' = "idle"
  /\ UNCHANGED <<data, wpos, newData, wleft, written>>
  /\ UNCHANGED readerVars

Writer == Add \/ Wrap \/ SetFlag \/ Give

-----------------------------------------------------------------------------
(***************************************************************************)
(* The reader: TakeBinarySemaphore(), then read(buf, Readlen).             *)
(***************************************************************************)

ToEnd == Size - rpos                                     \* distanceRE_
Wrapped(p) == IF p = Size THEN 0 ELSE p

\* std::copy(begin + from, begin + from + n, buffer + at), into b
Copied(b, from, n, at) ==
  [k \in Slot |-> IF k \in at .. at + n - 1 THEN data[from + k - at] ELSE b[k]]

\* The read is going to return n elements, b, and leaves read_pos at p.
Deliver(n, b, p) ==
  /\ got' = n
  /\ buf' = b
  /\ rpos' = p
  /\ consumed' = consumed + n
  /\ UNCHANGED <<dist, front, newData, sem>>
  /\ UNCHANGED writerVars

Goto(label) ==
  /\ rpc' = label
  /\ UNCHANGED <<rpos, buf, got, consumed, newData, sem>>
  /\ UNCHANGED writerVars

Take ==
  /\ rpc = "wait" /\ sem = 1
  /\ sem' = 0
  /\ rpc' = "flag"
  /\ UNCHANGED <<rpos, dist, front, buf, got, consumed, newData>>
  /\ UNCHANGED writerVars

TestFlag ==
  /\ rpc = "flag"
  /\ Goto(IF newData THEN "measure" ELSE "process")
  /\ UNCHANGED <<dist, front>>

Measure ==
  /\ rpc = "measure"
  /\ dist' = wpos - rpos
  /\ Goto(IF dist' > 0 THEN "ahead" ELSE IF dist' < 0 THEN "behind" ELSE "full")
  /\ UNCHANGED front

\* write_pos was ahead of read_pos.
ReadAhead ==
  /\ rpc = "ahead"
  /\ IF Readlen <= dist
     THEN Deliver(Readlen, Copied(buf, rpos, Readlen, 0), rpos + Readlen)
          /\ rpc' = "compare"
     ELSE Deliver(dist, Copied(buf, rpos, dist, 0), rpos + dist)
          /\ rpc' = "clear"

\* The second look at write_pos, after the copy.
Compare ==
  /\ rpc = "compare"
  /\ Goto(IF rpos = wpos THEN "clear" ELSE "process")
  /\ UNCHANGED <<dist, front>>

ClearFlag ==
  /\ rpc = "clear"
  /\ newData' = FALSE
  /\ rpc' = "process"
  /\ UNCHANGED <<rpos, dist, front, buf, got, consumed, sem>>
  /\ UNCHANGED writerVars

\* write_pos was behind read_pos and the request ends before data_.end().
ReadBehind ==
  /\ rpc = "behind" /\ Readlen <= ToEnd
  /\ Deliver(Readlen, Copied(buf, rpos, Readlen, 0), Wrapped(rpos + Readlen))
  /\ rpc' = "compare"

\* It does not: copy up to data_.end() first, then look at write_pos again.
ReadToEnd ==
  /\ rpc = "behind" /\ Readlen > ToEnd
  /\ buf' = Copied(buf, rpos, ToEnd, 0)
  /\ rpc' = "front"
  /\ UNCHANGED <<rpos, dist, front, got, consumed, newData, sem>>
  /\ UNCHANGED writerVars

\* Mutant: what was copied up to data_.end() is not taken off the request.
MeasureFrontTooFar ==
  /\ rpc = "front"
  /\ front' = wpos
  /\ Goto(IF front' <= Readlen THEN "frontAll" ELSE "frontPart")
  /\ UNCHANGED dist

MeasureFront ==
  /\ rpc = "front"
  /\ front' = wpos
  /\ Goto(IF front' <= Readlen - ToEnd THEN "frontAll" ELSE "frontPart")
  /\ UNCHANGED dist

ReadFrontPart ==
  /\ rpc = "frontPart"
  /\ Deliver(Readlen, Copied(buf, 0, Readlen - ToEnd, ToEnd), Readlen - ToEnd)
  /\ rpc' = "process"

\* Mutant: the second piece goes over the first.
ReadFrontAllOver ==
  /\ rpc = "frontAll"
  /\ buf' = Copied(buf, 0, front, 0)
  /\ rpc' = "catchup"
  /\ UNCHANGED <<rpos, dist, front, got, consumed, newData, sem>>
  /\ UNCHANGED writerVars

ReadFrontAll ==
  /\ rpc = "frontAll"
  /\ buf' = Copied(buf, 0, front, ToEnd)
  /\ rpc' = "catchup"
  /\ UNCHANGED <<rpos, dist, front, got, consumed, newData, sem>>
  /\ UNCHANGED writerVars

\* Mutant: the flag is not cleared when the read empties the buffer.
CatchUpForgets ==
  /\ rpc = "catchup"
  /\ Deliver(ToEnd + front, buf, wpos)
  /\ rpc' = "process"

\* read_pos = write_pos: the third look at write_pos.
CatchUp ==
  /\ rpc = "catchup"
  /\ Deliver(ToEnd + front, buf, wpos)
  /\ rpc' = "clear"

\* read_pos = write_pos and the flag is set: the buffer is taken to be full.
ReadFull ==
  /\ rpc = "full" /\ Readlen >= Size
  /\ Deliver(Size, Copied(Copied(buf, rpos, ToEnd, 0), 0, rpos, ToEnd), rpos)
  /\ rpc' = "clear"

\* The second piece goes to buffer + rest, not behind the first piece: with
\* fewer than half a request's cells left up to data_.end(), past the end of
\* the caller's buffer.
ReadFullWrapped ==
  /\ rpc = "full" /\ Readlen < Size /\ Readlen > ToEnd
  /\ LET rest == Readlen - ToEnd
     IN Deliver(Readlen,
                Copied(Copied(buf, rpos, ToEnd, 0), 0, rest, rest), rest)
  /\ rpc' = "process"

ReadFullPart ==
  /\ rpc = "full" /\ Readlen < Size /\ Readlen <= ToEnd
  /\ Deliver(Readlen, Copied(buf, rpos, Readlen, 0), Wrapped(rpos + Readlen))
  /\ rpc' = "process"

\* The task works on what it got and comes back to wait for the semaphore.
Process ==
  /\ rpc = "process"
  /\ buf' = EmptyBuf /\ got' = 0
  /\ rpc' = "wait"
  /\ UNCHANGED <<rpos, dist, front, consumed, newData, sem>>
  /\ UNCHANGED writerVars

Reader ==
  \/ Take \/ TestFlag \/ Measure
  \/ ReadAhead \/ Compare \/ ClearFlag
  \/ ReadBehind \/ ReadToEnd \/ MeasureFront
  \/ ReadFrontPart \/ ReadFrontAll \/ CatchUp
  \/ ReadFull \/ ReadFullWrapped \/ ReadFullPart
  \/ Process

Next == (\E n \in 0 .. MaxPacket : BeginWrite(n)) \/ Writer \/ Reader

Spec == Init /\ [][Next]_vars

\* Both are FreeRTOS tasks of one priority, time-sliced or on two cores: a
\* task that can run does. Nothing makes the source send a packet.
FairSpec == Spec /\ WF_vars(Writer) /\ WF_vars(Reader)

-----------------------------------------------------------------------------
WriterLabels == {"idle", "add", "wrap", "flag", "give"}
ReaderLabels == {"wait", "flag", "measure", "ahead", "behind", "full",
                 "compare", "clear", "front", "frontPart", "frontAll",
                 "catchup", "process"}

\* Type invariant. Both positions may rest on data_.end(), which add() lets
\* the reader see for a moment. (buf is more than the caller's buffer: what
\* a read may do behind it is said by AccessesInBounds.)
TypeOK ==
  /\ data \in [Cell -> 0 .. MaxWritten]
  /\ wpos \in 0 .. Size /\ rpos \in 0 .. Size
  /\ newData \in BOOLEAN
  /\ sem \in {0, 1}
  /\ wpc \in WriterLabels
  /\ wleft \in 0 .. MaxPacket
  /\ rpc \in ReaderLabels
  /\ dist \in - Size .. Size
  /\ front \in 0 .. Size
  /\ buf \in [Slot -> -1 .. MaxWritten]
  /\ got \in 0 .. Readlen
  /\ written \in 0 .. MaxWritten
  /\ consumed \in Nat

\* Has this read written behind the caller's buffer?
Spilled == \E k \in Slot : k >= Readlen /\ buf[k] # -1

\* However the two cores interleave, no access leaves the vector: each range
\* read() is about to copy ends at or before data_.end(), and add() never
\* stores through data_.end(). The hazard is that the bounds were computed
\* from positions that have moved since. Nor does any copy leave the caller's
\* buffer but one: the second of a read that takes the vector for full, when
\* it moves read_pos past the middle of a request.
AccessesInBounds ==
  /\ wpc = "add" => wpos < Size
  /\ rpc = "ahead" => dist > 0 /\ rpos + dist <= Size
  /\ rpc = "frontPart" => Readlen - ToEnd < Size
  /\ rpc \in {"frontAll", "catchup"} => ToEnd + front <= Readlen
  /\ Spilled => rpc = "process" /\ got = Readlen /\ got < Size /\ got < 2 * rpos

\* What the caller may expect of the second copy too: read(buffer, n) writes
\* n elements at most, and leaves the memory behind them alone.
StaysInBuffer == ~ Spilled

\* What the two program counters say about the positions. Together with
\* TypeOK it is inductive, whatever the discipline: write_pos is on
\* data_.end() only inside add(), and each distance the reader works with
\* was checked against the other one when it was taken.
PositionInv ==
  /\ wpos = Size => wpc = "wrap"
  /\ wpc = "add" => wleft > 0
  /\ written + wleft <= MaxWritten
  /\ rpc = "ahead" => dist > 0 /\ rpos + dist <= Size
  /\ rpc \in {"front", "frontPart", "frontAll", "catchup"} => Readlen > ToEnd
  /\ rpc = "frontPart" => Readlen - ToEnd < front
  /\ rpc \in {"frontAll", "catchup"} => front <= Readlen - ToEnd

\* The elements a read hands to its task are the oldest unread ones, each
\* once and in the order they were written.
FifoOrder ==
  rpc = "process" => \A k \in 0 .. got - 1 : buf[k] = consumed - got + k + 1

\* "Else there must be size() bytes available": when read() finds the flag
\* set and the positions equal, the buffer is full of unread elements.
FullMeansSize == rpc = "full" => Unread = Size

\* While neither side is inside a call, the flag says whether the buffer
\* holds unread elements, and there are never more than it can hold.
FlagMeansUnread ==
  (wpc = "idle" /\ rpc \in {"wait", "flag"}) =>
     (newData <=> Unread > 0) /\ Unread <= Size

-----------------------------------------------------------------------------
(***************************************************************************)
(* Why reads keep the order under "slack" and "drained". Added to TypeOK   *)
(* and PositionInv these make FifoOrder inductive.                         *)
(***************************************************************************)
Index(p) == IF p >= Size THEN p - Size ELSE p
Writing == wpc \in {"add", "wrap", "flag"}
Reading == rpc \in {"measure", "ahead", "behind", "full", "compare", "clear",
                    "front", "frontPart", "frontAll", "catchup"}
Measured == rpc \in {"ahead", "behind", "full", "front", "frontPart",
                     "frontAll", "catchup"}

\* The discipline keeps the two sides apart.
TakesTurns ==
  /\ Reading => ~Writing
  /\ Writing /\ Discipline = "slack" => rpc \in {"wait", "process"} /\ sem = 0
  /\ Writing /\ Discipline = "drained" => ~newData

\* It also bounds what the buffer holds.
RoomLeft ==
  /\ Unread >= 0
  /\ Discipline = "slack" => Unread + wleft < Size
  /\ Discipline = "drained" => Unread + wleft <= Size /\ Unread + wleft <= Readlen
  /\ wpc \in {"idle", "flag", "give"} => wleft = 0

\* The unread elements lie from read_pos to write_pos, oldest first.
UnreadInPlace ==
  /\ rpos < Size
  /\ Wrapped(wpos) = Index(rpos + Unread)
  /\ \A k \in 0 .. Unread - 1 : data[Index(rpos + k)] = consumed + k + 1

\* Where the flag can be relied on, and what for.
FlagAgrees ==
  /\ newData /\ rpc # "clear" /\ rpc # "compare" => Unread > 0
  /\ ~newData /\ ~Writing => Unread = 0
  /\ wpc \in {"wrap", "flag"} => Unread > 0
  /\ Reading => newData
  /\ rpc = "compare" => Unread < Size
  /\ rpc = "clear" => Unread = 0

\* The distances the reader works with are still the true ones.
MeasuresCurrent ==
  /\ Measured => dist = wpos - rpos
  /\ rpc \in {"behind", "front", "frontPart", "frontAll", "catchup"} => dist < 0
  /\ rpc = "full" => dist = 0
  /\ rpc \in {"frontPart", "frontAll", "catchup"} => front = wpos

\* What is already in the caller's buffer is in order.
CopiedInOrder ==
  /\ rpc \in {"front", "frontPart", "frontAll", "catchup"} =>
       \A k \in 0 .. ToEnd - 1 : buf[k] = consumed + k + 1
  /\ rpc = "catchup" =>
       \A k \in 0 .. ToEnd + front - 1 : buf[k] = consumed + k + 1
  /\ rpc \in {"compare", "clear", "process"} =>
       \A k \in 0 .. got - 1 : buf[k] = consumed - got + k + 1
  /\ rpc \in {"wait", "flag"} => got = 0

OrderInv ==
  /\ TakesTurns
  /\ RoomLeft
  /\ UnreadInPlace
  /\ FlagAgrees
  /\ MeasuresCurrent
  /\ CopiedInOrder

\* Every element written is eventually handed to the reader.
EveryElementRead ==
  \A e \in 1 .. MaxWritten : (written >= e) ~> (consumed >= e)
=============================================================================
