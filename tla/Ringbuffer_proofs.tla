------------------------- MODULE Ringbuffer_proofs --------------------------
(***************************************************************************)
(* Theorems about the ring buffer, for every size, request and packet      *)
(* size: the first ones for every discipline, and the second part about    *)
(* order, for "slack" and "drained".                                       *)
(***************************************************************************)
EXTENDS MCRingbuffer, TLAPS

Inv == TypeOK /\ PositionInv

USE RingAssumption DEF RingAssumption

\* std::copy from cells of the vector into the caller's buffer gives a
\* buffer of the same type.
LEMMA CopiedType ==
  ASSUME data \in [Cell -> 0 .. MaxWritten],
         NEW b \in [Slot -> -1 .. MaxWritten],
         NEW from \in Int, NEW n \in Int, NEW at \in Int,
         \A j \in 0 .. n - 1 : from + j \in Cell
  PROVE  Copied(b, from, n, at) \in [Slot -> -1 .. MaxWritten]
<1> SUFFICES ASSUME NEW k \in Slot
             PROVE  (IF k \in at .. at + n - 1 THEN data[from + k - at] ELSE b[k])
                      \in -1 .. MaxWritten
    BY DEF Copied
<1>1. CASE k \in at .. at + n - 1
    <2>1. k - at \in 0 .. n - 1
        BY <1>1 DEF Slot
    <2>2. from + (k - at) \in Cell
        BY <2>1
    <2>3. from + (k - at) = from + k - at
        BY DEF Slot
    <2> QED BY <1>1, <2>2, <2>3
<1>2. CASE k \notin at .. at + n - 1
    BY <1>2
<1> QED BY <1>1, <1>2

\* What lies from read_pos on, up to data_.end(), copied to the caller.
LEMMA StraightType ==
  ASSUME Inv, NEW n \in Nat, n <= ToEnd
  PROVE  Copied(buf, rpos, n, 0) \in [Slot -> -1 .. MaxWritten]
<1>1. \A j \in 0 .. n - 1 : rpos + j \in Cell
    BY DEF Inv, TypeOK, Cell, ToEnd
<1>2. /\ rpos \in Int /\ n \in Int /\ 0 \in Int
      /\ data \in [Cell -> 0 .. MaxWritten] /\ buf \in [Slot -> -1 .. MaxWritten]
    BY DEF Inv, TypeOK
<1> QED BY <1>1, <1>2, CopiedType

\* What lies at data_.begin(), copied behind it.
LEMMA FrontType ==
  ASSUME Inv, NEW b \in [Slot -> -1 .. MaxWritten],
         NEW n \in 0 .. Size, NEW at \in Int
  PROVE  Copied(b, 0, n, at) \in [Slot -> -1 .. MaxWritten]
<1>1. \A j \in 0 .. n - 1 : 0 + j \in Cell
    BY DEF Cell
<1>2. n \in Int /\ 0 \in Int /\ data \in [Cell -> 0 .. MaxWritten]
    BY DEF Inv, TypeOK
<1> QED BY <1>1, <1>2, CopiedType

\* The initial state satisfies the invariant.
THEOREM InitInv == Init => Inv
<1> SUFFICES ASSUME Init PROVE Inv
    OBVIOUS
<1>1. TypeOK
    <2>1. data \in [Cell -> 0 .. MaxWritten] /\ buf \in [Slot -> -1 .. MaxWritten]
        BY DEF Init, EmptyBuf
    <2>2. wpc \in WriterLabels /\ rpc \in ReaderLabels
        BY DEF Init, WriterLabels, ReaderLabels
    <2>3. /\ wpos \in 0 .. Size /\ rpos \in 0 .. Size
          /\ dist \in - Size .. Size /\ front \in 0 .. Size
          /\ got \in 0 .. Readlen /\ wleft \in 0 .. MaxPacket
          /\ written \in 0 .. MaxWritten /\ consumed \in Nat
        BY DEF Init
    <2>4. newData \in BOOLEAN /\ sem \in {0, 1}
        BY DEF Init
    <2> QED BY <2>1, <2>2, <2>3, <2>4 DEF TypeOK
<1>2. PositionInv
    BY DEF Init, PositionInv, ToEnd
<1> QED BY <1>1, <1>2 DEF Inv

\* The writer's steps leave the reader's half of Inv alone.
LEMMA WriterStep ==
  ASSUME Inv, (\E n \in 0 .. MaxPacket : BeginWrite(n)) \/ Writer
  PROVE  Inv'
<1> USE DEF Inv
<1>1. ASSUME NEW n \in 0 .. MaxPacket, BeginWrite(n) PROVE Inv'
    <2>1. TypeOK'
        BY <1>1 DEF TypeOK, BeginWrite, readerVars, WriterLabels
    <2>2. PositionInv'
        BY <1>1 DEF TypeOK, PositionInv, BeginWrite, readerVars, ToEnd
    <2> QED BY <2>1, <2>2
<1>2. CASE Add
    <2>1. TypeOK'
        BY <1>2 DEF TypeOK, PositionInv, Add, readerVars, WriterLabels, Cell
    <2>2. PositionInv'
        BY <1>2 DEF TypeOK, PositionInv, Add, readerVars, ToEnd
    <2> QED BY <2>1, <2>2
<1>3. CASE Wrap
    <2>1. TypeOK'
        BY <1>3 DEF TypeOK, Wrap, readerVars, WriterLabels
    <2>2. PositionInv'
        BY <1>3 DEF TypeOK, PositionInv, Wrap, readerVars, ToEnd
    <2> QED BY <2>1, <2>2
<1>4. CASE SetFlag
    BY <1>4 DEF TypeOK, PositionInv, SetFlag, readerVars, WriterLabels, ToEnd
<1>5. CASE Give
    BY <1>5 DEF TypeOK, PositionInv, Give, readerVars, WriterLabels, ToEnd
<1> QED BY <1>1, <1>2, <1>3, <1>4, <1>5 DEF Writer

\* A read that only moves its program counter.
LEMMA GotoStep ==
  ASSUME Inv, TestFlag \/ Measure \/ Compare \/ MeasureFront
  PROVE  Inv'
<1> USE DEF Inv, TypeOK, PositionInv, Goto, writerVars, ReaderLabels, ToEnd
<1>1. CASE TestFlag
    BY <1>1 DEF TestFlag
<1>2. CASE Measure
    BY <1>2 DEF Measure
<1>3. CASE Compare
    BY <1>3 DEF Compare
<1>4. CASE MeasureFront
    BY <1>4 DEF MeasureFront
<1> QED BY <1>1, <1>2, <1>3, <1>4

\* What a delivery must satisfy to keep Inv; the copies are shown to satisfy
\* it below, branch by branch.
LEMMA DeliverStep ==
  ASSUME Inv,
         NEW n \in 0 .. Readlen, NEW b \in [Slot -> -1 .. MaxWritten],
         NEW p \in 0 .. Size,
         Deliver(n, b, p),
         rpc' \in {"compare", "clear", "process"}
  PROVE  Inv'
<1>1. TypeOK'
    BY DEF Inv, TypeOK, Deliver, writerVars, ReaderLabels
<1>2. PositionInv'
    BY DEF Inv, TypeOK, PositionInv, Deliver, writerVars, ToEnd
<1> QED BY <1>1, <1>2 DEF Inv

\* The reader's steps keep Inv, branch by branch of read().
LEMMA ReaderStep == ASSUME Inv, Reader PROVE Inv'
<1>1. CASE Take
    BY <1>1 DEF Inv, TypeOK, PositionInv, Take, writerVars, ReaderLabels, ToEnd
<1>2. CASE TestFlag \/ Measure \/ Compare \/ MeasureFront
    BY <1>2, GotoStep
<1>3. CASE ReadAhead
    <2>1. CASE Readlen <= dist
        <3>1. Copied(buf, rpos, Readlen, 0) \in [Slot -> -1 .. MaxWritten]
            BY <1>3, <2>1, StraightType DEF ReadAhead, Inv, TypeOK, PositionInv, ToEnd
        <3> QED BY <1>3, <2>1, <3>1, DeliverStep
                DEF ReadAhead, Inv, TypeOK, PositionInv
    <2>2. CASE ~(Readlen <= dist)
        <3>1. Copied(buf, rpos, dist, 0) \in [Slot -> -1 .. MaxWritten]
            BY <1>3, <2>2, StraightType DEF ReadAhead, Inv, TypeOK, PositionInv, ToEnd
        <3> QED BY <1>3, <2>2, <3>1, DeliverStep
                DEF ReadAhead, Inv, TypeOK, PositionInv
    <2> QED BY <2>1, <2>2
<1>4. CASE ClearFlag
    BY <1>4 DEF Inv, TypeOK, PositionInv, ClearFlag, writerVars, ReaderLabels, ToEnd
<1>5. CASE ReadBehind
    <2>1. Copied(buf, rpos, Readlen, 0) \in [Slot -> -1 .. MaxWritten]
        BY <1>5, StraightType DEF ReadBehind, Inv, TypeOK, ToEnd
    <2>2. Wrapped(rpos + Readlen) \in 0 .. Size
        BY <1>5 DEF ReadBehind, Inv, TypeOK, Wrapped, ToEnd
    <2> QED BY <1>5, <2>1, <2>2, DeliverStep DEF ReadBehind, Inv, TypeOK
<1>6. CASE ReadToEnd
    BY <1>6, StraightType
       DEF ReadToEnd, Inv, TypeOK, PositionInv, writerVars, ReaderLabels, ToEnd
<1>7. CASE ReadFrontPart
    <2>1. Readlen - ToEnd \in 0 .. Size /\ ToEnd \in Int
        BY <1>7 DEF ReadFrontPart, Inv, TypeOK, PositionInv, ToEnd
    <2>2. Copied(buf, 0, Readlen - ToEnd, ToEnd) \in [Slot -> -1 .. MaxWritten]
        BY <2>1, FrontType DEF Inv, TypeOK
    <2> QED BY <1>7, <2>1, <2>2, DeliverStep DEF ReadFrontPart, Inv, TypeOK
<1>8. CASE ReadFrontAll
    <2>1. Copied(buf, 0, front, ToEnd) \in [Slot -> -1 .. MaxWritten]
        BY FrontType DEF Inv, TypeOK, ToEnd
    <2>2. TypeOK'
        BY <1>8, <2>1 DEF ReadFrontAll, Inv, TypeOK, writerVars, ReaderLabels
    <2>3. PositionInv'
        BY <1>8 DEF ReadFrontAll, Inv, TypeOK, PositionInv, writerVars, ToEnd
    <2> QED BY <2>2, <2>3 DEF Inv
<1>9. CASE CatchUp
    <2>1. ToEnd + front \in 0 .. Readlen
        BY <1>9 DEF CatchUp, Inv, TypeOK, PositionInv, ToEnd
    <2> QED BY <1>9, <2>1, DeliverStep DEF CatchUp, Inv, TypeOK
<1>10. CASE ReadFull
    <2> DEFINE b == Copied(Copied(buf, rpos, ToEnd, 0), 0, rpos, ToEnd)
    <2>1. b \in [Slot -> -1 .. MaxWritten]
      <3>1. ToEnd \in Nat /\ ToEnd <= ToEnd /\ rpos \in 0 .. Size
          BY DEF Inv, TypeOK, ToEnd
      <3>2. Copied(buf, rpos, ToEnd, 0) \in [Slot -> -1 .. MaxWritten]
          BY <3>1, StraightType
      <3> QED BY <3>1, <3>2, FrontType
    <2>2. /\ Deliver(Size, b, rpos) /\ rpc' = "clear"
          /\ Size \in 0 .. Readlen /\ rpos \in 0 .. Size
        BY <1>10 DEF ReadFull, Inv, TypeOK
    <2> HIDE DEF b
    <2> QED BY <2>1, <2>2, DeliverStep
<1>11. CASE ReadFullWrapped
    <2> DEFINE rest == Readlen - ToEnd
               b == Copied(Copied(buf, rpos, ToEnd, 0), 0, rest, rest)
    <2>1. rest \in 0 .. Size
        BY <1>11 DEF ReadFullWrapped, Inv, TypeOK, ToEnd
    <2>2. b \in [Slot -> -1 .. MaxWritten]
      <3>1. ToEnd \in Nat /\ ToEnd <= ToEnd /\ rest \in Int
          BY <2>1 DEF Inv, TypeOK, ToEnd
      <3>2. Copied(buf, rpos, ToEnd, 0) \in [Slot -> -1 .. MaxWritten]
          BY <3>1, StraightType
      <3> HIDE DEF rest
      <3> QED BY <2>1, <3>1, <3>2, FrontType
    <2>3. Deliver(Readlen, b, rest) /\ rpc' = "process" /\ Readlen \in 0 .. Readlen
        BY <1>11 DEF ReadFullWrapped
    <2> HIDE DEF b, rest
    <2> QED BY <2>1, <2>2, <2>3, DeliverStep
<1>12. CASE ReadFullPart
    <2>1. Copied(buf, rpos, Readlen, 0) \in [Slot -> -1 .. MaxWritten]
        BY <1>12, StraightType DEF ReadFullPart, Inv, TypeOK, ToEnd
    <2>2. Wrapped(rpos + Readlen) \in 0 .. Size
        BY <1>12 DEF ReadFullPart, Inv, TypeOK, Wrapped, ToEnd
    <2> QED BY <1>12, <2>1, <2>2, DeliverStep DEF ReadFullPart, Inv, TypeOK
<1>13. CASE Process
    BY <1>13 DEF Inv, TypeOK, PositionInv, Process, writerVars, ReaderLabels,
                 EmptyBuf, ToEnd
<1> QED BY <1>1, <1>2, <1>3, <1>4, <1>5, <1>6, <1>7, <1>8, <1>9, <1>10, <1>11,
           <1>12, <1>13 DEF Reader

\* Every step of either side keeps Inv.
THEOREM StepInv == Inv /\ [Next]_vars => Inv'
<1> SUFFICES ASSUME Inv, [Next]_vars PROVE Inv'
    OBVIOUS
<1>1. CASE (\E n \in 0 .. MaxPacket : BeginWrite(n)) \/ Writer
    BY <1>1, WriterStep
<1>2. CASE Reader
    BY <1>2, ReaderStep
<1>3. CASE UNCHANGED vars
    BY <1>3 DEF Inv, TypeOK, PositionInv, vars, ToEnd
<1> QED BY <1>1, <1>2, <1>3 DEF Next

\* The variables keep their types: for every size, request, packet length
\* and discipline, and any interleaving of writer and reader, the positions
\* stay within the vector and a read returns at most what it was asked for.
THEOREM TypeCorrect == Spec => []TypeOK
<1>1. Init => Inv
    BY InitInv
<1>2. Inv /\ [Next]_vars => Inv'
    BY StepInv
<1>3. Inv => TypeOK
    BY DEF Inv
<1> QED BY <1>1, <1>2, <1>3, PTL DEF Spec

\* The relation between the program counters and the positions.
THEOREM PositionsAgree == Spec => []PositionInv
<1>1. Init => Inv
    BY InitInv
<1>2. Inv /\ [Next]_vars => Inv'
    BY StepInv
<1>3. Inv => PositionInv
    BY DEF Inv
<1> QED BY <1>1, <1>2, <1>3, PTL DEF Spec

-----------------------------------------------------------------------------
(***************************************************************************)
(* The caller's buffer. Every copy ends within the request but the second  *)
(* one of ReadFullWrapped.                                                 *)
(***************************************************************************)

\* b has nothing behind the request.
Untouched(b) == \A k \in Slot : k >= Readlen => b[k] = -1

SpillInv ==
  ~ Untouched(buf) => rpc = "process" /\ got = Readlen /\ got < Size /\ got < 2 * rpos

\* A copy that ends within the request leaves the memory behind it alone.
LEMMA CopiedWithin ==
  ASSUME NEW b, Untouched(b), NEW from, NEW n \in Int, NEW at \in Int, at + n <= Readlen
  PROVE  Untouched(Copied(b, from, n, at))
<1> SUFFICES ASSUME NEW k \in Slot, k >= Readlen
             PROVE  (IF k \in at .. at + n - 1 THEN data[from + k - at] ELSE b[k]) = -1
    BY DEF Untouched, Copied
<1>1. k \notin at .. at + n - 1
    BY DEF Slot
<1> QED BY <1>1 DEF Untouched

\* The steps of read(), copy by copy.
LEMMA SpillReader == ASSUME Inv, SpillInv, Reader PROVE SpillInv'
<1>0. /\ rpos \in 0 .. Size /\ dist \in - Size .. Size /\ front \in 0 .. Size
      /\ got \in 0 .. Readlen /\ ToEnd \in 0 .. Size /\ ToEnd = Size - rpos
    BY DEF Inv, TypeOK, ToEnd
<1>1. rpc # "process" => Untouched(buf)
    BY DEF SpillInv
<1>2. ASSUME Untouched(buf') PROVE SpillInv'
    BY <1>2 DEF SpillInv, Untouched
<1>3. CASE Take \/ TestFlag \/ Measure \/ Compare \/ ClearFlag \/ MeasureFront \/ CatchUp
  <2>1. buf' = buf /\ rpc # "process"
      BY <1>3 DEF Take, TestFlag, Measure, Compare, ClearFlag, MeasureFront, CatchUp,
                  Deliver, Goto
  <2> QED BY <1>1, <1>2, <2>1
<1>4. CASE ReadAhead
  <2>1. Untouched(buf) /\ dist > 0
      BY <1>1, <1>4 DEF ReadAhead, Inv, PositionInv
  <2>2. \/ buf' = Copied(buf, rpos, Readlen, 0)
        \/ dist <= Readlen /\ buf' = Copied(buf, rpos, dist, 0)
      BY <1>0, <1>4 DEF ReadAhead, Deliver
  <2> QED BY <1>0, <1>2, <2>1, <2>2, CopiedWithin
<1>5. CASE ReadBehind \/ ReadFullPart
  <2>1. Untouched(buf) /\ buf' = Copied(buf, rpos, Readlen, 0)
      BY <1>1, <1>5 DEF ReadBehind, ReadFullPart, Deliver
  <2> QED BY <1>2, <2>1, CopiedWithin
<1>6. CASE ReadToEnd
  <2>1. Untouched(buf) /\ buf' = Copied(buf, rpos, ToEnd, 0) /\ ToEnd <= Readlen
      BY <1>0, <1>1, <1>6 DEF ReadToEnd
  <2> QED BY <1>0, <1>2, <2>1, CopiedWithin
<1>7. CASE ReadFrontPart
  <2>1. /\ Untouched(buf) /\ Readlen - ToEnd \in Int
        /\ buf' = Copied(buf, 0, Readlen - ToEnd, ToEnd)
      BY <1>0, <1>1, <1>7 DEF ReadFrontPart, Deliver
  <2>2. ToEnd + (Readlen - ToEnd) <= Readlen
      BY <1>0
  <2> QED BY <1>0, <1>2, <2>1, <2>2, CopiedWithin
<1>8. CASE ReadFrontAll
  <2>1. /\ Untouched(buf) /\ ToEnd + front <= Readlen
        /\ buf' = Copied(buf, 0, front, ToEnd)
      BY <1>0, <1>1, <1>8 DEF ReadFrontAll, Inv, PositionInv
  <2> QED BY <1>0, <1>2, <2>1, CopiedWithin
<1>9. CASE ReadFull
  <2>1. /\ Untouched(buf) /\ Size <= Readlen
        /\ buf' = Copied(Copied(buf, rpos, ToEnd, 0), 0, rpos, ToEnd)
      BY <1>1, <1>9 DEF ReadFull, Deliver
  <2>2. Untouched(Copied(buf, rpos, ToEnd, 0))
      BY <1>0, <2>1, CopiedWithin
  <2>3. ToEnd + rpos <= Readlen
      BY <1>0, <2>1
  <2>4. Untouched(Copied(Copied(buf, rpos, ToEnd, 0), 0, rpos, ToEnd))
      BY <1>0, <2>2, <2>3, CopiedWithin
  <2> QED BY <1>2, <2>1, <2>4
<1>10. CASE ReadFullWrapped
  <2> DEFINE rest == Readlen - ToEnd
  <2>1. /\ Untouched(buf) /\ Readlen < Size /\ ToEnd < Readlen
        /\ buf' = Copied(Copied(buf, rpos, ToEnd, 0), 0, rest, rest)
        /\ rpos' = rest /\ got' = Readlen /\ rpc' = "process"
      BY <1>0, <1>1, <1>10 DEF ReadFullWrapped, Deliver
  <2>2. Untouched(Copied(buf, rpos, ToEnd, 0)) /\ rest \in Int
      BY <1>0, <2>1, CopiedWithin
  <2>3. CASE rest + rest <= Readlen
    <3>1. Untouched(Copied(Copied(buf, rpos, ToEnd, 0), 0, rest, rest))
        BY <2>2, <2>3, CopiedWithin
    <3> QED BY <1>2, <2>1, <3>1
  <2>4. CASE ~ (rest + rest <= Readlen)
    <3>1. got' < Size /\ got' < 2 * rpos'
        BY <2>1, <2>2, <2>4
    <3> QED BY <2>1, <3>1 DEF SpillInv
  <2> QED BY <2>3, <2>4
<1>11. CASE Process
  <2>1. Untouched(buf')
      BY <1>11 DEF Process, EmptyBuf, Untouched
  <2> QED BY <1>2, <2>1
<1> QED BY <1>3, <1>4, <1>5, <1>6, <1>7, <1>8, <1>9, <1>10, <1>11 DEF Reader

LEMMA SpillStep == Inv /\ SpillInv /\ [Next]_vars => SpillInv'
<1> SUFFICES ASSUME Inv, SpillInv, [Next]_vars PROVE SpillInv'
    OBVIOUS
<1>1. CASE (\E n \in 0 .. MaxPacket : BeginWrite(n)) \/ Writer \/ UNCHANGED vars
  <2>1. UNCHANGED <<buf, rpc, got, rpos>>
      BY <1>1 DEF BeginWrite, Writer, Add, Wrap, SetFlag, Give, readerVars, vars
  <2> QED BY <2>1 DEF SpillInv, Untouched
<1> QED BY <1>1, SpillReader DEF Next

\* Neither side takes a lock and the writer may run at any moment, and yet no
\* copy of read() and no add() touches memory outside the vector. The memory
\* behind the caller's buffer is written to in one case only: by a read of a
\* vector taken for full, longer than the request, which moves read_pos past
\* the middle of the request (buffer + rest in Ringbuffer.h:129).
THEOREM InBounds == Spec => []AccessesInBounds
<1>1. Init => Inv /\ SpillInv
    BY InitInv DEF Init, SpillInv, Untouched, EmptyBuf
<1>2. Inv /\ SpillInv /\ [Next]_vars => Inv' /\ SpillInv'
    BY StepInv, SpillStep
<1>3. Inv /\ SpillInv => AccessesInBounds
    BY DEF Inv, TypeOK, PositionInv, SpillInv, Untouched, Spilled, AccessesInBounds, ToEnd
<1> QED BY <1>1, <1>2, <1>3, PTL DEF Spec

-----------------------------------------------------------------------------
(***************************************************************************)
(* Under the disciplines "slack" and "drained" reads keep the order of the *)
(* writes. The argument: the discipline keeps the writer out of the buffer *)
(* while the reader is measuring and copying (TakesTurns), so what the     *)
(* reader measured stays true (MeasuresCurrent), and what lies from        *)
(* read_pos to write_pos is what is unread, in order (UnreadInPlace). From *)
(* that follows that the buffer implements the FIFO queue.                 *)
(***************************************************************************)

Disciplined == Discipline \in {"slack", "drained"}

\* The empty buffer satisfies the invariant about places and order.
LEMMA InitOrder == Init => OrderInv
<1> SUFFICES ASSUME Init PROVE OrderInv
    OBVIOUS
<1>1. TakesTurns /\ FlagAgrees /\ MeasuresCurrent /\ CopiedInOrder
    BY DEF Init, TakesTurns, FlagAgrees, MeasuresCurrent, CopiedInOrder,
           Reading, Writing, Measured, Unread
<1>2. RoomLeft
    BY DEF Init, RoomLeft, Unread
<1>3. UnreadInPlace
    BY DEF Init, UnreadInPlace, Unread, Index, Wrapped
<1> QED BY <1>1, <1>2, <1>3 DEF OrderInv

\* The steps of write() keep it: an element goes behind the last unread one,
\* into a cell that holds none.
LEMMA WriterOrder ==
  ASSUME Disciplined, Inv, OrderInv,
         (\E n \in 0 .. MaxPacket : BeginWrite(n)) \/ Writer
  PROVE  OrderInv'
<1> USE DEF Inv, TypeOK, PositionInv, OrderInv, Disciplined
<1>1. ASSUME NEW n \in 0 .. MaxPacket, BeginWrite(n) PROVE OrderInv'
    <2>a. n > 0 /\ Discipline = "slack" =>
            rpc \in {"wait", "process"} /\ sem = 0 /\ Unread + n < Size
        BY <1>1 DEF BeginWrite, MayWrite
    <2>b. n > 0 /\ Discipline = "drained" =>
            rpc \in {"wait", "process"} /\ Unread = 0 /\ n <= Size /\ n <= Readlen
        BY <1>1 DEF BeginWrite, MayWrite
    <2>1. TakesTurns'
        BY <1>1, <2>a, <2>b
           DEF BeginWrite, TakesTurns, FlagAgrees, Reading, Writing, readerVars
    <2>2. RoomLeft'
        BY <1>1, <2>a, <2>b DEF BeginWrite, RoomLeft, Unread, readerVars
    <2>3. UnreadInPlace'
        BY <1>1 DEF BeginWrite, UnreadInPlace, RoomLeft, Unread, Wrapped, Index, readerVars
    <2>4. FlagAgrees'
        BY <1>1 DEF BeginWrite, FlagAgrees, TakesTurns, RoomLeft, Unread, Reading, Writing, readerVars
    <2>5. MeasuresCurrent'
        BY <1>1 DEF BeginWrite, MeasuresCurrent, TakesTurns, Reading, Writing, Measured, readerVars
    <2>6. CopiedInOrder'
        BY <1>1 DEF BeginWrite, CopiedInOrder, TakesTurns, Reading, Writing, Unread, ToEnd, readerVars
    <2> QED BY <2>1, <2>2, <2>3, <2>4, <2>5, <2>6
<1>2. CASE Add
    <2>1. TakesTurns'
        BY <1>2 DEF Add, TakesTurns, FlagAgrees, Reading, Writing, readerVars
    <2>2. RoomLeft'
        BY <1>2 DEF Add, RoomLeft, Unread, readerVars
    <2>3. UnreadInPlace'
      <3>1. Unread < Size /\ wpos \in Cell /\ rpos \in Cell
          BY <1>2 DEF Add, RoomLeft, UnreadInPlace, Unread, Cell
      <3>2. wpos = Index(rpos + Unread)
          BY <1>2, <3>1 DEF UnreadInPlace, Wrapped, Cell
      <3>3. Unread' = Unread + 1 /\ rpos' = rpos /\ consumed' = consumed
          BY <1>2 DEF Add, Unread, readerVars
      <3>4. Wrapped(wpos') = Index(rpos + (Unread + 1))
          BY <1>2, <3>1, <3>2 DEF Add, Wrapped, Index, Cell, RoomLeft, Unread
      <3>5. ASSUME NEW k \in 0 .. Unread
            PROVE  data'[Index(rpos + k)] = consumed + k + 1
        <4>1. Index(rpos + k) \in Cell
            BY <3>1 DEF Index, Cell, RoomLeft, Unread
        <4>2. CASE k = Unread
            BY <1>2, <3>1, <3>2, <4>2 DEF Add, Unread
        <4>3. CASE k < Unread
          <5>1. Index(rpos + k) # wpos
              BY <3>1, <3>2, <4>3 DEF Index, Cell, Unread
          <5>2. data[Index(rpos + k)] = consumed + k + 1
              BY <4>3 DEF UnreadInPlace, Unread
          <5> QED BY <1>2, <4>1, <5>1, <5>2 DEF Add
        <4> QED BY <4>2, <4>3 DEF Unread
      <3>6. Unread \in Int
          BY DEF Unread
      <3> QED BY <3>1, <3>3, <3>4, <3>5, <3>6 DEF UnreadInPlace
    <2>4. FlagAgrees'
        BY <1>2 DEF Add, FlagAgrees, TakesTurns, RoomLeft, Unread, Reading, Writing, readerVars
    <2>5. MeasuresCurrent'
        BY <1>2 DEF Add, MeasuresCurrent, TakesTurns, Reading, Writing, Measured, readerVars
    <2>6. CopiedInOrder'
        BY <1>2 DEF Add, CopiedInOrder, TakesTurns, Reading, Writing, Unread, ToEnd, readerVars
    <2> QED BY <2>1, <2>2, <2>3, <2>4, <2>5, <2>6
<1>3. CASE Wrap
    <2>1. TakesTurns'
        BY <1>3 DEF Wrap, TakesTurns, FlagAgrees, Reading, Writing, readerVars
    <2>2. RoomLeft'
        BY <1>3 DEF Wrap, RoomLeft, Unread, readerVars
    <2>3. UnreadInPlace'
        BY <1>3 DEF Wrap, UnreadInPlace, RoomLeft, Unread, Wrapped, Index, readerVars
    <2>4. FlagAgrees'
        BY <1>3 DEF Wrap, FlagAgrees, TakesTurns, RoomLeft, Unread, Reading, Writing, readerVars
    <2>5. MeasuresCurrent'
        BY <1>3 DEF Wrap, MeasuresCurrent, TakesTurns, Reading, Writing, Measured, readerVars
    <2>6. CopiedInOrder'
        BY <1>3 DEF Wrap, CopiedInOrder, TakesTurns, Reading, Writing, Unread, ToEnd, readerVars
    <2> QED BY <2>1, <2>2, <2>3, <2>4, <2>5, <2>6
<1>4. CASE SetFlag
    <2>1. TakesTurns'
        BY <1>4 DEF SetFlag, TakesTurns, FlagAgrees, Reading, Writing, readerVars
    <2>2. RoomLeft'
        BY <1>4 DEF SetFlag, RoomLeft, Unread, readerVars
    <2>3. UnreadInPlace'
        BY <1>4 DEF SetFlag, UnreadInPlace, RoomLeft, Unread, Wrapped, Index, readerVars
    <2>4. FlagAgrees'
        BY <1>4 DEF SetFlag, FlagAgrees, TakesTurns, RoomLeft, Unread, Reading, Writing, readerVars
    <2>5. MeasuresCurrent'
        BY <1>4 DEF SetFlag, MeasuresCurrent, TakesTurns, Reading, Writing, Measured, readerVars
    <2>6. CopiedInOrder'
        BY <1>4 DEF SetFlag, CopiedInOrder, TakesTurns, Reading, Writing, Unread, ToEnd, readerVars
    <2> QED BY <2>1, <2>2, <2>3, <2>4, <2>5, <2>6
<1>5. CASE Give
    <2>1. TakesTurns'
        BY <1>5 DEF Give, TakesTurns, FlagAgrees, Reading, Writing, readerVars
    <2>2. RoomLeft'
        BY <1>5 DEF Give, RoomLeft, Unread, readerVars
    <2>3. UnreadInPlace'
        BY <1>5 DEF Give, UnreadInPlace, RoomLeft, Unread, Wrapped, Index, readerVars
    <2>4. FlagAgrees'
        BY <1>5 DEF Give, FlagAgrees, TakesTurns, RoomLeft, Unread, Reading, Writing, readerVars
    <2>5. MeasuresCurrent'
        BY <1>5 DEF Give, MeasuresCurrent, TakesTurns, Reading, Writing, Measured, readerVars
    <2>6. CopiedInOrder'
        BY <1>5 DEF Give, CopiedInOrder, TakesTurns, Reading, Writing, Unread, ToEnd, readerVars
    <2> QED BY <2>1, <2>2, <2>3, <2>4, <2>5, <2>6
<1> QED BY <1>1, <1>2, <1>3, <1>4, <1>5 DEF Writer

\* The first n slots of b hold the oldest unread elements; n cells from cell
\* "from" on hold the ones behind the first "at".
InOrder(b, n) == \A k \in 0 .. n - 1 : b[k] = consumed + 1 + k
Held(from, n, at) == \A k \in 0 .. n - 1 : data[from + k] = consumed + 1 + at + k

\* A copy placed behind the first "at" elements of the buffer continues
\* their order.
LEMMA CopiedOrder ==
  ASSUME consumed \in Int,
         NEW b \in [Slot -> -1 .. MaxWritten],
         NEW from \in Int, NEW n \in Nat, NEW at \in Nat,
         at + n <= 2 * Readlen,
         InOrder(b, at), Held(from, n, at)
  PROVE  InOrder(Copied(b, from, n, at), at + n)
<1> SUFFICES ASSUME NEW k \in 0 .. at + n - 1
             PROVE  Copied(b, from, n, at)[k] = consumed + 1 + k
    BY DEF InOrder
<1>1. k \in Slot
    BY DEF Slot
<1>2. CASE k < at
    BY <1>1, <1>2 DEF Copied, InOrder
<1>3. CASE k >= at
    <2>1. k - at \in 0 .. n - 1 /\ k \in at .. at + n - 1
        BY <1>3
    <2>2. data[from + (k - at)] = consumed + 1 + at + (k - at)
        BY <2>1 DEF Held
    <2>3. from + (k - at) = from + k - at
          /\ consumed + 1 + at + (k - at) = consumed + 1 + k
        BY <2>1
    <2> QED BY <1>1, <2>1, <2>2, <2>3 DEF Copied
<1> QED BY <1>2, <1>3

\* The first copy into the buffer.
LEMMA FirstCopyOrder ==
  ASSUME consumed \in Int,
         NEW b \in [Slot -> -1 .. MaxWritten],
         NEW from \in Int, NEW n \in Nat, n <= 2 * Readlen,
         Held(from, n, 0)
  PROVE  InOrder(Copied(b, from, n, 0), n)
<1>1. InOrder(b, 0)
    BY DEF InOrder
<1>2. InOrder(Copied(b, from, n, 0), 0 + n)
    BY <1>1, CopiedOrder
<1> QED BY <1>2

\* A delivery of the n oldest unread elements.
LEMMA DeliverOrder ==
  ASSUME Disciplined, Inv, RoomLeft, UnreadInPlace,
         NEW n \in Nat, n <= Unread,
         NEW b \in [Slot -> -1 .. MaxWritten],
         InOrder(b, n),
         Deliver(n, b, Index(rpos + n)),
         Index(rpos + n) < Size
  PROVE  /\ RoomLeft' /\ UnreadInPlace' /\ Unread' = Unread - n
         /\ \A k \in 0 .. got' - 1 : buf'[k] = consumed' - got' + k + 1
<1> USE DEF Inv, TypeOK, Disciplined
<1>1. /\ Unread' = Unread - n /\ consumed' = consumed + n /\ data' = data
      /\ wpos' = wpos /\ rpos' = Index(rpos + n) /\ got' = n /\ buf' = b
      /\ wleft' = wleft /\ wpc' = wpc
    BY DEF Deliver, Unread, writerVars
<1>2. RoomLeft'
    BY <1>1 DEF RoomLeft, Unread
<1>3. Wrapped(wpos') = Index(rpos' + Unread')
    BY <1>1 DEF UnreadInPlace, RoomLeft, Wrapped, Index, Unread
<1>4. ASSUME NEW k \in 0 .. Unread' - 1
      PROVE  data'[Index(rpos' + k)] = consumed' + k + 1
    <2>1. n + k \in 0 .. Unread - 1
        BY <1>1 DEF Unread
    <2>2. Index(rpos' + k) = Index(rpos + (n + k))
        BY <1>1, <2>1 DEF Index, UnreadInPlace, RoomLeft, Unread
    <2>3. data[Index(rpos + (n + k))] = consumed + (n + k) + 1
        BY <2>1 DEF UnreadInPlace
    <2> QED BY <1>1, <2>1, <2>2, <2>3
<1>5. UnreadInPlace'
    BY <1>1, <1>3, <1>4 DEF UnreadInPlace
<1>6. \A k \in 0 .. got' - 1 : buf'[k] = consumed' - got' + k + 1
    BY <1>1 DEF InOrder
<1> QED BY <1>1, <1>2, <1>5, <1>6

\* What the reader may rely on during a read.
LEMMA ReadingFacts ==
  ASSUME Disciplined, Inv, OrderInv, Reading
  PROVE  /\ ~Writing /\ newData
         /\ wpos \in Cell /\ rpos \in Cell /\ Unread \in 0 .. Size
         /\ wpos = Index(rpos + Unread)
         /\ \A k \in 0 .. Unread - 1 : data[Index(rpos + k)] = consumed + 1 + k
<1> USE DEF Inv, TypeOK, OrderInv, Disciplined
<1>1. ~Writing /\ newData
    BY DEF TakesTurns, FlagAgrees
<1>2. wpos \in Cell /\ rpos \in Cell /\ Unread \in 0 .. Size
    BY <1>1 DEF PositionInv, RoomLeft, UnreadInPlace, Unread, Cell, Writing
<1>3. wpos = Index(rpos + Unread)
    BY <1>2 DEF UnreadInPlace, Wrapped, Cell
<1>4. \A k \in 0 .. Unread - 1 : data[Index(rpos + k)] = consumed + 1 + k
    BY <1>2 DEF UnreadInPlace, Unread
<1> QED BY <1>1, <1>2, <1>3, <1>4

\* What the measured distance says of the number of unread elements.
LEMMA MeasuredUnread ==
  ASSUME Disciplined, Inv, OrderInv
  PROVE  /\ rpc = "ahead" => Unread = dist /\ rpos + dist < Size
         /\ rpc \in {"behind", "front", "frontPart", "frontAll", "catchup"} =>
              Unread = ToEnd + wpos /\ ToEnd <= Unread
         /\ rpc = "full" => Unread = Size /\ Readlen >= Size
<1> USE DEF Inv, TypeOK, OrderInv, Disciplined
<1>1. ASSUME rpc = "ahead" PROVE Unread = dist /\ rpos + dist < Size
    <2>1. wpos = Index(rpos + Unread) /\ Unread \in 0 .. Size /\ wpos \in Cell
        BY <1>1, ReadingFacts DEF Reading
    <2>2. dist = wpos - rpos /\ dist > 0
        BY <1>1 DEF MeasuresCurrent, Measured, PositionInv
    <2> QED BY <2>1, <2>2 DEF Index, Cell, UnreadInPlace
<1>2. ASSUME rpc \in {"behind", "front", "frontPart", "frontAll", "catchup"}
      PROVE  Unread = ToEnd + wpos /\ ToEnd <= Unread
    <2>1. wpos = Index(rpos + Unread) /\ Unread \in 0 .. Size /\ wpos \in Cell
        BY <1>2, ReadingFacts DEF Reading
    <2>2. dist = wpos - rpos /\ dist < 0
        BY <1>2 DEF MeasuresCurrent, Measured
    <2> QED BY <2>1, <2>2 DEF Index, Cell, ToEnd
<1>3. ASSUME rpc = "full" PROVE Unread = Size /\ Readlen >= Size
    <2>1. wpos = Index(rpos + Unread) /\ Unread \in 0 .. Size /\ rpos \in Cell
        BY <1>3, ReadingFacts DEF Reading
    <2>2. wpos = rpos
        BY <1>3 DEF MeasuresCurrent, Measured
    <2>3. Unread > 0
        BY <1>3 DEF FlagAgrees, Reading
    <2>4. Unread = Size
        BY <2>1, <2>2, <2>3 DEF Index, Cell
    <2> QED BY <2>4 DEF RoomLeft
<1> QED BY <1>1, <1>2, <1>3

\* A delivery during a read, in order and with the right next step.
LEMMA DeliverOrderInv ==
  ASSUME Disciplined, Inv, OrderInv, Reading,
         NEW n \in Nat, 0 < n, n <= Unread,
         NEW b \in [Slot -> -1 .. MaxWritten],
         InOrder(b, n),
         NEW p, p = Index(rpos + n), Deliver(n, b, p),
         rpc' \in {"compare", "clear", "process"},
         rpc' = "clear" => n = Unread,
         rpc' = "process" => n < Unread
  PROVE  OrderInv'
<1> USE DEF Inv, OrderInv
<1>1. /\ ~Writing /\ newData /\ rpos \in Cell /\ Unread \in 0 .. Size
    BY ReadingFacts
<1>2. Index(rpos + n) < Size
    BY <1>1 DEF Index, Cell
<1>3. /\ RoomLeft' /\ UnreadInPlace' /\ Unread' = Unread - n
      /\ \A k \in 0 .. got' - 1 : buf'[k] = consumed' - got' + k + 1
    BY <1>2, DeliverOrder
<1>4. newData' = newData /\ sem' = sem /\ wpc' = wpc
    BY DEF Deliver, writerVars
<1>5. TakesTurns'
    BY <1>1, <1>4 DEF TakesTurns, Writing, Reading
<1>6. FlagAgrees'
    BY <1>1, <1>3, <1>4 DEF FlagAgrees, Writing, Reading
<1>7. MeasuresCurrent'
    BY DEF MeasuresCurrent, Measured
<1>8. CopiedInOrder'
    BY <1>3 DEF CopiedInOrder
<1> QED BY <1>3, <1>5, <1>6, <1>7, <1>8

\* The steps of the reader that move no element.
LEMMA ReaderQuietOrder ==
  ASSUME Disciplined, Inv, OrderInv,
         \/ Take \/ TestFlag \/ Measure \/ Compare \/ ClearFlag
         \/ MeasureFront \/ Process
  PROVE  OrderInv'
<1> USE DEF Inv, TypeOK, OrderInv, Disciplined
<1>1. /\ Unread' = Unread /\ wpc' = wpc /\ wleft' = wleft /\ rpos' = rpos
      /\ wpos' = wpos /\ data' = data /\ consumed' = consumed
    BY DEF Take, TestFlag, Measure, Compare, ClearFlag, MeasureFront, Process,
           Goto, writerVars, Unread
<1>2. RoomLeft' /\ UnreadInPlace'
    BY <1>1 DEF RoomLeft, UnreadInPlace
<1>3. CASE Take
    BY <1>2, <1>3 DEF Take, TakesTurns, FlagAgrees, MeasuresCurrent, CopiedInOrder,
                      Reading, Writing, Measured, Unread, writerVars
<1>4. CASE TestFlag
    BY <1>2, <1>4 DEF TestFlag, Goto, TakesTurns, FlagAgrees, MeasuresCurrent,
                      CopiedInOrder, Reading, Writing, Measured, Unread, writerVars
<1>5. CASE Measure
    <2>1. TakesTurns' /\ FlagAgrees'
        BY <1>1, <1>5 DEF Measure, Goto, TakesTurns, FlagAgrees, Reading, Writing,
                          writerVars
    <2>2. MeasuresCurrent'
        BY <1>1, <1>5 DEF Measure, Goto, MeasuresCurrent, Measured
    <2>3. CopiedInOrder'
        BY <1>5 DEF Measure, Goto, CopiedInOrder
    <2> QED BY <1>2, <2>1, <2>2, <2>3
<1>6. CASE Compare
    <2>1. /\ rpos \in Cell /\ wpos = Index(rpos + Unread)
          /\ Unread \in 0 .. Size /\ Unread < Size
        BY <1>6, ReadingFacts DEF Compare, Reading, FlagAgrees
    <2>2. rpos = wpos <=> Unread = 0
        BY <2>1 DEF Index, Cell
    <2>3. TakesTurns' /\ FlagAgrees'
        BY <1>1, <1>6, <2>1, <2>2 DEF Compare, Goto, TakesTurns, FlagAgrees, Reading,
                               Writing, writerVars
    <2>4. MeasuresCurrent' /\ CopiedInOrder'
        BY <1>1, <1>6 DEF Compare, Goto, MeasuresCurrent, CopiedInOrder, Measured
    <2> QED BY <1>2, <2>3, <2>4
<1>7. CASE ClearFlag
    BY <1>1, <1>2, <1>7 DEF ClearFlag, TakesTurns, FlagAgrees, MeasuresCurrent,
                      CopiedInOrder, Reading, Writing, Measured, writerVars
<1>8. CASE MeasureFront
    BY <1>1, <1>2, <1>8 DEF MeasureFront, Goto, TakesTurns, FlagAgrees,
                      MeasuresCurrent, CopiedInOrder, Reading, Writing, Measured,
                      ToEnd, writerVars
<1>9. CASE Process
    BY <1>1, <1>2, <1>9 DEF Process, TakesTurns, FlagAgrees, MeasuresCurrent,
                      CopiedInOrder, Reading, Writing, Measured, writerVars
<1> QED BY <1>3, <1>4, <1>5, <1>6, <1>7, <1>8, <1>9

\* The elements that can be copied without passing data_.end().
LEMMA UpToEnd ==
  ASSUME Disciplined, Inv, OrderInv, Reading,
         NEW n \in Nat, n <= Unread, n <= ToEnd
  PROVE  Held(rpos, n, 0)
<1> SUFFICES ASSUME NEW k \in 0 .. n - 1
             PROVE  data[rpos + k] = consumed + 1 + 0 + k
    BY DEF Held
<1>1. k \in 0 .. Unread - 1 /\ rpos \in Cell
    BY ReadingFacts
<1>2. Index(rpos + k) = rpos + k
    BY <1>1 DEF Index, Cell, ToEnd
<1>3. data[Index(rpos + k)] = consumed + 1 + k
    BY <1>1, ReadingFacts
<1> QED BY <1>2, <1>3 DEF Inv, TypeOK

\* The elements from data_.begin() on.
LEMMA FromBegin ==
  ASSUME Disciplined, Inv, OrderInv, Reading,
         NEW n \in Nat, ToEnd + n <= Unread
  PROVE  Held(0, n, ToEnd)
<1> SUFFICES ASSUME NEW k \in 0 .. n - 1
             PROVE  data[0 + k] = consumed + 1 + ToEnd + k
    BY DEF Held
<1>1. ToEnd + k \in 0 .. Unread - 1 /\ rpos \in Cell /\ Unread \in 0 .. Size
    BY ReadingFacts DEF ToEnd, Cell
<1>2. Index(rpos + (ToEnd + k)) = 0 + k
    BY <1>1 DEF Index, Cell, ToEnd
<1>3. data[Index(rpos + (ToEnd + k))] = consumed + 1 + (ToEnd + k)
    BY <1>1, ReadingFacts
<1> QED BY <1>1, <1>2, <1>3 DEF Inv, TypeOK, ToEnd, Cell

\* Write_pos was ahead: one copy takes the oldest elements.
LEMMA ReadAheadOrder == ASSUME Disciplined, Inv, OrderInv, ReadAhead PROVE OrderInv'
<1> DEFINE n == IF Readlen <= dist THEN Readlen ELSE dist
<1> USE DEF Inv, TypeOK, PositionInv
<1>1. /\ rpc = "ahead" /\ Reading
      /\ Unread = dist /\ dist > 0 /\ rpos + dist < Size
    BY MeasuredUnread DEF ReadAhead, Reading
<1>2. /\ n \in Nat /\ 0 < n /\ n <= Unread /\ n <= ToEnd /\ n <= Readlen
      /\ rpos + n = Index(rpos + n)
    BY <1>1 DEF ToEnd, Index
<1>3. Held(rpos, n, 0)
    BY <1>1, <1>2, UpToEnd
<1>4. InOrder(Copied(buf, rpos, n, 0), n)
    <2>1. n <= 2 * Readlen /\ rpos \in Int /\ consumed \in Int
        BY <1>2
    <2> HIDE DEF n
    <2> QED BY <1>2, <1>3, <2>1, FirstCopyOrder
<1>5. Copied(buf, rpos, n, 0) \in [Slot -> -1 .. MaxWritten]
    BY <1>2, StraightType
<1>6. Deliver(n, Copied(buf, rpos, n, 0), rpos + n)
    BY DEF ReadAhead
<1>7. rpc' = "compare" \/ (rpc' = "clear" /\ n = Unread)
    BY <1>1 DEF ReadAhead
<1> HIDE DEF n
<1> QED BY <1>1, <1>2, <1>4, <1>5, <1>6, <1>7, DeliverOrderInv

\* It was behind, and the request ends before data_.end().
LEMMA ReadBehindOrder == ASSUME Disciplined, Inv, OrderInv, ReadBehind PROVE OrderInv'
<1> USE DEF Inv, TypeOK
<1>1. rpc = "behind" /\ Reading /\ ToEnd <= Unread /\ Readlen <= ToEnd
    BY MeasuredUnread DEF ReadBehind, Reading
<1>2. Readlen <= Unread /\ Wrapped(rpos + Readlen) = Index(rpos + Readlen)
    BY <1>1 DEF ToEnd, Index, Wrapped, Unread
<1>3. Held(rpos, Readlen, 0)
    BY <1>1, <1>2, UpToEnd
<1>4. InOrder(Copied(buf, rpos, Readlen, 0), Readlen)
    BY <1>3, FirstCopyOrder
<1>5. Copied(buf, rpos, Readlen, 0) \in [Slot -> -1 .. MaxWritten]
    BY <1>1, StraightType
<1>6. Deliver(Readlen, Copied(buf, rpos, Readlen, 0), Wrapped(rpos + Readlen))
      /\ rpc' = "compare"
    BY DEF ReadBehind
<1> QED BY <1>1, <1>2, <1>4, <1>5, <1>6, DeliverOrderInv

\* The two copies that leave read_pos where it is.
LEMMA CopyOnlyOrder ==
  ASSUME Disciplined, Inv, OrderInv, ReadToEnd \/ ReadFrontAll
  PROVE  OrderInv'
<1> USE DEF Inv, TypeOK, OrderInv
<1>1. /\ Unread' = Unread /\ wpc' = wpc /\ wleft' = wleft /\ rpos' = rpos
      /\ wpos' = wpos /\ data' = data /\ consumed' = consumed /\ ToEnd' = ToEnd
      /\ front' = front /\ dist' = dist /\ newData' = newData /\ sem' = sem
    BY DEF ReadToEnd, ReadFrontAll, writerVars, Unread, ToEnd
<1>2. /\ Reading /\ Unread = ToEnd + wpos /\ ToEnd <= Unread
      /\ ToEnd \in Nat /\ ToEnd < Readlen /\ rpos \in Cell
    <2>1. rpc \in {"behind", "frontAll"} /\ Reading /\ Readlen > ToEnd
        BY DEF ReadToEnd, ReadFrontAll, Reading, PositionInv
    <2>2. Unread = ToEnd + wpos /\ ToEnd <= Unread
        BY <2>1, MeasuredUnread
    <2>3. rpos \in Cell
        BY <2>1, ReadingFacts
    <2> QED BY <2>1, <2>2, <2>3 DEF ToEnd, Cell
<1>3. RoomLeft' /\ UnreadInPlace'
    BY <1>1 DEF RoomLeft, UnreadInPlace
<1>4. TakesTurns' /\ FlagAgrees' /\ MeasuresCurrent'
    BY <1>1, <1>2 DEF ReadToEnd, ReadFrontAll, TakesTurns, FlagAgrees,
                 MeasuresCurrent, Reading, Writing, Measured
<1>5. CASE ReadToEnd
    <2>1. Held(rpos, ToEnd, 0)
        BY <1>2, UpToEnd
    <2>2. InOrder(Copied(buf, rpos, ToEnd, 0), ToEnd)
      <3>1. ToEnd <= 2 * Readlen /\ rpos \in Int /\ consumed \in Int
          BY <1>2
      <3> QED BY <1>2, <2>1, <3>1, FirstCopyOrder
    <2>3. CopiedInOrder'
        BY <1>1, <1>2, <1>5, <2>2 DEF ReadToEnd, CopiedInOrder, InOrder
    <2> QED BY <1>3, <1>4, <2>3
<1>6. CASE ReadFrontAll
    <2>1. front = wpos /\ ToEnd + front <= Readlen
        BY <1>2, <1>6 DEF ReadFrontAll, MeasuresCurrent, PositionInv
    <2>2. Held(0, front, ToEnd)
        BY <1>2, <2>1, FromBegin
    <2>3. InOrder(buf, ToEnd)
        BY <1>2, <1>6 DEF ReadFrontAll, CopiedInOrder, InOrder
    <2>4. InOrder(Copied(buf, 0, front, ToEnd), ToEnd + front)
      <3>1. /\ ToEnd + front <= 2 * Readlen /\ front \in Nat /\ 0 \in Int
            /\ consumed \in Int /\ ToEnd \in Nat
            /\ buf \in [Slot -> -1 .. MaxWritten]
          BY <1>2, <2>1
      <3> HIDE DEF Inv, TypeOK, OrderInv
      <3> QED BY <2>2, <2>3, <3>1, CopiedOrder
    <2>5. CopiedInOrder'
        BY <1>1, <1>2, <1>6, <2>1, <2>4 DEF ReadFrontAll, CopiedInOrder, InOrder
    <2> QED BY <1>3, <1>4, <2>5
<1> QED BY <1>5, <1>6

\* The second copy, from data_.begin(), fills the request.
LEMMA ReadFrontPartOrder ==
  ASSUME Disciplined, Inv, OrderInv, ReadFrontPart PROVE OrderInv'
<1> DEFINE rest == Readlen - ToEnd
<1> DEFINE merged == Copied(buf, 0, rest, ToEnd)
<1> USE DEF Inv, TypeOK
<1>1. rpc = "frontPart" /\ Reading
    BY DEF ReadFrontPart, Reading
<1>2. /\ Unread = ToEnd + wpos /\ front = wpos /\ rest \in Nat /\ 0 < rest
      /\ rest < front /\ ToEnd \in Nat /\ rpos \in Cell
    <2>1. Unread = ToEnd + wpos
        BY <1>1, MeasuredUnread
    <2>2. front = wpos /\ Readlen > ToEnd /\ Readlen - ToEnd < front
        BY <1>1 DEF OrderInv, MeasuresCurrent, PositionInv
    <2>3. rpos \in Cell
        BY <1>1, ReadingFacts
    <2> QED BY <2>1, <2>2, <2>3 DEF ToEnd, Cell
<1>3. Readlen \in Nat /\ 0 < Readlen /\ Readlen < Unread /\ Readlen <= Unread
    BY <1>2
<1>4. rest = Index(rpos + Readlen)
    BY <1>2 DEF Index, ToEnd
<1>5. InOrder(merged, Readlen)
    <2>1. ToEnd + rest <= Unread /\ ToEnd + rest = Readlen
          /\ ToEnd + rest <= 2 * Readlen
        BY <1>2
    <2>2. /\ consumed \in Int /\ 0 \in Int /\ buf \in [Slot -> -1 .. MaxWritten]
        OBVIOUS
    <2> HIDE DEF rest
    <2>3. Held(0, rest, ToEnd)
        BY <1>1, <1>2, <2>1, FromBegin
    <2>4. InOrder(buf, ToEnd)
        BY <1>1 DEF OrderInv, CopiedInOrder, InOrder, ToEnd
    <2>5. InOrder(merged, ToEnd + rest)
      <3>1. rest \in Nat /\ ToEnd \in Nat /\ ToEnd + rest <= 2 * Readlen
          BY <1>2, <2>1
      <3> HIDE DEF Inv, TypeOK
      <3> QED BY <2>2, <2>3, <2>4, <3>1, CopiedOrder
    <2> HIDE DEF merged
    <2> QED BY <2>1, <2>5
<1>6. merged \in [Slot -> -1 .. MaxWritten]
    BY <1>2, CopiedType DEF Cell
<1>7. Deliver(Readlen, merged, rest) /\ rpc' = "process"
    BY DEF ReadFrontPart
<1> HIDE DEF merged, rest
<1> QED BY <1>1, <1>3, <1>4, <1>5, <1>6, <1>7, DeliverOrderInv

\* read_pos = write_pos takes exactly what the two copies returned: under the
\* discipline the writer has not moved since the second look.
LEMMA CatchUpOrder == ASSUME Disciplined, Inv, OrderInv, CatchUp PROVE OrderInv'
<1> USE DEF Inv, TypeOK
<1>1. rpc = "catchup" /\ Reading
    BY DEF CatchUp, Reading
<1>2. /\ front = wpos /\ Unread = ToEnd + front /\ wpos = Index(rpos + Unread)
      /\ Unread \in Nat /\ 0 < Unread
    <2>1. Unread = ToEnd + wpos
        BY <1>1, MeasuredUnread
    <2>2. front = wpos
        BY <1>1 DEF OrderInv, MeasuresCurrent
    <2>3. wpos = Index(rpos + Unread) /\ Unread \in 0 .. Size /\ rpos \in Cell
        BY <1>1, ReadingFacts
    <2> QED BY <2>1, <2>2, <2>3 DEF ToEnd, Cell
<1>3. InOrder(buf, Unread)
    <2>1. InOrder(buf, ToEnd + front)
        BY <1>1 DEF OrderInv, CopiedInOrder, InOrder, ToEnd
    <2> QED BY <1>2, <2>1
<1>4. Deliver(Unread, buf, wpos) /\ rpc' = "clear" /\ Unread <= Unread
    BY <1>2 DEF CatchUp
<1>5. buf \in [Slot -> -1 .. MaxWritten]
    OBVIOUS
<1> QED BY <1>1, <1>2, <1>3, <1>4, <1>5, DeliverOrderInv

\* A full buffer is read whole, the part from read_pos on first.
LEMMA ReadFullOrder == ASSUME Disciplined, Inv, OrderInv, ReadFull PROVE OrderInv'
<1> DEFINE c == Copied(buf, rpos, ToEnd, 0)
<1> DEFINE merged == Copied(c, 0, rpos, ToEnd)
<1> USE DEF Inv, TypeOK
<1>1. rpc = "full" /\ Reading /\ Unread = Size /\ Readlen >= Size
    BY MeasuredUnread DEF ReadFull, Reading
<1>2. /\ rpos \in Cell /\ ToEnd \in Nat /\ rpos \in Nat /\ ToEnd + rpos = Size
      /\ rpos = Index(rpos + Size)
    BY <1>1, ReadingFacts DEF Cell, ToEnd, Index
<1>3. c \in [Slot -> -1 .. MaxWritten]
    BY <1>2, StraightType
<1>4. merged \in [Slot -> -1 .. MaxWritten]
    <2>1. \A j \in 0 .. rpos - 1 : 0 + j \in Cell
        BY <1>2 DEF Cell
    <2>2. rpos \in Int /\ ToEnd \in Int /\ data \in [Cell -> 0 .. MaxWritten]
        BY <1>2
    <2> HIDE DEF c, Inv, TypeOK
    <2> QED BY <1>3, <2>1, <2>2, CopiedType
<1>5. /\ consumed \in Int /\ 0 \in Int /\ buf \in [Slot -> -1 .. MaxWritten]
      /\ ToEnd <= 2 * Readlen /\ ToEnd + rpos <= 2 * Readlen
      /\ rpos \in Int /\ ToEnd + rpos <= Unread /\ ToEnd <= Unread
    BY <1>1, <1>2
<1>6. InOrder(c, ToEnd)
    <2>1. Held(rpos, ToEnd, 0)
        BY <1>1, <1>2, <1>5, UpToEnd
    <2> QED BY <1>2, <1>5, <2>1, FirstCopyOrder
<1>7. InOrder(merged, Size)
    <2>1. Held(0, rpos, ToEnd)
        BY <1>1, <1>2, <1>5, FromBegin
    <2>2. InOrder(merged, ToEnd + rpos)
      <3>1. /\ consumed \in Int /\ 0 \in Int /\ ToEnd \in Nat /\ rpos \in Nat
            /\ ToEnd + rpos <= 2 * Readlen
          BY <1>2, <1>5
      <3> HIDE DEF c, Inv, TypeOK
      <3> QED BY <1>3, <1>6, <2>1, <3>1, CopiedOrder
    <2> QED BY <1>2, <2>2
<1>8. Deliver(Size, merged, rpos) /\ rpc' = "clear" /\ Size \in Nat /\ 0 < Size
    BY DEF ReadFull
<1> HIDE DEF merged
<1> QED BY <1>1, <1>2, <1>4, <1>7, <1>8, DeliverOrderInv

\* Without a full buffer, or with a request that takes all of it, the other
\* two branches for a full buffer are never taken.
LEMMA NoShortFullRead ==
  ASSUME Disciplined, Inv, OrderInv
  PROVE  ~ReadFullWrapped /\ ~ReadFullPart
BY MeasuredUnread DEF ReadFullWrapped, ReadFullPart, Inv, TypeOK

\* Every step of either side keeps the invariant about places and order.
THEOREM OrderStep == Disciplined /\ Inv /\ OrderInv /\ [Next]_vars => OrderInv'
<1> SUFFICES ASSUME Disciplined, Inv, OrderInv, [Next]_vars PROVE OrderInv'
    OBVIOUS
<1>1. CASE (\E n \in 0 .. MaxPacket : BeginWrite(n)) \/ Writer
    BY <1>1, WriterOrder
<1>2. CASE Reader
    BY <1>2, ReaderQuietOrder, ReadAheadOrder, ReadBehindOrder, CopyOnlyOrder,
       ReadFrontPartOrder, CatchUpOrder, ReadFullOrder, NoShortFullRead
       DEF Reader
<1>3. CASE UNCHANGED vars
    <2>1. /\ Unread' = Unread /\ ToEnd' = ToEnd
        BY <1>3 DEF vars, Unread, ToEnd
    <2>2. Reading' = Reading /\ Writing' = Writing /\ Measured' = Measured
        BY <1>3 DEF vars, Reading, Writing, Measured
    <2> QED BY <1>3, <2>1, <2>2
            DEF vars, OrderInv, TakesTurns, RoomLeft, UnreadInPlace, FlagAgrees,
                MeasuresCurrent, CopiedInOrder
<1> QED BY <1>1, <1>2, <1>3 DEF Next

\* Under the two disciplines the invariant about places and order holds.
THEOREM OrderKept == ASSUME Disciplined PROVE Spec => []OrderInv
<1>1. Init => Inv /\ OrderInv
    BY InitInv, InitOrder
<1>2. Inv /\ OrderInv /\ [Next]_vars => (Inv /\ OrderInv)'
    BY StepInv, OrderStep
<1> QED BY <1>1, <1>2, PTL DEF Spec

\* What a read hands to its task are the oldest unread elements, once each
\* and in the order they were written, for every size and request.
THEOREM ReadsInOrder == ASSUME Disciplined PROVE Spec => []FifoOrder
<1>1. OrderInv => FifoOrder
    BY DEF OrderInv, CopiedInOrder, FifoOrder
<1> QED BY <1>1, OrderKept, PTL

\* Between calls the flag is set exactly when something is unread, and no
\* unread element was overwritten.
THEOREM FlagReliable == ASSUME Disciplined PROVE Spec => []FlagMeansUnread
<1>1. Inv /\ OrderInv => FlagMeansUnread
    BY DEF Disciplined, Inv, TypeOK, OrderInv, FlagAgrees, RoomLeft, Writing,
           FlagMeansUnread, Unread
<1>2. Spec => []Inv
    BY InitInv, StepInv, PTL DEF Spec
<1> QED BY <1>1, <1>2, OrderKept, PTL

-----------------------------------------------------------------------------
\* The numbers of n elements in a row, the first one after c.
Run(c, n) == [i \in 1 .. n |-> c + i]

\* One more element goes to the end of a run.
LEMMA RunGrows ==
  ASSUME NEW c \in Int, NEW n \in Nat
  PROVE  Run(c, n + 1) = Run(c, n) \o Run(c + n, 1)
BY DEF Run

\* A run cut in two is two runs.
LEMMA RunSplits ==
  ASSUME NEW c \in Int, NEW n \in Nat, NEW k \in 0 .. n
  PROVE  /\ Len(Run(c, n)) = n
         /\ SubSeq(Run(c, n), 1, k) = Run(c, k)
         /\ SubSeq(Run(c, n), k + 1, n) = Run(c + k, n - k)
<1>1. Run(c, n) \in Seq(Int) /\ Len(Run(c, n)) = n
    BY DEF Run
<1>2. SubSeq(Run(c, n), 1, k) = Run(c, k)
    BY DEF Run
<1>3. SubSeq(Run(c, n), k + 1, n) = Run(c + k, n - k)
    BY DEF Run
<1> QED BY <1>1, <1>2, <1>3

\* Before a read has delivered, the caller's buffer counts for nothing.
NothingYet == rpc \notin {"compare", "clear", "process"} => got = 0

\* Every step keeps that.
LEMMA NothingYetKept == NothingYet /\ [Next]_vars => NothingYet'
<1> SUFFICES ASSUME NothingYet, [Next]_vars PROVE NothingYet'
    OBVIOUS
<1>1. CASE (\E n \in 0 .. MaxPacket : BeginWrite(n)) \/ Writer
    BY <1>1 DEF NothingYet, BeginWrite, Writer, Add, Wrap, SetFlag, Give, readerVars
<1>2. CASE Reader
    BY <1>2 DEF NothingYet, Reader, Take, TestFlag, Measure, ReadAhead, Compare, ClearFlag,
                ReadBehind, ReadToEnd, MeasureFront, ReadFrontPart, ReadFrontAll, CatchUp,
                ReadFull, ReadFullWrapped, ReadFullPart, Process, Goto, Deliver
<1>3. CASE UNCHANGED vars
    BY <1>3 DEF NothingYet, vars
<1> QED BY <1>1, <1>2, <1>3 DEF Next

\* The queue and the batch of the refinement mapping.
QueueOf == [i \in 1 .. Unread |-> data[Index(rpos + i - 1)]]
BatchOf == [k \in 1 .. got |-> buf[k - 1]]

\* Both are runs of the element numbers.
LEMMA MappedRuns ==
  ASSUME Inv, OrderInv, NothingYet
  PROVE  QueueOf = Run(consumed, Unread) /\ BatchOf = Run(consumed - got, got)
<1> USE DEF Inv, TypeOK
<1>1. ASSUME NEW i \in 1 .. Unread PROVE data[Index(rpos + i - 1)] = consumed + i
    <2>1. i - 1 \in 0 .. Unread - 1 /\ rpos + (i - 1) = rpos + i - 1
          /\ consumed + (i - 1) + 1 = consumed + i
        BY DEF Unread
    <2> QED BY <2>1 DEF OrderInv, UnreadInPlace
<1>2. ASSUME NEW k \in 1 .. got PROVE buf[k - 1] = (consumed - got) + k
    <2>1. k - 1 \in 0 .. got - 1 /\ rpc \in {"compare", "clear", "process"}
        BY DEF NothingYet
    <2>2. buf[k - 1] = consumed - got + (k - 1) + 1
        BY <2>1 DEF OrderInv, CopiedInOrder
    <2> QED BY <2>1, <2>2
<1> QED BY <1>1, <1>2 DEF QueueOf, BatchOf, Run

\* What a step does to what lies between the two sides.
LEMMA StepKinds ==
  ASSUME Disciplined, Inv, OrderInv, NothingYet, [Next]_vars
  PROVE  \/ written' = written /\ consumed' = consumed /\ got' = got
         \/ /\ written' = written + 1 /\ consumed' = consumed /\ got' = got
            /\ Unread + 1 <= Size
         \/ /\ written' = written /\ got = 0
            /\ got' \in 1 .. Readlen /\ got' <= Unread /\ consumed' = consumed + got'
         \/ written' = written /\ consumed' = consumed /\ got' = 0
<1> USE DEF Inv, TypeOK
<1>0. /\ Size \in Nat /\ Readlen \in Nat /\ rpos \in Int /\ wpos \in Int /\ front \in Nat
      /\ Unread \in Int /\ dist \in Int /\ Size > 0 /\ Readlen > 0
    BY DEF Unread
<1>1. CASE (\E n \in 0 .. MaxPacket : BeginWrite(n)) \/ Wrap \/ SetFlag \/ Give
    BY <1>1 DEF BeginWrite, Wrap, SetFlag, Give, readerVars
<1>2. CASE Add
    <2>1. Unread + 1 <= Size
        BY <1>2 DEF Add, OrderInv, RoomLeft, Disciplined, PositionInv, Unread
    <2> QED BY <1>2, <2>1 DEF Add, readerVars
<1>3. CASE \/ Take \/ TestFlag \/ Measure \/ Compare \/ ClearFlag \/ ReadToEnd
           \/ MeasureFront \/ ReadFrontAll
    BY <1>3 DEF Take, TestFlag, Measure, Compare, ClearFlag, ReadToEnd, MeasureFront,
                ReadFrontAll, Goto, writerVars
<1>4. CASE ReadAhead
    <2>1. rpc = "ahead" /\ got = 0 /\ Unread = dist /\ dist > 0
        BY <1>4, MeasuredUnread DEF ReadAhead, NothingYet, PositionInv
    <2> QED BY <1>4, <2>1 DEF ReadAhead, Deliver, writerVars
<1>5. CASE ReadBehind
    <2>1. rpc = "behind" /\ got = 0 /\ Readlen <= ToEnd /\ ToEnd <= Unread
        BY <1>5, MeasuredUnread DEF ReadBehind, NothingYet
    <2>2. Readlen <= Unread
        BY ONLY <1>0, <2>1 DEF ToEnd
    <2> QED BY <1>5, <2>1, <2>2 DEF ReadBehind, Deliver, writerVars
<1>6. CASE ReadFrontPart
    <2>1. rpc = "frontPart" /\ got = 0 /\ Unread = ToEnd + wpos
          /\ front = wpos /\ Readlen - ToEnd < front
        BY <1>6, MeasuredUnread
           DEF ReadFrontPart, NothingYet, OrderInv, MeasuresCurrent, PositionInv
    <2>2. Readlen <= Unread
        BY ONLY <1>0, <2>1 DEF ToEnd
    <2> QED BY <1>6, <2>1, <2>2 DEF ReadFrontPart, Deliver, writerVars
<1>7. CASE CatchUp
    <2>1. /\ rpc = "catchup" /\ got = 0 /\ Unread = ToEnd + wpos /\ front = wpos
          /\ front <= Readlen - ToEnd
        BY <1>7, MeasuredUnread
           DEF CatchUp, NothingYet, OrderInv, MeasuresCurrent, PositionInv
    <2>2. rpos < Size
        BY DEF OrderInv, UnreadInPlace
    <2>3. ToEnd + front \in 1 .. Readlen /\ ToEnd + front <= Unread
        BY ONLY <1>0, <2>1, <2>2 DEF ToEnd
    <2> QED BY <1>7, <2>1, <2>3 DEF CatchUp, Deliver, writerVars
<1>8. CASE ReadFull
    <2>1. rpc = "full" /\ got = 0 /\ Unread = Size /\ Readlen >= Size
        BY <1>8, MeasuredUnread DEF ReadFull, NothingYet
    <2> QED BY <1>8, <2>1 DEF ReadFull, Deliver, writerVars
<1>9. CASE Process
    BY <1>9 DEF Process, writerVars
<1>10. CASE UNCHANGED vars
    BY <1>10 DEF vars
<1> QED
    BY <1>1, <1>2, <1>3, <1>4, <1>5, <1>6, <1>7, <1>8, <1>9, <1>10, NoShortFullRead
       DEF Next, Writer, Reader

LEMMA BackAgain == ASSUME NEW c \in Nat, NEW g \in Nat PROVE (c + g) - g = c
OBVIOUS

\* Every step puts an element, takes a batch of the oldest ones, finishes a
\* batch, or leaves the queue as it is.
LEMMA StepsOfQueue ==
  ASSUME Disciplined, Inv, OrderInv, NothingYet,
         Inv', OrderInv', NothingYet', [Next]_vars
  PROVE  [Queue!Next]_(Queue!vars)
<1>1. QueueOf = Run(consumed, Unread) /\ BatchOf = Run(consumed - got, got)
    BY MappedRuns
<1>2. QueueOf' = Run(consumed', Unread') /\ BatchOf' = Run(consumed' - got', got')
    <2>1. (Inv /\ OrderInv /\ NothingYet =>
             QueueOf = Run(consumed, Unread) /\ BatchOf = Run(consumed - got, got))'
        BY MappedRuns, PTL
    <2> QED BY <2>1 DEF Run
<1>3. /\ written \in Nat /\ consumed \in Nat /\ consumed \in Int /\ got \in Nat /\ Unread \in Nat
      /\ Unread = written - consumed /\ Unread' = written' - consumed'
    BY DEF Inv, TypeOK, OrderInv, RoomLeft, Unread
<1>4. CASE written' = written /\ consumed' = consumed /\ got' = got
    BY <1>1, <1>2, <1>3, <1>4 DEF Queue!vars, QueueOf, BatchOf
<1>5. CASE /\ written' = written + 1 /\ consumed' = consumed /\ got' = got
           /\ Unread + 1 <= Size
    <2>1. Unread' = Unread + 1 /\ consumed + Unread = written /\ 1 \in 1 .. 1
        BY ONLY <1>3, <1>5
    <2>2. QueueOf' = Run(consumed, Unread + 1) /\ BatchOf' = BatchOf
        BY <1>1, <1>2, <1>5, <2>1, Zenon
    <2>3. QueueOf' = QueueOf \o Run(written, 1)
        BY <1>1, <1>3, <2>1, <2>2, RunGrows, Zenon
    <2>4. Len(QueueOf) = Unread
      <3>1. 0 \in 0 .. Unread
          BY <1>3
      <3> QED BY <1>1, <1>3, <3>1, RunSplits, Zenon
    <2>5. Queue!Put
        BY <1>5, <2>1, <2>2, <2>3, <2>4, Zenon DEF Queue!Put, QueueOf, BatchOf, Run
    <2> QED BY <2>5 DEF Queue!Next
<1>6. CASE /\ written' = written /\ got = 0
           /\ got' \in 1 .. Readlen /\ got' <= Unread /\ consumed' = consumed + got'
    <2>1. /\ Unread' = Unread - got' /\ consumed' - got' = consumed
          /\ got' \in 0 .. Unread /\ got' \in 1 .. Unread /\ got' <= Readlen /\ consumed \in Int
      <3>1. got' \in Nat /\ 0 < got' /\ got' <= Readlen /\ got' <= Unread
          BY ONLY <1>6, RingAssumption
      <3>2. got' \in 0 .. Unread /\ got' \in 1 .. Unread
          BY ONLY <3>1, <1>3
      <3>3. consumed' - got' = consumed
        <4>1. consumed \in Nat /\ consumed' = consumed + got'
            BY <1>3, <1>6
        <4>2. (consumed + got') - got' = consumed
            BY ONLY <3>1, <4>1, BackAgain
        <4> QED BY <4>1, <4>2, Zenon
      <3>4. Unread' = Unread - got'
          BY ONLY <3>1, <1>3, <1>6
      <3> QED BY <1>3, <3>1, <3>2, <3>3, <3>4
    <2>2. QueueOf' = Run(consumed + got', Unread - got') /\ BatchOf' = Run(consumed, got')
        BY <1>2, <1>6, <2>1, Zenon
    <2>3. BatchOf = <<>>
        BY <1>6 DEF BatchOf
    <2>4. /\ Len(QueueOf) = Unread
          /\ BatchOf' = SubSeq(QueueOf, 1, got')
          /\ QueueOf' = SubSeq(QueueOf, got' + 1, Unread)
        BY <1>1, <1>3, <2>1, <2>2, RunSplits, Zenon
    <2>5. Queue!TakeBatch
        BY <1>6, <2>1, <2>3, <2>4, Zenon DEF Queue!TakeBatch, QueueOf, BatchOf
    <2> QED BY <2>5 DEF Queue!Next
<1>7. CASE written' = written /\ consumed' = consumed /\ got' = 0
    <2>1. QueueOf' = QueueOf
        BY <1>1, <1>2, <1>3, <1>7
    <2>2. BatchOf' = <<>>
        BY <1>7 DEF BatchOf
    <2>3. Queue!Finish
        BY <1>7, <2>1, <2>2 DEF Queue!Finish, QueueOf, BatchOf
    <2> QED BY <2>3 DEF Queue!Next
<1> QED BY <1>4, <1>5, <1>6, <1>7, StepKinds

\* The initial buffer is the empty queue.
LEMMA QueueStarts == Init => Queue!Init /\ NothingYet
BY DEF Init, Queue!Init, NothingYet, Unread

\* Under the two disciplines the ring buffer is a FIFO queue to its two users,
\* for every size, request and packet and in every interleaving.
THEOREM QueueImplemented == ASSUME Disciplined PROVE Spec => ImplementsFifo
<1>1. Init => Inv /\ OrderInv /\ NothingYet /\ Queue!Init
    BY InitInv, InitOrder, QueueStarts
<1>2. Inv /\ OrderInv /\ NothingYet /\ [Next]_vars
        => (Inv /\ OrderInv /\ NothingYet)'
    BY StepInv, OrderStep, NothingYetKept
<1>3. /\ Inv /\ OrderInv /\ NothingYet /\ [Next]_vars /\ (Inv /\ OrderInv /\ NothingYet)'
      => [Queue!Next]_(Queue!vars)
    BY StepsOfQueue
<1> QED BY <1>1, <1>2, <1>3, PTL DEF Spec, ImplementsFifo, Queue!Spec
=============================================================================
