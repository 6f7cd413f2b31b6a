--------------------------- MODULE AudioPipeline ----------------------------
(***************************************************************************)
(* The audio chain app_main() builds: the Bluetooth data callback, the     *)
(* equalizer, the crossover and the codec task, joined by ring buffers     *)
(* with a binary semaphore each (main.cpp, Bluetooth.cpp, Equalizer.cpp,   *)
(* Crossover.cpp, AudioCodec.cpp). The versions of the firmware from the   *)
(* third prototype on have such a chain; the prototype's has the codec     *)
(* task only.                                                              *)
(*                                                                         *)
(* Sound is counted in units. A unit of the stream is a fixed number of    *)
(* bytes in buffer1, the mono samples mixed from them in buffer2 and, two  *)
(* channels again, twice as many samples in buffer3. Every main.cpp gives  *)
(* buffer1 as many bytes as four times the shorts of buffer2 and buffer3,  *)
(* so in units the three are equally large; in buffer3 one unit of the     *)
(* stream takes two.                                                       *)
(*                                                                         *)
(* A call of read() or write() is one step: Ringbuffer.tla is about what   *)
(* happens inside them. Between calls everything interleaves.              *)
(***************************************************************************)
EXTENDS RingCalls

CONSTANTS
  Versions,          \* versions of the firmware looked at
  Packets,           \* the sizes of a Bluetooth packet, in units
  Paced,             \* does the source keep a distance the chain can hold?
  MaxSent            \* units sent in a behaviour: a bound

Equalizer == 1
Crossover == 2
AudioCodec == 3
Tasks == {Equalizer, Crossover, AudioCodec}

-----------------------------------------------------------------------------
(***************************************************************************)
(* The versions: how much the tasks read at a time, how many elements they *)
(* write for one they read, and how many packets the data callback counts  *)
(* before it signals. All tasks go round the same loop: take the semaphore,*)
(* read, process, write, give.                                             *)
(***************************************************************************)

EqualizerTask_v1 == [reads |-> 2, writes |-> 1]
CrossoverTask_v1 == [reads |-> 2, writes |-> 2]
AudioCodecTask_v1 == [reads |-> 4, writes |-> 0]
DataCallback_v1 == 0

EqualizerTask_v2 == [reads |-> 2, writes |-> 1]
CrossoverTask_v2 == [reads |-> 2, writes |-> 2]
AudioCodecTask_v2 == [reads |-> 4, writes |-> 0]
DataCallback_v2 == 0

EqualizerTask_v3 == [reads |-> 2, writes |-> 1]
CrossoverTask_v3 == [reads |-> 2, writes |-> 2]
AudioCodecTask_v3 == [reads |-> 4, writes |-> 0]
DataCallback_v3 == 0

EqualizerTask_final == [reads |-> 6, writes |-> 1]
CrossoverTask_final == [reads |-> 6, writes |-> 2]
AudioCodecTask_final == [reads |-> 12, writes |-> 0]
DataCallback_final == 3

AudioCodecTask_prototype == [reads |-> 2, writes |-> 0]
DataCallback_prototype == 0
NoTask == [reads |-> 0, writes |-> 0]

Chain_smartsound_v1 ==
  [first |-> Equalizer, cells |-> 4, prebuffer |-> DataCallback_v1,
   tasks |-> <<EqualizerTask_v1, CrossoverTask_v1, AudioCodecTask_v1>>]

Chain_smartsound_v2 ==
  [first |-> Equalizer, cells |-> 4, prebuffer |-> DataCallback_v2,
   tasks |-> <<EqualizerTask_v2, CrossoverTask_v2, AudioCodecTask_v2>>]

Chain_smartsound_v3 ==
  [first |-> Equalizer, cells |-> 4, prebuffer |-> DataCallback_v3,
   tasks |-> <<EqualizerTask_v3, CrossoverTask_v3, AudioCodecTask_v3>>]

Chain_smartsound_final ==
  [first |-> Equalizer, cells |-> 9, prebuffer |-> DataCallback_final,
   tasks |-> <<EqualizerTask_final, CrossoverTask_final, AudioCodecTask_final>>]

Chain_prototype_v3 ==
  [first |-> AudioCodec, cells |-> 6, prebuffer |-> DataCallback_prototype,
   tasks |-> <<NoTask, NoTask, AudioCodecTask_prototype>>]

Chains ==
  [prototype_v3     |-> Chain_prototype_v3,
   smartsound_v1    |-> Chain_smartsound_v1,
   smartsound_v2    |-> Chain_smartsound_v2,
   smartsound_v3    |-> Chain_smartsound_v3,
   smartsound_final |-> Chain_smartsound_final]

ASSUME PipelineAssumption ==
  /\ Versions \subseteq DOMAIN Chains
  /\ Packets \subseteq Nat \ {0}
  /\ \E n \in Packets : \A m \in Packets : m <= n
  /\ Paced \in BOOLEAN
  /\ MaxSent \in Nat

VARIABLES
  chain,        \* the chain of the version that runs
  ring,         \* ring[t]: the buffer task t reads
  sem,          \* sem[t]: its BinarySemaphore
  pc,           \* pc[t]: where task t is
  work,         \* work[t]: the units in its local buffers
  btpc,         \* where the data callback is
  prebuffered,  \* packets buffered up since the stream started
  seen,         \* the value of prebuffered the data callback tested
  sent,         \* history: units the source sent
  given,        \* history: units sent up to the last give of the callback
  played,       \* history: units of buffer3 handed to the I2S driver
  fresh,        \* history: packets written since prebuffered was last reset
  torn          \* history: that reset fell between the write and the count of a packet

btVars == <<chain, btpc, prebuffered, seen, sent, given, fresh, torn>>
taskVars == <<chain, pc, work, played>>
vars == <<chain, ring, sem, pc, work, btpc, prebuffered, seen, sent, given, played,
          fresh, torn>>

\* Samples that come out of a chain for one that goes in.
GrowthOf(c) == IF c.first = AudioCodec THEN 1 ELSE 2
Growth == GrowthOf(chain)

Init ==
  /\ chain \in {Chains[v] : v \in Versions}
  /\ ring = [t \in Tasks |-> EmptyRing(chain.cells)]
  /\ sem = [t \in Tasks |-> 0]
  /\ pc = [t \in Tasks |-> "wait"]
  /\ work = [t \in Tasks |-> <<>>]
  /\ btpc = "idle" /\ prebuffered = 0 /\ seen = 0
  /\ sent = 0 /\ given = 0 /\ played = 0 /\ fresh = 0 /\ torn = FALSE

-----------------------------------------------------------------------------
(***************************************************************************)
(* The Bluetooth callbacks.                                                *)
(***************************************************************************)

\* How far the source runs ahead of what was played: a sink that plays at the
\* source's rate bounds it. Paced, it is what the first task reads at a time and
\* leaves room for the samples of both channels; else it is a full buffer1.
AheadOf(c) ==
  IF ~Paced THEN c.cells
  ELSE IF c.tasks[c.first].reads <= c.cells \div 2 THEN c.tasks[c.first].reads
  ELSE c.cells \div 2

Ahead == AheadOf(chain)

\* bt_a2d_sink_data_cb, up to the write. Only the last version counts packets.
Receive(n) ==
  /\ btpc = "idle"
  /\ sent + n <= MaxSent
  /\ sent + n <= played \div Growth + Ahead
  /\ ring' = [ring EXCEPT ![chain.first] =
                AfterWrite(@, [i \in 1 .. n |-> sent + i])]
  /\ sent' = sent + n
  /\ fresh' = IF fresh < chain.prebuffer THEN fresh + 1 ELSE fresh
  /\ btpc' = IF chain.prebuffer = 0 THEN "give" ELSE "test"
  /\ UNCHANGED <<sem, prebuffered, seen, given, torn, taskVars>>

\* Mutant: one packet more is waited for.
TestPrebufferedLate ==
  /\ btpc = "test"
  /\ seen' = prebuffered
  /\ btpc' = IF prebuffered > chain.prebuffer THEN "give" ELSE "count"
  /\ UNCHANGED <<ring, sem, prebuffered, sent, given, fresh, torn, taskVars>>

\* Mutant: processing starts two packets early.
TestPrebufferedEarly ==
  /\ btpc = "test"
  /\ seen' = prebuffered
  /\ btpc' = IF prebuffered >= chain.prebuffer - 2 THEN "give" ELSE "count"
  /\ UNCHANGED <<ring, sem, prebuffered, sent, given, fresh, torn, taskVars>>

TestPrebuffered ==
  /\ btpc = "test"
  /\ seen' = prebuffered
  /\ btpc' = IF prebuffered >= chain.prebuffer THEN "give" ELSE "count"
  /\ UNCHANGED <<ring, sem, prebuffered, sent, given, fresh, torn, taskVars>>

SignalNext ==
  /\ btpc = "give"
  /\ sem' = [sem EXCEPT ![chain.first] = 1]
  /\ given' = sent
  /\ btpc' = "idle"
  /\ UNCHANGED <<ring, prebuffered, seen, sent, fresh, torn, taskVars>>

\* prebuffered++ on a plain member two tasks write: the value tested may be
\* used again or be read anew.
CountPacket ==
  /\ btpc = "count"
  /\ \E v \in {seen, prebuffered} : prebuffered' = v + 1
  /\ btpc' = "idle"
  /\ UNCHANGED <<ring, sem, seen, sent, given, fresh, torn, taskVars>>

\* bt_a2d_sink_cb: a device connected or the stream (re)started. It runs in
\* another task than the data callback, which may be in the middle of a packet.
ResetPrebuffering ==
  /\ chain.prebuffer > 0
  /\ prebuffered' = 0
  /\ fresh' = 0
  /\ torn' = (btpc \in {"test", "count"})
  /\ UNCHANGED <<ring, sem, btpc, seen, sent, given, taskVars>>

-----------------------------------------------------------------------------
(***************************************************************************)
(* The tasks: take the semaphore, read, process, write on, give.           *)
(***************************************************************************)

\* Mutant: the crossover asks for a quarter of what it can hold.
ReadlenQuarter(t) ==
  IF t = Crossover THEN chain.tasks[t].reads \div 4 ELSE chain.tasks[t].reads

Readlen(t) == chain.tasks[t].reads

\* What a task hands on. The equalizer mixes and filters sample by sample;
\* the crossover makes two samples of one, left and right.
Processed(t, s) ==
  LET n     == chain.tasks[t].writes
      Of(i) == (i + n - 1) \div n
  IN [i \in 1 .. n * Len(s) |-> n * s[Of(i)] - (n * Of(i) - i)]

Wake(t) ==
  /\ pc[t] = "wait" /\ sem[t] = 1
  /\ sem' = [sem EXCEPT ![t] = 0]
  /\ pc' = [pc EXCEPT ![t] = "read"]
  /\ UNCHANGED <<ring, work, played, btVars>>

Read(t) ==
  /\ pc[t] = "read"
  /\ work' = [work EXCEPT ![t] = Delivered(ring[t], Readlen(t))]
  /\ ring' = [ring EXCEPT ![t] = AfterRead(@, Readlen(t))]
  /\ pc' = [pc EXCEPT ![t] = "write"]
  /\ UNCHANGED <<sem, played, btVars>>

\* Mutant: the crossover writes as many samples as it read.
WriteLen(t) ==
  /\ t # AudioCodec /\ pc[t] = "write"
  /\ ring' = [ring EXCEPT ![t + 1] =
                AfterWrite(@, SubSeq(Processed(t, work[t]), 1, Len(work[t])))]
  /\ work' = [work EXCEPT ![t] = <<>>]
  /\ pc' = [pc EXCEPT ![t] = "give"]
  /\ UNCHANGED <<sem, played, btVars>>

\* The equalizer and the crossover write what they made into the next buffer.
Write(t) ==
  /\ t # AudioCodec /\ pc[t] = "write"
  /\ ring' = [ring EXCEPT ![t + 1] = AfterWrite(@, Processed(t, work[t]))]
  /\ work' = [work EXCEPT ![t] = <<>>]
  /\ pc' = [pc EXCEPT ![t] = "give"]
  /\ UNCHANGED <<sem, played, btVars>>

\* They signal the next task whether or not there was anything to write.
GiveNext(t) ==
  /\ pc[t] = "give"
  /\ sem' = [sem EXCEPT ![t + 1] = 1]
  /\ pc' = [pc EXCEPT ![t] = "wait"]
  /\ UNCHANGED <<ring, work, played, btVars>>

\* The codec's i2s_write blocks until the driver has taken everything. (Up to
\* smartsound_v3 it gives up after 100 ticks, far longer than a chunk plays.)
Play ==
  /\ pc[AudioCodec] = "write"
  /\ played' = played + Len(work[AudioCodec])
  /\ work' = [work EXCEPT ![AudioCodec] = <<>>]
  /\ pc' = [pc EXCEPT ![AudioCodec] = "wait"]
  /\ UNCHANGED <<ring, sem, btVars>>

Task(t) == Wake(t) \/ Read(t) \/ Write(t) \/ GiveNext(t) \/ (t = AudioCodec /\ Play)

DataCallback == TestPrebuffered \/ SignalNext \/ CountPacket

Next ==
  \/ \E n \in Packets : Receive(n)
  \/ DataCallback
  \/ ResetPrebuffering
  \/ \E t \in Tasks : Task(t)

Spec == Init /\ [][Next]_vars

\* The tasks have the highest priority and a callback that began returns.
\* Nothing makes the phone send.
FairSpec ==
  /\ Spec
  /\ WF_vars(DataCallback)
  /\ \A t \in Tasks : WF_vars(Task(t))

-----------------------------------------------------------------------------
\* Type invariant. Positions stay inside the buffer between calls.
TypeOK ==
  /\ chain \in {Chains[v] : v \in Versions}
  /\ LET Position == 0 .. chain.cells - 1
     IN ring \in [Tasks -> [size : {chain.cells},
                           data : [Position -> 0 .. Growth * MaxSent],
                           wpos : Position, rpos : Position, newData : BOOLEAN]]
  /\ sem \in [Tasks -> {0, 1}]
  /\ pc \in [Tasks -> {"wait", "read", "write", "give"}]
  /\ \A t \in Tasks : /\ Len(work[t]) <= Readlen(t)
                      /\ \A i \in DOMAIN work[t] : work[t][i] \in 0 .. Growth * MaxSent
  /\ btpc \in {"idle", "test", "give", "count"}
  /\ prebuffered \in 0 .. chain.prebuffer /\ seen \in 0 .. chain.prebuffer
  /\ sent \in 0 .. MaxSent /\ given \in 0 .. sent
  /\ played \in Nat
  /\ fresh \in 0 .. chain.prebuffer /\ torn \in BOOLEAN

\* "It is the users responsibility to make sure that all available bytes are
\* read before a new write": no write of the chain runs over elements its
\* reader has not taken yet.
NoOverrun ==
  \A t \in {Equalizer, Crossover} :
    pc[t] = "write" =>
      Available(ring[t + 1]) + Len(Processed(t, work[t])) <= ring[t + 1].size

\* The driver gets the samples of the stream once each, in order, left and
\* right together, however the three tasks and the callback interleave.
PlaysInOrder ==
  pc[AudioCodec] = "write" =>
    work[AudioCodec] = [i \in 1 .. Len(work[AudioCodec]) |-> played + i]

Contents(t) ==
  [k \in 1 .. Available(ring[t]) |-> ring[t].data[(ring[t].rpos + k - 1) % ring[t].size]]

\* What is on its way to the codec task, oldest first and as it will arrive.
InTransit ==
  LET Out(s) == Processed(Crossover, Processed(Equalizer, s))
  IN Contents(AudioCodec)
       \o Processed(Crossover, work[Crossover] \o Contents(Crossover))
       \o Out(work[Equalizer] \o (IF chain.first = Equalizer THEN Contents(Equalizer)
                                                            ELSE <<>>))

Largest(S) == CHOOSE n \in S : \A m \in S : m <= n

Line == INSTANCE Fifo WITH
  Capacity <- Largest({GrowthOf(Chains[v]) * AheadOf(Chains[v]) : v \in Versions}),
  Request  <- Largest({Chains[v].tasks[AudioCodec].reads : v \in Versions}),
  Burst    <- 2 * Largest(Packets),
  queue    <- InTransit,
  batch    <- work[AudioCodec],
  last     <- Growth * sent

\* From its two ends the whole chain, three buffers and three tasks, is what
\* each buffer is: a FIFO queue, with as much in it as the phone is ahead. At
\* no moment is a sample lost, twice on its way or out of place.
ChainIsFifo == Line!Spec

\* "Buffer up 3 packets before processing": the callback never decides to
\* signal the equalizer before three packets of the stream were written,
\* unless the stream's start fell into the counting of a packet.
BufferedUp ==
  [][btpc = "test" /\ btpc' = "give" /\ ~ torn => fresh >= chain.prebuffer]_vars

\* No signal is lost on the way: what was in buffer1 when the callback gave
\* the semaphore is eventually played. (The source sends a bounded number of
\* packets, so there is a last give.)
GivenIsPlayed == []<>(played >= Growth * given)

AtRest ==
  /\ btpc = "idle"
  /\ \A t \in Tasks : sem[t] = 0 /\ pc[t] = "wait"

\* Nothing empties the buffers when a stream stops. When everything has come
\* to rest, what is left is in the first buffer and was never signalled: no
\* sound stays behind between the tasks, so the only old sound the next stream
\* can begin with are packets that were still being buffered up.
OnlyUnsignalledLeft ==
  AtRest =>
    /\ Available(ring[chain.first]) <= sent - given
    /\ played = Growth * (sent - Available(ring[chain.first]))
=============================================================================
