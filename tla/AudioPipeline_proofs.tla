------------------------ MODULE AudioPipeline_proofs ------------------------
(***************************************************************************)
(* Proofs about the audio chain, for every set of versions, every packet   *)
(* size and every number of packets.                                       *)
(***************************************************************************)
EXTENDS AudioPipeline, RingCalls_proofs, WellFoundedInduction

-----------------------------------------------------------------------------
(***************************************************************************)
(* Buffering up. The count never runs ahead of the packets written, though *)
(* two tasks write it, unless a reset comes between a packet and its count.*)
(***************************************************************************)

CountInv ==
  /\ chain.prebuffer \in Nat
  /\ prebuffered \in Nat /\ seen \in Nat /\ fresh \in Nat
  /\ torn \in BOOLEAN
  /\ torn = FALSE =>
       /\ prebuffered <= fresh
       /\ btpc = "test" => prebuffered < fresh \/ fresh >= chain.prebuffer
       /\ btpc = "count" => seen = prebuffered /\ prebuffered < fresh

\* The number of packets to buffer up is known in every version.
LEMMA PrebufferOfChains ==
  ASSUME NEW v \in DOMAIN Chains
  PROVE  Chains[v].prebuffer \in Nat
<1>1. /\ Chain_prototype_v3.prebuffer \in Nat
      /\ Chain_smartsound_v1.prebuffer \in Nat
      /\ Chain_smartsound_v2.prebuffer \in Nat
      /\ Chain_smartsound_v3.prebuffer \in Nat
      /\ Chain_smartsound_final.prebuffer \in Nat
  BY DEF Chain_prototype_v3, Chain_smartsound_v1, Chain_smartsound_v2,
         Chain_smartsound_v3, Chain_smartsound_final, DataCallback_prototype,
         DataCallback_v1, DataCallback_v2, DataCallback_v3, DataCallback_final
<1> QED
  BY <1>1 DEF Chains

LEMMA CountInvInit == Init => CountInv
<1> SUFFICES ASSUME Init PROVE CountInv
  OBVIOUS
<1>1. chain.prebuffer \in Nat
  BY PrebufferOfChains, PipelineAssumption DEF Init
<1>2. torn \in BOOLEAN
  BY Zenon DEF Init
<1> QED
  BY <1>1, <1>2 DEF Init, CountInv

\* What the callbacks do not touch.
LEMMA CountRests ==
  ASSUME CountInv, UNCHANGED btVars
  PROVE  CountInv'
<1>1. UNCHANGED <<chain, prebuffered, seen, fresh, btpc, torn>>
  BY Zenon DEF btVars
<1> QED
  BY <1>1, Zenon DEF CountInv

LEMMA CountInvNext == CountInv /\ [Next]_vars => CountInv'
<1> SUFFICES ASSUME CountInv, [Next]_vars PROVE CountInv'
  OBVIOUS
<1>1. ASSUME NEW n \in Packets, Receive(n) PROVE CountInv'
  <2>1. UNCHANGED <<chain, prebuffered, seen, torn>>
    BY <1>1, Zenon DEF Receive, taskVars
  <2>2. /\ fresh' = IF fresh < chain.prebuffer THEN fresh + 1 ELSE fresh
        /\ btpc' \in {"give", "test"}
    BY <1>1 DEF Receive
  <2> QED
    BY <2>1, <2>2 DEF CountInv
<1>2. CASE TestPrebuffered
  <2>1. UNCHANGED <<chain, prebuffered, fresh, torn>>
    BY <1>2, Zenon DEF TestPrebuffered, taskVars
  <2>2. /\ btpc = "test" /\ seen' = prebuffered
        /\ btpc' = IF prebuffered >= chain.prebuffer THEN "give" ELSE "count"
    BY <1>2 DEF TestPrebuffered
  <2> QED
    BY <2>1, <2>2 DEF CountInv
<1>3. CASE SignalNext
  <2>1. UNCHANGED <<chain, prebuffered, seen, fresh, torn>> /\ btpc' = "idle"
    BY <1>3, Zenon DEF SignalNext, taskVars
  <2> QED
    BY <2>1 DEF CountInv
<1>4. CASE CountPacket
  <2>1. UNCHANGED <<chain, seen, fresh, torn>> /\ btpc = "count" /\ btpc' = "idle"
    BY <1>4, Zenon DEF CountPacket, taskVars
  <2>2. prebuffered' \in {seen + 1, prebuffered + 1}
    BY <1>4 DEF CountPacket
  <2> QED
    BY <2>1, <2>2 DEF CountInv
<1>5. CASE ResetPrebuffering
  <2>1. UNCHANGED <<chain, seen, btpc>> /\ prebuffered' = 0 /\ fresh' = 0
        /\ torn' = (btpc \in {"test", "count"})
    BY <1>5, Zenon DEF ResetPrebuffering, taskVars
  <2>2. CASE btpc \in {"test", "count"}
    <3>1. torn' = TRUE
      BY <2>1, <2>2, Zenon
    <3> QED
      BY <2>1, <3>1 DEF CountInv
  <2>3. CASE ~ (btpc \in {"test", "count"})
    <3>1. (btpc \in {"test", "count"}) = FALSE
      BY <2>3
    <3>2. torn' = FALSE
      BY <2>1, <3>1, Zenon
    <3> QED
      BY <2>1, <2>3, <3>2 DEF CountInv
  <2> QED
    BY <2>2, <2>3
<1>6. ASSUME NEW t \in Tasks, Task(t) PROVE CountInv'
  BY <1>6, CountRests DEF Task, Wake, Read, Write, GiveNext, Play
<1>7. CASE UNCHANGED vars
  <2>1. UNCHANGED btVars
    BY <1>7, Zenon DEF vars, btVars
  <2> QED
    BY <2>1, CountRests
<1> QED
  BY <1>1, <1>2, <1>3, <1>4, <1>5, <1>6, <1>7 DEF Next, DataCallback

\* The callback does not decide to signal the equalizer before three packets
\* were written, for every interleaving of the two Bluetooth tasks, unless a
\* stream's start falls between a packet and its count.
THEOREM Prebuffers == Spec => BufferedUp
<1>1. Init => CountInv
  BY CountInvInit
<1>2. CountInv /\ [Next]_vars => CountInv'
  BY CountInvNext
<1>3. CountInv /\ [Next]_vars =>
        [btpc = "test" /\ btpc' = "give" /\ ~ torn => fresh >= chain.prebuffer]_vars
  <2> SUFFICES ASSUME CountInv, Next, btpc = "test", btpc' = "give", ~ torn
               PROVE  fresh >= chain.prebuffer
    BY Zenon
  <2>1. torn = FALSE
    BY Zenon DEF CountInv
  <2>2. prebuffered >= chain.prebuffer
    BY DEF Next, DataCallback, Receive, TestPrebuffered, SignalNext, CountPacket,
           ResetPrebuffering, Task, Wake, Read, Write, GiveNext, Play, btVars
  <2> QED
    BY <2>1, <2>2 DEF CountInv
<1> QED
  BY <1>1, <1>2, <1>3, PTL DEF Spec, BufferedUp

-----------------------------------------------------------------------------
(***************************************************************************)
(* Order. A source that keeps its distance never has more on its way than  *)
(* every buffer of the chain holds; so no write overruns its reader, and   *)
(* what lies at each place of the chain is an interval of the stream, next *)
(* to the interval at the next place.                                      *)
(***************************************************************************)

\* What the argument needs of a version.
Holds(c) ==
  /\ c.cells \in Nat \ {0}
  /\ \A t \in Tasks : c.tasks[t].reads \in Nat /\ c.tasks[t].writes \in Nat
  /\ \/ c.first = Equalizer /\ c.tasks[Equalizer].writes = 1 /\ c.tasks[Crossover].writes = 2
     \/ c.first = AudioCodec
  /\ AheadOf(c) \in Nat /\ AheadOf(c) < c.cells /\ GrowthOf(c) * AheadOf(c) <= c.cells
  /\ GrowthOf(c) * AheadOf(c) < c.cells \/ c.tasks[AudioCodec].reads >= c.cells

LEMMA ChainsHold ==
  ASSUME Paced, NEW v \in DOMAIN Chains
  PROVE  Holds(Chains[v])
<1> USE DEF Holds, AheadOf, GrowthOf, Tasks, Equalizer, Crossover, AudioCodec
<1>1. Holds(Chain_prototype_v3)
  BY DEF Chain_prototype_v3, NoTask, AudioCodecTask_prototype
<1>2. Holds(Chain_smartsound_v1)
  BY DEF Chain_smartsound_v1, EqualizerTask_v1, CrossoverTask_v1, AudioCodecTask_v1
<1>3. Holds(Chain_smartsound_v2)
  BY DEF Chain_smartsound_v2, EqualizerTask_v2, CrossoverTask_v2, AudioCodecTask_v2
<1>4. Holds(Chain_smartsound_v3)
  BY DEF Chain_smartsound_v3, EqualizerTask_v3, CrossoverTask_v3, AudioCodecTask_v3
<1>5. Holds(Chain_smartsound_final)
  BY DEF Chain_smartsound_final, EqualizerTask_final, CrossoverTask_final,
         AudioCodecTask_final
<1>6. Chains[v] \in {Chain_prototype_v3, Chain_smartsound_v1, Chain_smartsound_v2,
                     Chain_smartsound_v3, Chain_smartsound_final}
  BY DEF Chains
<1> QED
  BY ONLY <1>1, <1>2, <1>3, <1>4, <1>5, <1>6, Zenon

\* The stream, from its front to the codec task: the last unit each place has
\* seen leave it.
FromBuffer1 == sent - Available(ring[Equalizer])
FromEqualizer == FromBuffer1 - Len(work[Equalizer])
FromBuffer2 == FromEqualizer - Available(ring[Crossover])
FromCrossover == FromBuffer2 - Len(work[Crossover])
FromBuffer3 == played + Len(work[AudioCodec])

PlacesInv ==
  /\ Holds(chain)
  /\ ring \in [Tasks -> Rings(chain.cells)]
  /\ work \in [Tasks -> Seq(Nat)]
  /\ pc \in [Tasks -> {"wait", "read", "write", "give"}]
  /\ sem \in [Tasks -> {0, 1}]
  /\ sent \in Nat /\ played \in Nat

\* A chain that begins with the codec task leaves the other tasks asleep.
AsleepInv ==
  chain.first = AudioCodec =>
    \A t \in {Equalizer, Crossover} :
      sem[t] = 0 /\ pc[t] = "wait" /\ Available(ring[t]) = 0

\* A task has something in hand only between its read and its write.
HandsInv == \A t \in Tasks : pc[t] # "write" => work[t] = <<>>

DistanceInv ==
  /\ Growth * sent <= played + Growth * Ahead
  /\ Growth * FromCrossover = FromBuffer3 + Available(ring[AudioCodec])

StreamInv ==
  /\ \A k \in 1 .. Available(ring[Equalizer]) : Unread(ring[Equalizer], k) = FromBuffer1 + k
  /\ \A k \in 1 .. Len(work[Equalizer]) : work[Equalizer][k] = FromEqualizer + k
  /\ \A k \in 1 .. Available(ring[Crossover]) : Unread(ring[Crossover], k) = FromBuffer2 + k
  /\ \A k \in 1 .. Len(work[Crossover]) : work[Crossover][k] = FromCrossover + k
  /\ \A k \in 1 .. Available(ring[AudioCodec]) : Unread(ring[AudioCodec], k) = FromBuffer3 + k
  /\ \A k \in 1 .. Len(work[AudioCodec]) : work[AudioCodec][k] = played + k

LineInv == PlacesInv /\ AsleepInv /\ HandsInv /\ DistanceInv /\ StreamInv

\* What every place holds, as numbers.
LEMMA Counts ==
  ASSUME PlacesInv
  PROVE  /\ chain.cells \in Nat \ {0} /\ Ahead \in Nat /\ Ahead < chain.cells
         /\ \A t \in Tasks : /\ ring[t] \in Rings(chain.cells) /\ work[t] \in Seq(Nat)
                             /\ Available(ring[t]) \in 0 .. chain.cells
                             /\ Len(work[t]) \in Nat
         /\ Equalizer \in Tasks /\ Crossover \in Tasks /\ AudioCodec \in Tasks
         /\ Growth = IF chain.first = AudioCodec THEN 1 ELSE 2
         /\ Growth * Ahead <= chain.cells
<1>1. /\ Holds(chain)
      /\ ring \in [Tasks -> Rings(chain.cells)]
      /\ work \in [Tasks -> Seq(Nat)]
  BY DEF PlacesInv
<1>2. /\ chain.cells \in Nat \ {0} /\ Ahead \in Nat /\ Ahead < chain.cells
      /\ Growth * Ahead <= chain.cells
  BY <1>1 DEF Holds, Ahead, Growth
<1>3. ASSUME NEW t \in Tasks
      PROVE  /\ ring[t] \in Rings(chain.cells) /\ work[t] \in Seq(Nat)
             /\ Available(ring[t]) \in 0 .. chain.cells
             /\ Len(work[t]) \in Nat
  <2>1. ring[t] \in Rings(chain.cells) /\ work[t] \in Seq(Nat)
    BY <1>1
  <2> QED
    BY <1>2, <2>1, AvailableBound
<1> QED
  BY <1>2, <1>3 DEF Tasks, Growth, GrowthOf

LEMMA LineInvInit == Paced /\ Init => LineInv
<1> SUFFICES ASSUME Paced, Init PROVE LineInv
  OBVIOUS
<1>1. Holds(chain)
  BY ChainsHold, PipelineAssumption DEF Init
<1>2. /\ chain.cells \in Nat \ {0}
      /\ \A t \in Tasks : /\ ring[t] = EmptyRing(chain.cells) /\ work[t] = <<>>
                          /\ sem[t] = 0 /\ pc[t] = "wait"
      /\ ring = [t \in Tasks |-> ring[t]] /\ sent = 0 /\ played = 0
  BY <1>1 DEF Init, Holds
<1>3. \A t \in Tasks : ring[t] \in Rings(chain.cells) /\ Available(ring[t]) = 0
  BY <1>2, EmptyIsRing
<1>4. PlacesInv
  BY <1>1, <1>2, <1>3 DEF Init, PlacesInv
<1>5. AsleepInv /\ HandsInv
  BY <1>2, <1>3 DEF AsleepInv, HandsInv, Tasks
<1>6. \A t \in Tasks : Len(work[t]) = 0
  BY <1>2
<1>7. DistanceInv
  BY <1>2, <1>3, <1>4, <1>6, Counts
     DEF DistanceInv, FromBuffer1, FromEqualizer, FromBuffer2, FromCrossover, FromBuffer3
<1>8. StreamInv
  BY <1>3, <1>6 DEF StreamInv, Tasks
<1> QED
  BY <1>4, <1>5, <1>7, <1>8 DEF LineInv

\* With the codec task alone nothing is anywhere else.
LEMMA CodecAlone ==
  ASSUME LineInv, chain.first = AudioCodec
  PROVE  /\ Available(ring[Equalizer]) = 0 /\ Len(work[Equalizer]) = 0
         /\ Available(ring[Crossover]) = 0 /\ Len(work[Crossover]) = 0
<1>1. /\ Available(ring[Equalizer]) = 0 /\ Available(ring[Crossover]) = 0
      /\ pc[Equalizer] = "wait" /\ pc[Crossover] = "wait"
  BY DEF LineInv, AsleepInv
<1>2. work[Equalizer] = <<>> /\ work[Crossover] = <<>>
  BY <1>1, Counts DEF LineInv, HandsInv
<1> QED
  BY <1>1, <1>2

\* Nowhere is more of the stream than on its whole way, and there no more than
\* the distance allows.
LEMMA OnItsWay ==
  ASSUME LineInv
  PROVE  /\ FromBuffer1 \in Int /\ FromEqualizer \in Int /\ FromBuffer2 \in Int
         /\ FromCrossover \in Nat /\ FromBuffer3 \in Nat
         /\ FromCrossover <= FromBuffer2 /\ FromBuffer2 <= FromEqualizer
         /\ FromEqualizer <= FromBuffer1 /\ FromBuffer1 <= sent /\ played <= FromBuffer3
         /\ chain.first # AudioCodec =>
              /\ 2 * FromCrossover = FromBuffer3 + Available(ring[AudioCodec])
              /\ 2 * sent <= played + 2 * Ahead /\ 2 * Ahead <= chain.cells
         /\ chain.first = AudioCodec =>
              /\ FromCrossover = sent /\ FromBuffer1 = sent
              /\ sent = FromBuffer3 + Available(ring[AudioCodec])
              /\ sent <= played + Ahead
<1>0. PlacesInv /\ AsleepInv /\ HandsInv /\ DistanceInv
  BY DEF LineInv
<1>1. /\ sent \in Nat /\ played \in Nat /\ Ahead \in Nat /\ chain.cells \in Nat
      /\ Available(ring[Equalizer]) \in Nat /\ Len(work[Equalizer]) \in Nat
      /\ Available(ring[Crossover]) \in Nat /\ Len(work[Crossover]) \in Nat
      /\ Available(ring[AudioCodec]) \in Nat /\ Len(work[AudioCodec]) \in Nat
  BY <1>0, Counts DEF PlacesInv
<1>2. FromBuffer1 \in Int /\ FromBuffer1 <= sent
  BY <1>1 DEF FromBuffer1
<1>3. FromEqualizer \in Int /\ FromEqualizer <= FromBuffer1
  BY <1>1, <1>2 DEF FromEqualizer
<1>4. FromBuffer2 \in Int /\ FromBuffer2 <= FromEqualizer
  BY <1>1, <1>3 DEF FromBuffer2
<1>5. FromCrossover \in Int /\ FromCrossover <= FromBuffer2
  BY <1>1, <1>4 DEF FromCrossover
<1>6. FromBuffer3 \in Nat /\ played <= FromBuffer3
  BY <1>1 DEF FromBuffer3
<1>7. CASE chain.first # AudioCodec
  <2>1. Growth = 2
    BY <1>0, <1>7, Counts, Zenon
  <2>2. /\ 2 * sent <= played + 2 * Ahead /\ 2 * Ahead <= chain.cells
        /\ 2 * FromCrossover = FromBuffer3 + Available(ring[AudioCodec])
    BY <1>0, <2>1, Counts, Zenon DEF DistanceInv
  <2>3. FromCrossover \in Nat
    BY <1>1, <1>5, <1>6, <2>2
  <2> QED
    BY <1>2, <1>3, <1>4, <1>5, <1>6, <1>7, <2>2, <2>3, Zenon
<1>8. CASE chain.first = AudioCodec
  <2>1. Growth = 1
    BY <1>0, <1>8, Counts, Zenon
  <2>2. 1 * sent <= played + 1 * Ahead
        /\ 1 * FromCrossover = FromBuffer3 + Available(ring[AudioCodec])
    BY <1>0, <2>1, Zenon DEF DistanceInv
  <2>3. /\ Available(ring[Equalizer]) = 0 /\ Len(work[Equalizer]) = 0
        /\ Available(ring[Crossover]) = 0 /\ Len(work[Crossover]) = 0
    BY <1>8, CodecAlone
  <2>6. FromCrossover = sent /\ FromBuffer1 = sent
    BY <1>1, <2>3 DEF FromCrossover, FromBuffer2, FromEqualizer, FromBuffer1
  <2>7. sent <= played + Ahead /\ sent = FromBuffer3 + Available(ring[AudioCodec])
    BY <1>1, <1>6, <2>2, <2>6
  <2> QED
    BY <1>1, <1>2, <1>3, <1>4, <1>5, <1>6, <1>8, <2>6, <2>7, Zenon
<1> QED
  BY <1>7, <1>8

\* A step that moves no sound.
LEMMA SoundRests ==
  ASSUME LineInv, UNCHANGED <<chain, ring, work, sent, played>>,
         pc' \in [Tasks -> {"wait", "read", "write", "give"}], sem' \in [Tasks -> {0, 1}],
         AsleepInv', HandsInv'
  PROVE  LineInv'
<1>1. PlacesInv'
  BY DEF LineInv, PlacesInv
<1>2. DistanceInv'
  BY DEF LineInv, DistanceInv, FromCrossover, FromBuffer2, FromEqualizer, FromBuffer1,
         FromBuffer3, Growth, Ahead
<1>3. StreamInv'
  BY DEF LineInv, StreamInv, FromCrossover, FromBuffer2, FromEqualizer, FromBuffer1,
         FromBuffer3
<1> QED
  BY <1>1, <1>2, <1>3 DEF LineInv

\* A step that changes a semaphore or the place a task is at.
LEMMA SignalsOrder ==
  ASSUME LineInv, \/ SignalNext \/ \E t \in Tasks : Wake(t) \/ GiveNext(t)
  PROVE  LineInv'
<1> USE DEF Tasks, Equalizer, Crossover, AudioCodec
<1>0. PlacesInv /\ AsleepInv /\ HandsInv
  BY DEF LineInv
<1>1. CASE SignalNext
  <2>1. UNCHANGED <<chain, ring, work, sent, played, pc>>
        /\ sem' = [sem EXCEPT ![chain.first] = 1]
    BY <1>1 DEF SignalNext, taskVars
  <2>2. AsleepInv' /\ HandsInv'
    BY <1>0, <2>1 DEF PlacesInv, AsleepInv, HandsInv
  <2>3. pc' \in [Tasks -> {"wait", "read", "write", "give"}] /\ sem' \in [Tasks -> {0, 1}]
    BY <1>0, <2>1 DEF PlacesInv
  <2> QED
    BY <2>1, <2>2, <2>3, SoundRests
<1>2. ASSUME NEW t \in Tasks, Wake(t) PROVE LineInv'
  <2>1. /\ UNCHANGED <<chain, ring, work, sent, played>>
        /\ pc[t] = "wait" /\ sem[t] = 1
        /\ sem' = [sem EXCEPT ![t] = 0] /\ pc' = [pc EXCEPT ![t] = "read"]
    BY <1>2 DEF Wake, btVars
  <2>2. AsleepInv' /\ HandsInv'
    BY <1>0, <2>1 DEF PlacesInv, AsleepInv, HandsInv
  <2>3. pc' \in [Tasks -> {"wait", "read", "write", "give"}] /\ sem' \in [Tasks -> {0, 1}]
    BY <1>0, <2>1 DEF PlacesInv
  <2> QED
    BY <2>1, <2>2, <2>3, SoundRests
<1>3. ASSUME NEW t \in Tasks, GiveNext(t) PROVE LineInv'
  <2>1. /\ UNCHANGED <<chain, ring, work, sent, played>>
        /\ pc[t] = "give"
        /\ sem' = [sem EXCEPT ![t + 1] = 1] /\ pc' = [pc EXCEPT ![t] = "wait"]
    BY <1>3 DEF GiveNext, btVars
  <2>2. AsleepInv' /\ HandsInv'
    BY <1>0, <2>1 DEF PlacesInv, AsleepInv, HandsInv
  <2>3. pc' \in [Tasks -> {"wait", "read", "write", "give"}] /\ sem' \in [Tasks -> {0, 1}]
    BY <1>0, <2>1 DEF PlacesInv
  <2> QED
    BY <2>1, <2>2, <2>3, SoundRests
<1> QED
  BY <1>1, <1>2, <1>3

\* The data callback writes a packet.
LEMMA ReceiveOrder ==
  ASSUME LineInv, NEW n \in Packets, Receive(n)
  PROVE  LineInv'
<1> DEFINE f == chain.first
           s == [i \in 1 .. n |-> sent + i]
<1>0. PlacesInv /\ AsleepInv /\ HandsInv /\ DistanceInv /\ StreamInv
  BY DEF LineInv
<1>1. /\ UNCHANGED <<chain, pc, work, played, sem>> /\ sent' = sent + n
      /\ ring' = [ring EXCEPT ![f] = AfterWrite(@, s)]
      /\ sent + n <= played \div Growth + Ahead
  BY DEF Receive, taskVars
<1>2. n \in Nat \ {0} /\ sent \in Nat /\ played \in Nat /\ s \in Seq(Nat) /\ Len(s) = n
  BY <1>0, PipelineAssumption DEF PlacesInv
<1>3. /\ f \in {Equalizer, AudioCodec} /\ f \in Tasks
      /\ ring \in [Tasks -> Rings(chain.cells)]
  BY <1>0, Counts DEF PlacesInv, Holds
<1>4. Growth * (sent + n) <= played + Growth * Ahead
  BY <1>0, <1>1, <1>2, Counts
<1>5a. /\ Ahead \in Nat /\ chain.cells \in Nat /\ Ahead < chain.cells
       /\ Available(ring[Equalizer]) \in Nat /\ Len(work[Equalizer]) \in Nat
       /\ Available(ring[Crossover]) \in Nat /\ Len(work[Crossover]) \in Nat
       /\ Available(ring[AudioCodec]) \in Nat /\ Len(work[AudioCodec]) \in Nat
  BY <1>0, Counts
<1>5. Available(ring[f]) + n <= chain.cells
  <2> HIDE DEF f, s
  <2>1. CASE f = Equalizer
    <3>1. chain.first # AudioCodec
      BY <2>1 DEF Equalizer, AudioCodec, f
    <3>2. Growth = 2
      BY <1>0, <3>1, Counts, Zenon
    <3>3. 2 * (sent + n) <= played + 2 * Ahead
      BY <1>4, <3>2, Zenon
    <3>4. /\ FromCrossover <= FromBuffer1 /\ played <= 2 * FromCrossover
          /\ FromCrossover \in Int /\ FromBuffer1 \in Int /\ 2 * Ahead <= chain.cells
      <4>1. /\ FromBuffer1 \in Int /\ FromEqualizer \in Int /\ FromBuffer2 \in Int
            /\ FromCrossover \in Nat /\ FromBuffer3 \in Nat
            /\ FromCrossover <= FromBuffer2 /\ FromBuffer2 <= FromEqualizer
            /\ FromEqualizer <= FromBuffer1 /\ played <= FromBuffer3
        BY OnItsWay, Zenon
      <4>2. /\ 2 * FromCrossover = FromBuffer3 + Available(ring[AudioCodec])
            /\ 2 * Ahead <= chain.cells
        BY <3>1, OnItsWay, Zenon
      <4> QED
        BY <1>2, <1>5a, <4>1, <4>2
    <3>5. Available(ring[Equalizer]) = sent - FromBuffer1
      BY <1>2, <1>5a DEF FromBuffer1
    <3> QED
      BY <1>2, <1>5a, <2>1, <3>3, <3>4, <3>5
  <2>2. CASE f = AudioCodec
    <3>1. chain.first = AudioCodec /\ Growth = 1
      BY <1>0, <2>2, Counts, Zenon DEF f
    <3>2. 1 * (sent + n) <= played + 1 * Ahead
      BY <1>4, <3>1, Zenon
    <3>3. /\ FromBuffer3 \in Nat /\ played <= FromBuffer3
          /\ sent = FromBuffer3 + Available(ring[AudioCodec])
      BY <3>1, OnItsWay, Zenon
    <3> QED
      BY <1>2, <1>5a, <2>2, <3>2, <3>3
  <2> QED
    BY <1>3, <2>1, <2>2
<1>6. /\ AfterWrite(ring[f], s) \in Rings(chain.cells)
      /\ Available(AfterWrite(ring[f], s)) = Available(ring[f]) + n
      /\ \A k \in 1 .. Available(ring[f]) + n :
           Unread(AfterWrite(ring[f], s), k) =
             IF k <= Available(ring[f]) THEN Unread(ring[f], k)
             ELSE s[k - Available(ring[f])]
  BY <1>0, <1>2, <1>3, <1>5, Counts, WriteAdds
<1>7. ring'[f] = AfterWrite(ring[f], s) /\ \A t \in Tasks \ {f} : ring'[t] = ring[t]
  BY <1>1, <1>3
<1>8. PlacesInv'
  BY <1>0, <1>1, <1>2, <1>3, <1>6 DEF PlacesInv
<1>9. HandsInv'
  BY <1>0, <1>1 DEF HandsInv
<1> HIDE DEF f, s
<1>10. CASE f = Equalizer
  <2>1. f # AudioCodec /\ Growth' = Growth /\ Ahead' = Ahead
    BY <1>0, <1>1, <1>10 DEF Equalizer, AudioCodec, Growth, Ahead
  <2>2. /\ Available(ring'[Equalizer]) = Available(ring[Equalizer]) + n
        /\ ring'[Crossover] = ring[Crossover] /\ ring'[AudioCodec] = ring[AudioCodec]
    BY <1>6, <1>7, <1>10 DEF Tasks, Equalizer, Crossover, AudioCodec
  <2>3. /\ UNCHANGED <<FromBuffer1, FromEqualizer, FromBuffer2, FromCrossover, FromBuffer3>>
    BY <1>0, <1>1, <1>2, <2>2, Counts
       DEF FromBuffer1, FromEqualizer, FromBuffer2, FromCrossover, FromBuffer3
  <2>4. DistanceInv'
    BY <1>0, <1>1, <1>4, <2>1, <2>2, <2>3 DEF DistanceInv
  <2>5. AsleepInv'
    BY <1>1, <2>1 DEF AsleepInv, f
  <2>6. \A k \in 1 .. Available(ring'[Equalizer]) :
          Unread(ring'[Equalizer], k) = FromBuffer1' + k
    <3>1. SUFFICES ASSUME NEW k \in 1 .. Available(ring[Equalizer]) + n
                   PROVE  Unread(ring'[Equalizer], k) = FromBuffer1 + k
      BY <2>2, <2>3
    <3>2. Unread(ring'[Equalizer], k) =
            IF k <= Available(ring[Equalizer]) THEN Unread(ring[Equalizer], k)
            ELSE s[k - Available(ring[Equalizer])]
      BY <1>6, <1>7, <1>10
    <3>3. CASE k <= Available(ring[Equalizer])
      BY <1>0, <1>5a, <3>2, <3>3 DEF StreamInv
    <3>4. CASE ~ (k <= Available(ring[Equalizer]))
      <4>1. s[k - Available(ring[Equalizer])] = sent + (k - Available(ring[Equalizer]))
        BY <1>2, <1>5a, <3>4 DEF s
      <4> QED
        BY <1>2, <1>5a, <3>2, <3>4, <4>1 DEF FromBuffer1
    <3> QED
      BY <3>3, <3>4
  <2>7. StreamInv'
    BY <1>0, <1>1, <2>2, <2>3, <2>6 DEF StreamInv
  <2> QED
    BY <1>8, <1>9, <2>4, <2>5, <2>7 DEF LineInv
<1>11. CASE f = AudioCodec
  <2>1. /\ chain.first = AudioCodec /\ chain'.first = AudioCodec
        /\ Growth = 1 /\ Growth' = Growth /\ Ahead' = Ahead
    BY <1>0, <1>1, <1>11, Counts, Zenon DEF f, Growth, Ahead
  <2>2. /\ Available(ring'[AudioCodec]) = Available(ring[AudioCodec]) + n
        /\ ring'[Crossover] = ring[Crossover] /\ ring'[Equalizer] = ring[Equalizer]
    BY <1>6, <1>7, <1>11 DEF Tasks, Equalizer, Crossover, AudioCodec
  <2>3. /\ Available(ring[Equalizer]) = 0 /\ Len(work[Equalizer]) = 0
        /\ Available(ring[Crossover]) = 0 /\ Len(work[Crossover]) = 0
    BY <2>1, CodecAlone
  <2>4. UNCHANGED FromBuffer3 /\ FromCrossover' = sent'
    BY <1>0, <1>1, <1>2, <2>2, <2>3, Counts
       DEF FromBuffer1, FromEqualizer, FromBuffer2, FromCrossover, FromBuffer3
  <2>5. /\ FromBuffer3 \in Nat /\ sent = FromBuffer3 + Available(ring[AudioCodec])
    BY <2>1, OnItsWay, Zenon
  <2>6. DistanceInv'
    <3>1. 1 * (sent + n) <= played + 1 * Ahead
      BY <1>4, <2>1, Zenon
    <3>2. 1 * FromCrossover' = FromBuffer3' + Available(ring'[AudioCodec])
      BY <1>1, <1>2, <1>5a, <2>2, <2>4, <2>5
    <3> QED
      BY <1>1, <2>1, <3>1, <3>2, Zenon DEF DistanceInv
  <2>7. AsleepInv'
    BY <1>0, <1>1, <2>1, <2>2 DEF AsleepInv
  <2>8. \A k \in 1 .. Available(ring'[AudioCodec]) :
          Unread(ring'[AudioCodec], k) = FromBuffer3' + k
    <3>1. SUFFICES ASSUME NEW k \in 1 .. Available(ring[AudioCodec]) + n
                   PROVE  Unread(ring'[AudioCodec], k) = FromBuffer3 + k
      BY <2>2, <2>4
    <3>2. Unread(ring'[AudioCodec], k) =
            IF k <= Available(ring[AudioCodec]) THEN Unread(ring[AudioCodec], k)
            ELSE s[k - Available(ring[AudioCodec])]
      BY <1>6, <1>7, <1>11
    <3>3. CASE k <= Available(ring[AudioCodec])
      BY <1>0, <1>5a, <3>2, <3>3 DEF StreamInv
    <3>4. CASE ~ (k <= Available(ring[AudioCodec]))
      <4>1. s[k - Available(ring[AudioCodec])] = sent + (k - Available(ring[AudioCodec]))
        BY <1>2, <1>5a, <3>4 DEF s
      <4> QED
        BY <1>2, <1>5a, <2>5, <3>2, <3>4, <4>1
    <3> QED
      BY <3>3, <3>4
  <2>9. StreamInv'
    BY <1>0, <1>1, <2>2, <2>3, <2>8 DEF StreamInv
  <2> QED
    BY <1>8, <1>9, <2>6, <2>7, <2>9 DEF LineInv
<1> QED
  BY <1>3, <1>10, <1>11

LEMMA LargerBound ==
  ASSUME NEW g \in {1, 2}, NEW s \in Nat, NEW p \in Nat, NEW a \in Nat, NEW l \in Nat,
         g * s <= p + g * a
  PROVE  g * s <= (p + l) + g * a
<1>1. CASE g = 1
  BY <1>1
<1>2. CASE g = 2
  BY <1>2
<1> QED
  BY <1>1, <1>2

\* The codec hands on what it read.
LEMMA PlayOrder ==
  ASSUME LineInv, Play
  PROVE  LineInv'
<1>0. PlacesInv /\ AsleepInv /\ HandsInv /\ DistanceInv /\ StreamInv
  BY DEF LineInv
<1>1. /\ UNCHANGED <<chain, ring, sem, sent>> /\ played' = played + Len(work[AudioCodec])
      /\ work' = [work EXCEPT ![AudioCodec] = <<>>]
      /\ pc' = [pc EXCEPT ![AudioCodec] = "wait"]
  BY DEF Play, btVars
<1>2. /\ played \in Nat /\ sent \in Nat /\ Len(work[AudioCodec]) \in Nat /\ Ahead \in Nat
      /\ Growth \in {1, 2} /\ Growth' = Growth /\ Ahead' = Ahead
  BY <1>0, <1>1, Counts DEF PlacesInv, Growth, Ahead
<1>3. /\ work'[AudioCodec] = <<>> /\ Len(work'[AudioCodec]) = 0
      /\ work'[Equalizer] = work[Equalizer] /\ work'[Crossover] = work[Crossover]
  BY <1>0, <1>1 DEF PlacesInv, Tasks, Equalizer, Crossover, AudioCodec
<1>4. PlacesInv'
  BY <1>0, <1>1, <1>2 DEF PlacesInv, Tasks, Equalizer, Crossover, AudioCodec
<1>5. AsleepInv' /\ HandsInv'
  BY <1>0, <1>1 DEF PlacesInv, AsleepInv, HandsInv, Tasks, Equalizer, Crossover, AudioCodec
<1>6. UNCHANGED <<FromBuffer1, FromEqualizer, FromBuffer2, FromCrossover, FromBuffer3>>
  BY <1>1, <1>2, <1>3
     DEF FromBuffer1, FromEqualizer, FromBuffer2, FromCrossover, FromBuffer3
<1>7. DistanceInv'
  <2>1. Growth * sent <= played + Growth * Ahead
    BY <1>0 DEF DistanceInv
  <2>2. Growth * sent <= played' + Growth * Ahead
    BY <1>1, <1>2, <2>1, LargerBound
  <2>3. Growth * FromCrossover = FromBuffer3 + Available(ring[AudioCodec])
    BY <1>0 DEF DistanceInv
  <2> QED
    BY <1>1, <1>2, <1>6, <2>2, <2>3, Zenon DEF DistanceInv
<1>8. StreamInv'
  BY <1>0, <1>1, <1>3, <1>6 DEF StreamInv
<1> QED
  BY <1>4, <1>5, <1>7, <1>8 DEF LineInv

\* No read comes to the branch that misplaces a piece: no buffer but the
\* codec's can be full, and that one only if the codec asks for all of it.
LEMMA ReadsInPlace ==
  ASSUME LineInv, NEW t \in Tasks, pc[t] = "read"
  PROVE  Readlen(t) \in Nat /\ ~ Misplaces(ring[t], Readlen(t))
<1>0. PlacesInv /\ AsleepInv /\ DistanceInv /\ Holds(chain)
  BY DEF LineInv, PlacesInv
<1>1. Readlen(t) \in Nat /\ ring[t].size = chain.cells
  BY <1>0, Counts DEF Holds, Readlen, Rings, Fields
<1>2. /\ sent \in Nat /\ played \in Nat /\ Ahead \in Nat /\ chain.cells \in Nat
      /\ Ahead < chain.cells
      /\ Available(ring[Equalizer]) \in Nat /\ Len(work[Equalizer]) \in Nat
      /\ Available(ring[Crossover]) \in Nat /\ Len(work[Crossover]) \in Nat
      /\ Available(ring[AudioCodec]) \in Nat /\ Len(work[AudioCodec]) \in Nat
  BY <1>0, Counts DEF PlacesInv
<1>3. /\ FromBuffer1 \in Int /\ FromEqualizer \in Int /\ FromBuffer2 \in Int
      /\ FromCrossover \in Nat /\ FromBuffer3 \in Nat
      /\ FromCrossover <= FromBuffer2 /\ FromBuffer2 <= FromEqualizer
      /\ FromEqualizer <= FromBuffer1 /\ FromBuffer1 <= sent /\ played <= FromBuffer3
  BY OnItsWay, Zenon
<1>4. CASE t = AudioCodec
  <2>1. CASE Readlen(t) >= chain.cells
    BY <1>1, <1>2, <2>1 DEF Misplaces
  <2>2. CASE ~ (Readlen(t) >= chain.cells)
    <3>1. Growth * Ahead < chain.cells
      BY <1>0, <1>4, <2>2 DEF Holds, Growth, Ahead, Readlen
    <3>2. CASE chain.first = AudioCodec
      <4>1. sent = FromBuffer3 + Available(ring[AudioCodec]) /\ sent <= played + Ahead
        BY <3>2, OnItsWay, Zenon
      <4> QED
        BY <1>1, <1>2, <1>3, <1>4, <4>1 DEF Misplaces
    <3>3. CASE chain.first # AudioCodec
      <4>1. /\ 2 * FromCrossover = FromBuffer3 + Available(ring[AudioCodec])
            /\ 2 * sent <= played + 2 * Ahead
        BY <3>3, OnItsWay, Zenon
      <4>2. Growth = 2
        BY <1>0, <3>3, Counts, Zenon
      <4>3. 2 * Ahead < chain.cells
        BY <3>1, <4>2, Zenon
      <4> QED
        BY <1>1, <1>2, <1>3, <1>4, <4>1, <4>3 DEF Misplaces
    <3> QED
      BY <3>2, <3>3
  <2> QED
    BY <2>1, <2>2
<1>5. CASE t # AudioCodec
  <2>1. t \in {Equalizer, Crossover}
    BY <1>5 DEF Tasks
  <2>2. chain.first # AudioCodec
    BY <1>0, <2>1 DEF AsleepInv
  <2>3. /\ 2 * FromCrossover = FromBuffer3 + Available(ring[AudioCodec])
        /\ 2 * sent <= played + 2 * Ahead
    BY <2>2, OnItsWay, Zenon
  <2>4. sent - FromCrossover <= Ahead
    BY <1>2, <1>3, <2>3
  <2>5. /\ Available(ring[Equalizer]) = sent - FromBuffer1
        /\ Available(ring[Crossover]) = FromEqualizer - FromBuffer2
    BY <1>2, <1>3 DEF FromBuffer1, FromBuffer2
  <2> QED
    BY <1>1, <1>2, <1>3, <2>1, <2>4, <2>5 DEF Misplaces
<1> QED
  BY <1>1, <1>4, <1>5

\* A task reads: what was first in its buffer is in its hands.
LEMMA ReadOrder ==
  ASSUME LineInv, NEW t \in Tasks, Read(t)
  PROVE  LineInv'
<1> DEFINE n == Readlen(t)
           l == Length(ring[t], n)
<1>0. PlacesInv /\ AsleepInv /\ HandsInv /\ DistanceInv /\ StreamInv
  BY DEF LineInv
<1>1. /\ UNCHANGED <<chain, sem, sent, played>> /\ pc[t] = "read"
      /\ work' = [work EXCEPT ![t] = Delivered(ring[t], n)]
      /\ ring' = [ring EXCEPT ![t] = AfterRead(@, n)]
      /\ pc' = [pc EXCEPT ![t] = "write"]
  BY DEF Read, btVars
<1>2. n \in Nat /\ ~ Misplaces(ring[t], n)
  BY <1>1, ReadsInPlace
<1>3. ring[t] \in Rings(chain.cells) /\ chain.cells \in Nat \ {0}
  BY <1>0, Counts
<1> HIDE DEF n
<1>4. /\ AfterRead(ring[t], n) \in Rings(chain.cells)
      /\ l \in 0 .. Available(ring[t])
      /\ Available(AfterRead(ring[t], n)) = Available(ring[t]) - l
      /\ \A k \in 1 .. Available(ring[t]) - l :
           Unread(AfterRead(ring[t], n), k) = Unread(ring[t], l + k)
  BY <1>2, <1>3, ReadTakes
<1>5. /\ Delivered(ring[t], n) = [k \in 1 .. l |-> Unread(ring[t], k)]
      /\ Delivered(ring[t], n) \in Seq(Nat) /\ Len(Delivered(ring[t], n)) = l
  BY <1>2, <1>3, ReadDelivers
<1> HIDE DEF l
<1>6. /\ ring'[t] = AfterRead(ring[t], n) /\ work'[t] = Delivered(ring[t], n)
      /\ \A u \in Tasks \ {t} : ring'[u] = ring[u] /\ work'[u] = work[u]
  BY <1>0, <1>1 DEF PlacesInv
<1>7. PlacesInv'
  BY <1>0, <1>1, <1>4, <1>5 DEF PlacesInv
<1>8. HandsInv'
  BY <1>0, <1>1, <1>6 DEF HandsInv, PlacesInv
<1>9. AsleepInv'
  BY <1>0, <1>1, <1>6 DEF AsleepInv, PlacesInv, Tasks
<1>10. /\ sent \in Nat /\ played \in Nat /\ Ahead \in Nat /\ l \in Nat
       /\ Available(ring[Equalizer]) \in Nat /\ Len(work[Equalizer]) \in Nat
       /\ Available(ring[Crossover]) \in Nat /\ Len(work[Crossover]) \in Nat
       /\ Available(ring[AudioCodec]) \in Nat /\ Len(work[AudioCodec]) \in Nat
       /\ Growth' = Growth /\ Ahead' = Ahead
  BY <1>0, <1>1, <1>4, Counts DEF PlacesInv, Growth, Ahead
<1>11. /\ work[t] = <<>> /\ Len(work[t]) = 0
  BY <1>0, <1>1 DEF HandsInv
<1>12. \A k \in 1 .. Available(ring'[t]) : Unread(ring'[t], k) = Unread(ring[t], l + k)
  BY <1>4, <1>6
<1>13. \A k \in 1 .. Len(work'[t]) : work'[t][k] = Unread(ring[t], k)
  BY <1>5, <1>6
<1>14. Available(ring'[t]) = Available(ring[t]) - l /\ Len(work'[t]) = l
  BY <1>4, <1>5, <1>6
<1>15. ASSUME NEW x \in Int,
              \A k \in 1 .. Available(ring[t]) : Unread(ring[t], k) = x + k
       PROVE  /\ \A k \in 1 .. Available(ring'[t]) : Unread(ring'[t], k) = (x + l) + k
              /\ \A k \in 1 .. Len(work'[t]) : work'[t][k] = x + k
  <2>1. ASSUME NEW k \in 1 .. Available(ring'[t])
        PROVE  Unread(ring'[t], k) = (x + l) + k
    <3>1. l + k \in 1 .. Available(ring[t]) /\ k \in Int
      BY <1>3, <1>4, <1>14, AvailableBound
    <3>2. Unread(ring'[t], k) = x + (l + k)
      BY <1>12, <1>15, <3>1
    <3> QED
      BY <1>10, <3>1, <3>2
  <2>2. ASSUME NEW k \in 1 .. Len(work'[t]) PROVE work'[t][k] = x + k
    <3>1. k \in 1 .. Available(ring[t])
      BY <1>3, <1>4, <1>14, AvailableBound
    <3> QED
      BY <1>13, <1>15, <3>1
  <2> QED
    BY <2>1, <2>2
<1>16. FromBuffer1 \in Int /\ FromEqualizer \in Int /\ FromBuffer2 \in Int /\ FromBuffer3 \in Int
  BY OnItsWay
<1>17. CASE t = Equalizer
  <2>1. UNCHANGED <<ring[Crossover], ring[AudioCodec], work[Crossover], work[AudioCodec]>>
    BY <1>6, <1>17 DEF Tasks, Equalizer, Crossover, AudioCodec
  <2>2. /\ FromBuffer1' = FromBuffer1 + l /\ FromEqualizer' = FromBuffer1
        /\ UNCHANGED <<FromEqualizer, FromBuffer2, FromCrossover, FromBuffer3>>
    BY <1>1, <1>10, <1>11, <1>14, <1>17, <2>1
       DEF FromBuffer1, FromEqualizer, FromBuffer2, FromCrossover, FromBuffer3
  <2>3. DistanceInv'
    BY <1>0, <1>1, <1>10, <2>1, <2>2, Zenon DEF DistanceInv
  <2>4. /\ \A k \in 1 .. Available(ring'[t]) : Unread(ring'[t], k) = FromBuffer1' + k
        /\ \A k \in 1 .. Len(work'[t]) : work'[t][k] = FromEqualizer' + k
    <3>1. \A k \in 1 .. Available(ring[t]) : Unread(ring[t], k) = FromBuffer1 + k
      BY <1>0, <1>17, Zenon DEF StreamInv
    <3> QED
      BY <1>15, <1>16, <2>2, <3>1, Zenon
  <2>5. StreamInv'
    BY <1>0, <1>1, <1>17, <2>1, <2>2, <2>4 DEF StreamInv
  <2> QED
    BY <1>7, <1>8, <1>9, <2>3, <2>5 DEF LineInv
<1>18. CASE t = Crossover
  <2>1. UNCHANGED <<ring[Equalizer], ring[AudioCodec], work[Equalizer], work[AudioCodec]>>
    BY <1>6, <1>18 DEF Tasks, Equalizer, Crossover, AudioCodec
  <2>2. /\ FromBuffer2' = FromBuffer2 + l /\ FromCrossover' = FromBuffer2
        /\ UNCHANGED <<FromBuffer1, FromEqualizer, FromCrossover, FromBuffer3>>
    <3>1. UNCHANGED <<FromBuffer1, FromEqualizer, FromBuffer3>>
      BY <1>1, <2>1, Zenon DEF FromBuffer1, FromEqualizer, FromBuffer3
    <3>2. /\ Available(ring'[Crossover]) = Available(ring[Crossover]) - l
          /\ Len(work'[Crossover]) = l /\ Len(work[Crossover]) = 0
      BY <1>11, <1>14, <1>18
    <3>3. FromBuffer2' = FromBuffer2 + l
      BY <1>10, <1>16, <3>1, <3>2 DEF FromBuffer2
    <3>4. FromCrossover = FromBuffer2 /\ FromCrossover' = FromBuffer2
      BY <1>10, <1>16, <3>2, <3>3 DEF FromCrossover
    <3> QED
      BY <3>1, <3>3, <3>4
  <2>3. DistanceInv'
    BY <1>0, <1>1, <1>10, <2>1, <2>2, Zenon DEF DistanceInv
  <2>4. /\ \A k \in 1 .. Available(ring'[t]) : Unread(ring'[t], k) = FromBuffer2' + k
        /\ \A k \in 1 .. Len(work'[t]) : work'[t][k] = FromCrossover' + k
    <3>1. \A k \in 1 .. Available(ring[t]) : Unread(ring[t], k) = FromBuffer2 + k
      BY <1>0, <1>18, Zenon DEF StreamInv
    <3> QED
      BY <1>15, <1>16, <2>2, <3>1, Zenon
  <2>5. StreamInv'
    BY <1>0, <1>1, <1>18, <2>1, <2>2, <2>4 DEF StreamInv
  <2> QED
    BY <1>7, <1>8, <1>9, <2>3, <2>5 DEF LineInv
<1>19. CASE t = AudioCodec
  <2>1. UNCHANGED <<ring[Equalizer], ring[Crossover], work[Equalizer], work[Crossover]>>
    BY <1>6, <1>19 DEF Tasks, Equalizer, Crossover, AudioCodec
  <2>2. /\ FromBuffer3' = FromBuffer3 + l /\ played' = FromBuffer3
        /\ UNCHANGED <<FromBuffer1, FromEqualizer, FromBuffer2, FromCrossover>>
        /\ FromBuffer3' + Available(ring'[AudioCodec]) = FromBuffer3 + Available(ring[AudioCodec])
    <3>1. UNCHANGED <<FromBuffer1, FromEqualizer, FromBuffer2, FromCrossover>>
      BY <1>1, <2>1, Zenon DEF FromBuffer1, FromEqualizer, FromBuffer2, FromCrossover
    <3>2. /\ Available(ring'[AudioCodec]) = Available(ring[AudioCodec]) - l
          /\ Len(work'[AudioCodec]) = l /\ Len(work[AudioCodec]) = 0
      BY <1>11, <1>14, <1>19
    <3>3. FromBuffer3 = played /\ FromBuffer3' = played + l
      BY <1>1, <1>10, <3>2 DEF FromBuffer3
    <3> QED
      BY <1>1, <1>10, <3>1, <3>2, <3>3
  <2>3. DistanceInv'
    BY <1>0, <1>1, <1>10, <2>1, <2>2, Zenon DEF DistanceInv
  <2>4. /\ \A k \in 1 .. Available(ring'[t]) : Unread(ring'[t], k) = FromBuffer3' + k
        /\ \A k \in 1 .. Len(work'[t]) : work'[t][k] = played' + k
    <3>1. \A k \in 1 .. Available(ring[t]) : Unread(ring[t], k) = FromBuffer3 + k
      BY <1>0, <1>19, Zenon DEF StreamInv
    <3> QED
      BY <1>15, <1>16, <2>2, <3>1, Zenon
  <2>5. StreamInv'
    BY <1>0, <1>1, <1>19, <2>1, <2>2, <2>4 DEF StreamInv
  <2> QED
    BY <1>7, <1>8, <1>9, <2>3, <2>5 DEF LineInv
<1> QED
  BY <1>17, <1>18, <1>19 DEF Tasks

-----------------------------------------------------------------------------
(***************************************************************************)
(* The equalizer and the crossover hand on.                                *)
(***************************************************************************)

\* The equalizer makes one sample of one.
LEMMA EqualizerMakes ==
  ASSUME chain.tasks[Equalizer].writes = 1, NEW s \in Seq(Nat)
  PROVE  Processed(Equalizer, s) = s
<1>1. \A i \in 1 .. Len(s) : (i + 1 - 1) \div 1 = i
  OBVIOUS
<1>2. \A i \in 1 .. Len(s) : 1 * s[i] - (1 * i - i) = s[i]
  OBVIOUS
<1>3. Processed(Equalizer, s) = [i \in 1 .. 1 * Len(s) |-> 1 * s[(i + 1 - 1) \div 1] - (1 * ((i + 1 - 1) \div 1) - i)]
  BY Zenon DEF Processed
<1> QED
  BY <1>1, <1>2, <1>3

\* The crossover makes two of one, left and right.
LEMMA CrossoverMakes ==
  ASSUME chain.tasks[Crossover].writes = 2, NEW s \in Seq(Nat), NEW x \in Nat,
         \A i \in 1 .. Len(s) : s[i] = x + i
  PROVE  /\ Processed(Crossover, s) \in Seq(Nat) /\ Len(Processed(Crossover, s)) = 2 * Len(s)
         /\ \A i \in 1 .. 2 * Len(s) : Processed(Crossover, s)[i] = 2 * x + i
<1>1. Processed(Crossover, s) =
        [i \in 1 .. 2 * Len(s) |-> 2 * s[(i + 2 - 1) \div 2] - (2 * ((i + 2 - 1) \div 2) - i)]
  BY Zenon DEF Processed
<1>2. ASSUME NEW i \in 1 .. 2 * Len(s)
      PROVE  2 * s[(i + 2 - 1) \div 2] - (2 * ((i + 2 - 1) \div 2) - i) = 2 * x + i
  <2>1. (i + 2 - 1) \div 2 \in 1 .. Len(s)
    OBVIOUS
  <2> QED
    BY <2>1
<1>3. Processed(Crossover, s) = [i \in 1 .. 2 * Len(s) |-> 2 * x + i]
  BY <1>1, <1>2
<1> QED
  BY <1>3

\* There is room for what a task has in its hands.
LEMMA RoomToWrite ==
  ASSUME LineInv, NEW t \in {Equalizer, Crossover}, pc[t] = "write"
  PROVE  /\ chain.first # AudioCodec
         /\ Processed(t, work[t]) \in Seq(Nat)
         /\ Available(ring[t + 1]) + Len(Processed(t, work[t])) <= chain.cells
<1>0. PlacesInv /\ AsleepInv /\ StreamInv /\ Holds(chain)
  BY DEF LineInv, PlacesInv
<1>1. chain.first # AudioCodec
  BY <1>0 DEF AsleepInv
<1>2. /\ sent \in Nat /\ played \in Nat /\ Ahead \in Nat /\ chain.cells \in Nat
      /\ Ahead < chain.cells
      /\ Available(ring[Equalizer]) \in Nat /\ Len(work[Equalizer]) \in Nat
      /\ Available(ring[Crossover]) \in Nat /\ Len(work[Crossover]) \in Nat
      /\ Available(ring[AudioCodec]) \in Nat /\ Len(work[AudioCodec]) \in Nat
      /\ work[Equalizer] \in Seq(Nat) /\ work[Crossover] \in Seq(Nat)
  BY <1>0, Counts DEF PlacesInv
<1>3. /\ FromBuffer1 \in Int /\ FromEqualizer \in Int /\ FromBuffer2 \in Int
      /\ FromCrossover \in Nat /\ FromBuffer3 \in Nat
      /\ FromCrossover <= FromBuffer2 /\ FromBuffer2 <= FromEqualizer
      /\ FromEqualizer <= FromBuffer1 /\ FromBuffer1 <= sent /\ played <= FromBuffer3
      /\ 2 * FromCrossover = FromBuffer3 + Available(ring[AudioCodec])
      /\ 2 * sent <= played + 2 * Ahead /\ 2 * Ahead <= chain.cells
  BY <1>1, OnItsWay, Zenon
<1>4. chain.tasks[Equalizer].writes = 1 /\ chain.tasks[Crossover].writes = 2
  BY <1>0, <1>1 DEF Holds
<1>5. CASE t = Equalizer
  <2>1. Processed(t, work[t]) = work[Equalizer] /\ t + 1 = Crossover
    BY <1>2, <1>4, <1>5, EqualizerMakes DEF Equalizer, Crossover
  <2>2. /\ Available(ring[Crossover]) = FromEqualizer - FromBuffer2
        /\ Len(work[Equalizer]) = FromBuffer1 - FromEqualizer
    BY <1>2, <1>3 DEF FromBuffer2, FromEqualizer
  <2>3. sent - FromCrossover <= Ahead
    BY <1>2, <1>3
  <2>4. Available(ring[Crossover]) + Len(work[Equalizer]) <= chain.cells
    BY <1>2, <1>3, <2>2, <2>3
  <2> QED
    BY <1>1, <1>2, <2>1, <2>4
<1>6. CASE t = Crossover
  <2>1. /\ Processed(t, work[t]) \in Seq(Nat)
        /\ Len(Processed(t, work[t])) = 2 * Len(work[Crossover]) /\ t + 1 = AudioCodec
    <3>1. \A i \in 1 .. Len(work[Crossover]) : work[Crossover][i] = FromCrossover + i
      BY <1>0 DEF StreamInv
    <3> QED
      <4>1. t + 1 = AudioCodec
        BY <1>6 DEF Crossover, AudioCodec
      <4>2. /\ Processed(Crossover, work[Crossover]) \in Seq(Nat)
            /\ Len(Processed(Crossover, work[Crossover])) = 2 * Len(work[Crossover])
        BY <1>2, <1>3, <1>4, <3>1, CrossoverMakes, Zenon
      <4> QED
        BY <1>6, <4>1, <4>2, Zenon
  <2>2. Len(work[Crossover]) = FromBuffer2 - FromCrossover
    BY <1>2, <1>3 DEF FromCrossover
  <2>3. Available(ring[AudioCodec]) + 2 * Len(work[Crossover]) <= chain.cells
    BY <1>2, <1>3, <2>2
  <2> QED
    BY <1>1, <2>1, <2>3
<1> QED
  BY <1>5, <1>6

\* A task hands on what it has and leaves every place a place.
LEMMA HandedOn ==
  ASSUME PlacesInv, NEW t \in Tasks, NEW u \in Tasks, NEW r \in Rings(chain.cells),
         ring' = [ring EXCEPT ![u] = r],
         work' = [work EXCEPT ![t] = <<>>],
         pc' = [pc EXCEPT ![t] = "give"],
         UNCHANGED <<chain, sem, sent, played>>
  PROVE  PlacesInv'
<1>1. ring' \in [Tasks -> Rings(chain.cells)]
  BY Zenon DEF PlacesInv
<1>2. work' \in [Tasks -> Seq(Nat)]
  BY DEF PlacesInv
<1>3. pc' \in [Tasks -> {"wait", "read", "write", "give"}]
  BY DEF PlacesInv
<1>4. UNCHANGED chain /\ UNCHANGED sem /\ UNCHANGED sent /\ UNCHANGED played
  OBVIOUS
<1>5. chain' = chain /\ sem' = sem /\ sent' = sent /\ played' = played
  BY <1>4
<1> QED
  BY <1>1, <1>2, <1>3, <1>5, Zenon DEF PlacesInv

\* What passes from before the crossover to behind it doubles.
LEMMA Doubles ==
  ASSUME NEW x \in Nat, NEW w \in Nat, NEW y \in Nat, NEW b \in Nat, 2 * x = y + b
  PROVE  2 * (x + w) = y + (b + 2 * w)
  OBVIOUS

\* The equalizer writes into buffer2.
LEMMA EqualizerOrder ==
  ASSUME LineInv, Write(Equalizer)
  PROVE  LineInv'
<1> DEFINE s == work[Equalizer]
           b == Available(ring[Crossover])
<1>0. PlacesInv /\ AsleepInv /\ HandsInv /\ DistanceInv /\ StreamInv
  BY DEF LineInv
<1>1. /\ UNCHANGED <<chain, sem, sent, played>> /\ pc[Equalizer] = "write"
      /\ work' = [work EXCEPT ![Equalizer] = <<>>]
      /\ ring' = [ring EXCEPT ![Equalizer + 1] = AfterWrite(@, Processed(Equalizer, s))]
      /\ pc' = [pc EXCEPT ![Equalizer] = "give"]
  BY DEF Write, btVars
<1>2. /\ chain.first # AudioCodec /\ s \in Seq(Nat) /\ Processed(Equalizer, s) = s
      /\ ring[Crossover] \in Rings(chain.cells) /\ chain.cells \in Nat \ {0}
  <2>1. chain.first # AudioCodec
    BY <1>1, RoomToWrite
  <2>2. chain.tasks[Equalizer].writes = 1
    BY <1>0, <2>1 DEF PlacesInv, Holds
  <2> QED
    BY <1>0, <2>1, <2>2, Counts, EqualizerMakes
<1>3. Equalizer + 1 = Crossover /\ b + Len(s) <= chain.cells
  <2>1. Equalizer + 1 = Crossover
    BY DEF Equalizer, Crossover
  <2> QED
    BY <1>1, <1>2, <2>1, RoomToWrite, Zenon
<1>4. /\ AfterWrite(ring[Crossover], s) \in Rings(chain.cells)
      /\ Available(AfterWrite(ring[Crossover], s)) = b + Len(s)
      /\ \A k \in 1 .. b + Len(s) :
           Unread(AfterWrite(ring[Crossover], s), k) =
             IF k <= b THEN Unread(ring[Crossover], k) ELSE s[k - b]
  BY <1>2, <1>3, WriteAdds
<1>5. /\ ring'[Crossover] = AfterWrite(ring[Crossover], s)
      /\ work'[Equalizer] = <<>>
      /\ UNCHANGED <<ring[Equalizer], ring[AudioCodec], work[Crossover], work[AudioCodec]>>
  BY <1>0, <1>1, <1>2, <1>3 DEF PlacesInv, Tasks, Equalizer, Crossover, AudioCodec
<1>6. PlacesInv'
  <2>1. ring' = [ring EXCEPT ![Crossover] = AfterWrite(ring[Crossover], s)]
    BY ONLY <1>1, <1>2, <1>3, Zenon
  <2>2. Equalizer \in Tasks /\ Crossover \in Tasks
    BY <1>0, Counts
  <2> QED
    BY <1>0, <1>1, <1>4, <2>1, <2>2, HandedOn, Zenon
<1>7. HandsInv' /\ AsleepInv'
  BY <1>0, <1>1, <1>2 DEF HandsInv, AsleepInv, PlacesInv
<1>8. /\ sent \in Nat /\ b \in Nat /\ Len(s) \in Nat /\ Len(work[Crossover]) \in Nat
      /\ Growth' = Growth /\ Ahead' = Ahead
      /\ FromBuffer1 \in Int /\ FromEqualizer \in Int /\ FromBuffer2 \in Int
  BY <1>0, <1>1, Counts, OnItsWay DEF PlacesInv, Growth, Ahead
<1>9. /\ FromBuffer1' = FromBuffer1 /\ FromEqualizer' = FromBuffer1
      /\ UNCHANGED <<FromBuffer2, FromCrossover, FromBuffer3>>
  <2>1. FromBuffer1' = FromBuffer1 /\ FromBuffer3' = FromBuffer3
    BY <1>1, <1>5, Zenon DEF FromBuffer1, FromBuffer3
  <2>2. FromEqualizer = FromBuffer1 - Len(s) /\ FromEqualizer' = FromBuffer1
    BY <1>5, <1>8, <2>1 DEF FromEqualizer
  <2>3. Available(ring'[Crossover]) = b + Len(s)
    BY <1>4, <1>5
  <2>4. FromBuffer2' = FromBuffer2
    BY <1>8, <2>2, <2>3 DEF FromBuffer2
  <2>5. FromCrossover' = FromCrossover
    BY <1>5, <2>4, Zenon DEF FromCrossover
  <2> QED
    BY <2>1, <2>2, <2>4, <2>5
<1>10. DistanceInv'
  BY <1>0, <1>1, <1>5, <1>8, <1>9, Zenon DEF DistanceInv
<1>11. ASSUME NEW k \in 1 .. Available(ring'[Crossover])
       PROVE  Unread(ring'[Crossover], k) = FromBuffer2' + k
  <2>1. k \in 1 .. b + Len(s)
    BY <1>4, <1>5
  <2>2. Unread(ring'[Crossover], k) = IF k <= b THEN Unread(ring[Crossover], k) ELSE s[k - b]
    BY <1>4, <1>5, <2>1
  <2>3. CASE k <= b
    BY <1>0, <1>8, <1>9, <2>1, <2>2, <2>3 DEF StreamInv
  <2>4. CASE ~ (k <= b)
    <3>1. k - b \in 1 .. Len(s)
      BY <1>8, <2>1, <2>4
    <3>2. s[k - b] = FromEqualizer + (k - b)
      BY <1>0, <3>1, Zenon DEF StreamInv
    <3>3. b = FromEqualizer - FromBuffer2
      BY <1>8 DEF FromBuffer2
    <3> QED
      BY <1>8, <1>9, <2>1, <2>2, <2>4, <3>2, <3>3
  <2> QED
    BY <2>3, <2>4
<1>12. StreamInv'
  BY <1>0, <1>1, <1>5, <1>9, <1>11 DEF StreamInv
<1> QED
  BY <1>6, <1>7, <1>10, <1>12 DEF LineInv

\* The crossover writes into buffer3.
LEMMA CrossoverOrder ==
  ASSUME LineInv, Write(Crossover)
  PROVE  LineInv'
<1> DEFINE s == Processed(Crossover, work[Crossover])
           b == Available(ring[AudioCodec])
<1>0. PlacesInv /\ AsleepInv /\ HandsInv /\ DistanceInv /\ StreamInv
  BY DEF LineInv
<1>1. /\ UNCHANGED <<chain, sem, sent, played>> /\ pc[Crossover] = "write"
      /\ work' = [work EXCEPT ![Crossover] = <<>>]
      /\ ring' = [ring EXCEPT ![Crossover + 1] = AfterWrite(@, s)]
      /\ pc' = [pc EXCEPT ![Crossover] = "give"]
  BY DEF Write, btVars
<1>2. /\ chain.first # AudioCodec /\ s \in Seq(Nat)
      /\ Crossover + 1 = AudioCodec /\ b + Len(s) <= chain.cells
  <2>1. Crossover + 1 = AudioCodec
    BY DEF Crossover, AudioCodec
  <2> QED
    BY <1>1, <2>1, RoomToWrite, Zenon
<1>3. /\ work[Crossover] \in Seq(Nat) /\ Len(work[Crossover]) \in Nat
      /\ ring[AudioCodec] \in Rings(chain.cells) /\ chain.cells \in Nat \ {0}
      /\ sent \in Nat /\ b \in Nat /\ Growth' = Growth /\ Ahead' = Ahead
      /\ FromBuffer2 \in Int /\ FromCrossover \in Nat /\ FromBuffer3 \in Nat
  BY <1>0, <1>1, Counts, OnItsWay DEF PlacesInv, Growth, Ahead
<1>4. Len(s) = 2 * Len(work[Crossover]) /\ \A i \in 1 .. Len(s) : s[i] = 2 * FromCrossover + i
  <2>1. chain.tasks[Crossover].writes = 2
    BY <1>0, <1>2 DEF PlacesInv, Holds
  <2>2. \A i \in 1 .. Len(work[Crossover]) : work[Crossover][i] = FromCrossover + i
    BY <1>0 DEF StreamInv
  <2> QED
    BY <1>3, <2>1, <2>2, CrossoverMakes
<1> HIDE DEF s
<1>5. /\ AfterWrite(ring[AudioCodec], s) \in Rings(chain.cells)
      /\ Available(AfterWrite(ring[AudioCodec], s)) = b + Len(s)
      /\ \A k \in 1 .. b + Len(s) :
           Unread(AfterWrite(ring[AudioCodec], s), k) =
             IF k <= b THEN Unread(ring[AudioCodec], k) ELSE s[k - b]
  BY <1>2, <1>3, WriteAdds
<1>6. /\ ring'[AudioCodec] = AfterWrite(ring[AudioCodec], s)
      /\ work'[Crossover] = <<>>
      /\ UNCHANGED <<ring[Equalizer], ring[Crossover], work[Equalizer], work[AudioCodec]>>
  BY <1>0, <1>1, <1>2 DEF PlacesInv, Tasks, Equalizer, Crossover, AudioCodec
<1>7. PlacesInv'
  <2>1. ring' = [ring EXCEPT ![AudioCodec] = AfterWrite(ring[AudioCodec], s)]
    BY ONLY <1>1, <1>2, Zenon
  <2>2. Crossover \in Tasks /\ AudioCodec \in Tasks
    BY <1>0, Counts
  <2> QED
    BY <1>0, <1>1, <1>5, <2>1, <2>2, HandedOn, Zenon
<1>8. HandsInv' /\ AsleepInv'
  BY <1>0, <1>1, <1>2 DEF HandsInv, AsleepInv, PlacesInv
<1>9. /\ UNCHANGED <<FromBuffer1, FromEqualizer, FromBuffer2, FromBuffer3>>
      /\ FromCrossover' = FromBuffer2 /\ FromBuffer2 = FromCrossover + Len(work[Crossover])
  <2>1. UNCHANGED <<FromBuffer1, FromEqualizer, FromBuffer2, FromBuffer3>>
    BY <1>1, <1>6, Zenon DEF FromBuffer1, FromEqualizer, FromBuffer2, FromBuffer3
  <2>2. FromCrossover' = FromBuffer2 /\ FromBuffer2 = FromCrossover + Len(work[Crossover])
    BY <1>3, <1>6, <2>1 DEF FromCrossover
  <2> QED
    BY <2>1, <2>2
<1>10. 2 * FromCrossover = FromBuffer3 + b
  BY <1>2, OnItsWay, Zenon
<1>11. DistanceInv'
  <2>1. Growth = 2 /\ Available(ring'[AudioCodec]) = b + Len(s)
    BY <1>0, <1>2, <1>5, <1>6, Counts, Zenon
  <2>2. 2 * FromCrossover' = FromBuffer3' + Available(ring'[AudioCodec])
    <3>1. 2 * (FromCrossover + Len(work[Crossover]))
            = FromBuffer3 + (b + 2 * Len(work[Crossover]))
      <4>1. /\ FromCrossover \in Nat /\ Len(work[Crossover]) \in Nat
            /\ FromBuffer3 \in Nat /\ b \in Nat
        BY <1>3
      <4> HIDE DEF b
      <4> QED
        BY ONLY <4>1, <1>10, Doubles
    <3> QED
      BY <1>4, <1>9, <2>1, <3>1, Zenon
  <2>3. Growth * sent <= played + Growth * Ahead
    BY <1>0 DEF DistanceInv
  <2> QED
    BY <1>1, <1>3, <2>1, <2>2, <2>3, Zenon DEF DistanceInv
<1>12. ASSUME NEW k \in 1 .. Available(ring'[AudioCodec])
       PROVE  Unread(ring'[AudioCodec], k) = FromBuffer3' + k
  <2>1. k \in 1 .. b + Len(s) /\ Len(s) \in Nat
    BY <1>2, <1>5, <1>6
  <2>2. Unread(ring'[AudioCodec], k) = IF k <= b THEN Unread(ring[AudioCodec], k) ELSE s[k - b]
    BY <1>5, <1>6, <2>1
  <2>3. CASE k <= b
    BY <1>0, <1>3, <1>9, <2>1, <2>2, <2>3 DEF StreamInv
  <2>4. CASE ~ (k <= b)
    <3>1. k - b \in 1 .. Len(s)
      BY <1>3, <2>1, <2>4
    <3>2. s[k - b] = 2 * FromCrossover + (k - b)
      BY <1>4, <3>1, Zenon
    <3> QED
      BY <1>3, <1>9, <1>10, <2>1, <2>2, <2>4, <3>2
  <2> QED
    BY <2>3, <2>4
<1>13. StreamInv'
  BY <1>0, <1>1, <1>6, <1>9, <1>12 DEF StreamInv
<1> QED
  BY <1>7, <1>8, <1>11, <1>13 DEF LineInv

LEMMA LineInvNext == LineInv /\ [Next]_vars => LineInv'
<1> SUFFICES ASSUME LineInv, [Next]_vars PROVE LineInv'
  OBVIOUS
<1>0. PlacesInv /\ AsleepInv /\ HandsInv
  BY DEF LineInv
<1>1. CASE UNCHANGED <<chain, ring, sem, pc, work, sent, played>>
  <2>1. AsleepInv' /\ HandsInv'
    BY <1>0, <1>1 DEF AsleepInv, HandsInv
  <2>2. pc' \in [Tasks -> {"wait", "read", "write", "give"}] /\ sem' \in [Tasks -> {0, 1}]
    BY <1>0, <1>1 DEF PlacesInv
  <2> QED
    BY <1>1, <2>1, <2>2, SoundRests
<1>2. CASE TestPrebuffered \/ CountPacket \/ ResetPrebuffering \/ UNCHANGED vars
  BY <1>1, <1>2 DEF TestPrebuffered, CountPacket, ResetPrebuffering, vars, taskVars
<1>3. ASSUME NEW t \in Tasks, Write(t) PROVE LineInv'
  <2>1. t = Equalizer \/ t = Crossover
    BY <1>3 DEF Write, Tasks
  <2> QED
    BY <1>3, <2>1, EqualizerOrder, CrossoverOrder
<1> QED
  BY <1>2, <1>3, ReceiveOrder, SignalsOrder, ReadOrder, PlayOrder
     DEF Next, DataCallback, Task

\* In every version, whatever the sizes of the packets and however many there
\* are, no write of the chain runs over what its reader has not taken, as long
\* as the phone keeps its distance.
THEOREM NeverOverrun == ASSUME Paced PROVE Spec => []NoOverrun
<1>1. Init => LineInv
  BY LineInvInit
<1>2. LineInv /\ [Next]_vars => LineInv'
  BY LineInvNext
<1>3. LineInv => NoOverrun
  <2> SUFFICES ASSUME LineInv, NEW t \in {Equalizer, Crossover}, pc[t] = "write"
               PROVE  Available(ring[t + 1]) + Len(Processed(t, work[t])) <= ring[t + 1].size
    BY DEF NoOverrun
  <2>1. t + 1 \in Tasks
    BY DEF Tasks, Equalizer, Crossover, AudioCodec
  <2>2. ring[t + 1].size = chain.cells
    BY <2>1, Counts DEF LineInv, Rings, Fields
  <2> QED
    BY <2>2, RoomToWrite
<1> QED
  BY <1>1, <1>2, <1>3, PTL DEF Spec

\* Under the same assumption the driver gets every sample of the stream once
\* and in order, however the tasks and the callbacks interleave.
THEOREM OrderedToTheEnd == ASSUME Paced PROVE Spec => []PlaysInOrder
<1>1. Init => LineInv
  BY LineInvInit
<1>2. LineInv /\ [Next]_vars => LineInv'
  BY LineInvNext
<1>3. LineInv => PlaysInOrder
  <2> SUFFICES ASSUME LineInv
               PROVE  work[AudioCodec] = [i \in 1 .. Len(work[AudioCodec]) |-> played + i]
    BY DEF PlaysInOrder
  <2>1. \A k \in 1 .. Len(work[AudioCodec]) : work[AudioCodec][k] = played + k
    BY DEF LineInv, StreamInv
  <2>2. work[AudioCodec] \in Seq(Nat)
    BY Counts DEF LineInv
  <2> QED
    BY <2>1, <2>2
<1> QED
  BY <1>1, <1>2, <1>3, PTL DEF Spec

-----------------------------------------------------------------------------
\* One read takes all a paced source lets come together in its buffer.
TakesAll(c) ==
  /\ c.first = Equalizer => /\ c.tasks[Equalizer].reads >= AheadOf(c)
                            /\ c.tasks[Crossover].reads >= AheadOf(c)
  /\ c.tasks[AudioCodec].reads >= GrowthOf(c) * AheadOf(c)

LEMMA ChainsTakeAll ==
  ASSUME Paced, NEW v \in DOMAIN Chains
  PROVE  TakesAll(Chains[v])
<1> USE DEF TakesAll, AheadOf, GrowthOf, Equalizer, Crossover, AudioCodec
<1>1. TakesAll(Chain_prototype_v3)
  BY DEF Chain_prototype_v3, NoTask, AudioCodecTask_prototype
<1>2. TakesAll(Chain_smartsound_v1)
  BY DEF Chain_smartsound_v1, EqualizerTask_v1, CrossoverTask_v1, AudioCodecTask_v1
<1>3. TakesAll(Chain_smartsound_v2)
  BY DEF Chain_smartsound_v2, EqualizerTask_v2, CrossoverTask_v2, AudioCodecTask_v2
<1>4. TakesAll(Chain_smartsound_v3)
  BY DEF Chain_smartsound_v3, EqualizerTask_v3, CrossoverTask_v3, AudioCodecTask_v3
<1>5. TakesAll(Chain_smartsound_final)
  BY DEF Chain_smartsound_final, EqualizerTask_final, CrossoverTask_final,
         AudioCodecTask_final
<1>6. Chains[v] \in {Chain_prototype_v3, Chain_smartsound_v1, Chain_smartsound_v2,
                     Chain_smartsound_v3, Chain_smartsound_final}
  BY DEF Chains
<1> QED
  BY ONLY <1>1, <1>2, <1>3, <1>4, <1>5, <1>6, Zenon

\* What lies in a buffer has been signalled to its reader, or will be: in the
\* first buffer all but what came since the last give of the callback.
SignalInv ==
  /\ TakesAll(chain)
  /\ given \in Nat /\ given <= sent
  /\ \/ Available(ring[chain.first]) <= sent - given
     \/ sem[chain.first] = 1 \/ pc[chain.first] = "read"
  /\ chain.first # AudioCodec =>
       /\ \/ Available(ring[Crossover]) = 0
          \/ sem[Crossover] = 1 \/ pc[Crossover] = "read" \/ pc[Equalizer] = "give"
       /\ \/ Available(ring[AudioCodec]) = 0
          \/ sem[AudioCodec] = 1 \/ pc[AudioCodec] = "read" \/ pc[Crossover] = "give"

LEMMA SignalInvInit == Paced /\ Init => SignalInv
<1> SUFFICES ASSUME Paced, Init PROVE SignalInv
  OBVIOUS
<1>1. TakesAll(chain) /\ Holds(chain)
  BY ChainsTakeAll, ChainsHold, PipelineAssumption DEF Init
<1>2. \A t \in Tasks : ring[t] = EmptyRing(chain.cells)
  BY DEF Init
<1>3. \A t \in Tasks : Available(ring[t]) = 0
  BY <1>1, <1>2, EmptyIsRing DEF Holds
<1>4. chain.first \in Tasks /\ Crossover \in Tasks /\ AudioCodec \in Tasks
  BY <1>1 DEF Holds, Tasks
<1>5. sent = 0 /\ given = 0
  BY DEF Init
<1> QED
  BY <1>1, <1>3, <1>4, <1>5 DEF SignalInv

\* A read leaves nothing behind.
LEMMA ReadLeavesNothing ==
  ASSUME LineInv, TakesAll(chain), NEW t \in Tasks, Read(t)
  PROVE  Available(ring'[t]) = 0
<1>0. PlacesInv /\ AsleepInv /\ Holds(chain)
  BY DEF LineInv, PlacesInv
<1>1. /\ pc[t] = "read" /\ ring' = [ring EXCEPT ![t] = AfterRead(@, Readlen(t))]
  BY DEF Read
<1>2. /\ Readlen(t) \in Nat /\ ring[t] \in Rings(chain.cells) /\ chain.cells \in Nat \ {0}
      /\ ring \in [Tasks -> Rings(chain.cells)]
  BY <1>0, <1>1, Counts, ReadsInPlace DEF PlacesInv
<1>3. /\ sent \in Nat /\ played \in Nat /\ Ahead \in Nat
      /\ Available(ring[Equalizer]) \in Nat /\ Len(work[Equalizer]) \in Nat
      /\ Available(ring[Crossover]) \in Nat /\ Len(work[Crossover]) \in Nat
      /\ Available(ring[AudioCodec]) \in Nat /\ Len(work[AudioCodec]) \in Nat
      /\ Available(ring[t]) \in Nat
  BY <1>0, Counts DEF PlacesInv
<1>4. /\ FromBuffer1 \in Int /\ FromEqualizer \in Int /\ FromBuffer2 \in Int
      /\ FromCrossover \in Nat /\ FromBuffer3 \in Nat
      /\ FromCrossover <= FromBuffer2 /\ FromBuffer2 <= FromEqualizer
      /\ FromEqualizer <= FromBuffer1 /\ FromBuffer1 <= sent /\ played <= FromBuffer3
  BY OnItsWay, Zenon
<1>5. Available(ring[t]) <= Readlen(t)
  <2>1. CASE chain.first = AudioCodec
    <3>1. t = AudioCodec
      BY <1>0, <1>1, <2>1 DEF AsleepInv, Tasks
    <3>2. sent = FromBuffer3 + Available(ring[AudioCodec]) /\ sent <= played + Ahead
      BY <2>1, OnItsWay, Zenon
    <3>3. Growth = 1 /\ Readlen(t) >= Growth * Ahead
      BY <1>0, <2>1, <3>1, Counts DEF TakesAll, Growth, Ahead, Readlen
    <3>4. Readlen(t) >= Ahead
      BY <1>2, <1>3, <3>3
    <3> QED
      BY <1>2, <1>3, <1>4, <3>1, <3>2, <3>4
  <2>2. CASE chain.first # AudioCodec
    <3>1. /\ 2 * FromCrossover = FromBuffer3 + Available(ring[AudioCodec])
          /\ 2 * sent <= played + 2 * Ahead
      BY <2>2, OnItsWay, Zenon
    <3>2. sent - FromCrossover <= Ahead
      BY <1>3, <1>4, <3>1
    <3>3. /\ Available(ring[Equalizer]) = sent - FromBuffer1
          /\ Available(ring[Crossover]) = FromEqualizer - FromBuffer2
      BY <1>3, <1>4 DEF FromBuffer1, FromBuffer2
    <3>4. Growth = 2 /\ chain.first = Equalizer
      BY <1>0, <2>2, Counts DEF Holds
    <3>5. CASE t = AudioCodec
      <4>1. Readlen(t) >= Growth * Ahead
        BY <3>5 DEF TakesAll, Growth, Ahead, Readlen
      <4>2. Readlen(t) >= 2 * Ahead
        BY <3>4, <4>1, Zenon
      <4>3. FromCrossover <= sent
        BY <1>3, <1>4
      <4> QED
        BY <1>2, <1>3, <1>4, <3>1, <3>5, <4>2, <4>3
    <3>6. CASE t # AudioCodec
      <4>1. Readlen(t) >= Ahead
        BY <3>4, <3>6 DEF TakesAll, Ahead, Readlen, Tasks
      <4> QED
        BY <1>2, <1>3, <1>4, <3>2, <3>3, <3>6, <4>1 DEF Tasks
    <3> QED
      BY <3>5, <3>6
  <2> QED
    BY <2>1, <2>2
<1>6. Length(ring[t], Readlen(t)) = Available(ring[t])
  BY <1>2, <1>3, <1>5 DEF Length
<1>7. Available(AfterRead(ring[t], Readlen(t))) = Available(ring[t]) - Length(ring[t], Readlen(t))
  BY <1>2, ReadTakes
<1>8. ring'[t] = AfterRead(ring[t], Readlen(t))
  BY <1>1, <1>2
<1> QED
  BY <1>3, <1>6, <1>7, <1>8

\* What comes in at one end of a line and does not go out at the other stays.
LEMMA BufferRises ==
  ASSUME NEW s \in Nat, NEW n \in Nat, NEW f \in Nat, NEW a \in Nat, NEW b \in Nat,
         s = f + a, s + n = f + b
  PROVE  b = a + n
  OBVIOUS

\* A packet adds its units to what lies in the first buffer.
LEMMA ReceiveAdds ==
  ASSUME LineInv, NEW n \in Packets, Receive(n)
  PROVE  Available(ring'[chain.first]) = Available(ring[chain.first]) + n
<1>0. /\ LineInv' /\ PlacesInv /\ PlacesInv' /\ AsleepInv
  BY ReceiveOrder DEF LineInv
<1>1. /\ UNCHANGED <<chain, pc, work, played, sem>> /\ sent' = sent + n
      /\ ring' = [ring EXCEPT ![chain.first] = AfterWrite(@, [i \in 1 .. n |-> sent + i])]
  BY DEF Receive, taskVars
<1>2. /\ n \in Nat /\ sent \in Nat /\ played \in Nat
      /\ chain.first \in {Equalizer, AudioCodec}
      /\ Available(ring[Equalizer]) \in Nat /\ Len(work[Equalizer]) \in Nat
      /\ Available(ring[Crossover]) \in Nat /\ Len(work[Crossover]) \in Nat
      /\ Available(ring[AudioCodec]) \in Nat /\ Len(work[AudioCodec]) \in Nat
  BY <1>0, <1>1, Counts, PipelineAssumption DEF PlacesInv, Holds
<1>2a. Available(ring'[Equalizer]) \in Nat /\ Available(ring'[AudioCodec]) \in Nat
  <2>1. /\ ring'[Equalizer] \in Rings(chain.cells) /\ ring'[AudioCodec] \in Rings(chain.cells)
        /\ chain.cells \in Nat \ {0}
    BY <1>0, <1>1, Counts DEF PlacesInv, Tasks, Equalizer, AudioCodec
  <2> QED
    BY <2>1, AvailableBound
<1>3. \A t \in Tasks \ {chain.first} : ring'[t] = ring[t]
  BY <1>0, <1>1 DEF PlacesInv
<1>4. CASE chain.first = AudioCodec
  <2>1. sent = FromBuffer3 + Available(ring[AudioCodec]) /\ FromBuffer3 \in Nat
    BY <1>4, OnItsWay, Zenon
  <2>2. sent' = FromBuffer3' + Available(ring'[AudioCodec])
    <3>1. Growth' * FromCrossover' = FromBuffer3' + Available(ring'[AudioCodec])
      BY <1>0 DEF LineInv, DistanceInv
    <3>2. Growth' = 1 /\ FromCrossover' = sent' /\ FromBuffer3' \in Nat
      <4>1. /\ Available(ring'[Equalizer]) = 0 /\ Available(ring'[Crossover]) = 0
            /\ Len(work[Equalizer]) = 0 /\ Len(work[Crossover]) = 0
        BY <1>0, <1>1, <1>4, CodecAlone DEF LineInv, AsleepInv
      <4>2. sent' \in Nat
        BY <1>1, <1>2
      <4>3. FromCrossover' = sent'
        BY <1>1, <4>1, <4>2 DEF FromCrossover, FromBuffer2, FromEqualizer, FromBuffer1
      <4>4. Growth' = 1
        BY <1>1, <1>4 DEF Growth, GrowthOf
      <4>5. FromBuffer3' \in Nat
        BY <1>1, <1>2 DEF FromBuffer3
      <4> QED
        BY <4>3, <4>4, <4>5
    <3>3. 1 * sent' = FromBuffer3' + Available(ring'[AudioCodec])
      BY <3>1, <3>2, Zenon
    <3> QED
      BY <1>1, <1>2, <3>3
  <2>3. FromBuffer3' = FromBuffer3
    BY <1>1 DEF FromBuffer3
  <2>4. sent' = sent + n
    BY <1>1
  <2>5. Available(ring'[AudioCodec]) = Available(ring[AudioCodec]) + n
    <3>1. sent + n = FromBuffer3 + Available(ring'[AudioCodec])
      BY <2>2, <2>3, <2>4, Zenon
    <3>2. /\ sent \in Nat /\ n \in Nat /\ FromBuffer3 \in Nat
          /\ Available(ring[AudioCodec]) \in Nat /\ Available(ring'[AudioCodec]) \in Nat
      BY <1>2, <1>2a, <2>1, Zenon
    <3> QED
      BY ONLY <2>1, <3>1, <3>2, BufferRises
  <2> QED
    BY <1>4, <2>5, Zenon
<1>5. CASE chain.first = Equalizer
  <2>1. chain.first # AudioCodec
    BY <1>5 DEF Equalizer, AudioCodec
  <2>2. ring'[Crossover] = ring[Crossover] /\ ring'[AudioCodec] = ring[AudioCodec]
    BY <1>3, <1>5 DEF Tasks, Equalizer, Crossover, AudioCodec
  <2>3. Growth = 2 /\ Growth' = 2
    BY <1>1, <2>1 DEF Growth, GrowthOf
  <2>4. 2 * FromCrossover = FromBuffer3 + Available(ring[AudioCodec])
    BY <2>1, OnItsWay, Zenon
  <2>5. 2 * FromCrossover' = FromBuffer3' + Available(ring'[AudioCodec])
    <3>1. Growth' * FromCrossover' = FromBuffer3' + Available(ring'[AudioCodec])
      BY <1>0 DEF LineInv, DistanceInv
    <3> QED
      BY <2>3, <3>1, Zenon
  <2>6. FromBuffer3' = FromBuffer3
    BY <1>1 DEF FromBuffer3
  <2>7. 2 * FromCrossover = 2 * FromCrossover'
    BY <2>2, <2>4, <2>5, <2>6, Zenon
  <2>8. /\ FromCrossover = (((sent - Available(ring[Equalizer])) - Len(work[Equalizer]))
                              - Available(ring[Crossover])) - Len(work[Crossover])
        /\ FromCrossover' = ((((sent + n) - Available(ring'[Equalizer])) - Len(work[Equalizer]))
                              - Available(ring[Crossover])) - Len(work[Crossover])
    BY <1>1, <2>2, Zenon DEF FromCrossover, FromBuffer2, FromEqualizer, FromBuffer1
  <2>9. Available(ring'[Equalizer]) = Available(ring[Equalizer]) + n
    <3>1. /\ sent \in Nat /\ n \in Nat /\ Len(work[Equalizer]) \in Nat
          /\ Available(ring[Equalizer]) \in Nat /\ Available(ring'[Equalizer]) \in Nat
          /\ Available(ring[Crossover]) \in Nat /\ Len(work[Crossover]) \in Nat
      BY <1>2, <1>2a, Zenon
    <3>2. ASSUME NEW s \in Nat, NEW m \in Nat, NEW a \in Nat, NEW b \in Nat, NEW u \in Nat,
                 NEW c \in Nat, NEW w \in Nat, NEW x, NEW y,
                 s = sent, m = n, a = Available(ring[Equalizer]), b = Available(ring'[Equalizer]),
                 u = Len(work[Equalizer]), c = Available(ring[Crossover]), w = Len(work[Crossover]),
                 x = FromCrossover, y = FromCrossover'
          PROVE  b = a + m
      <4>1. 2 * x = 2 * y
        BY <2>7, <3>2, Zenon
      <4>2. x = (((s - a) - u) - c) - w
        BY <2>8, <3>2, Zenon
      <4>3. y = ((((s + m) - b) - u) - c) - w
        BY <2>8, <3>2, Zenon
      <4> QED
        BY ONLY <4>1, <4>2, <4>3, s \in Nat, m \in Nat, a \in Nat, b \in Nat, u \in Nat, c \in Nat, w \in Nat
    <3> QED
      BY <3>1, <3>2, Zenon
  <2> QED
    BY <1>5, <2>9, Zenon
<1> QED
  BY <1>2, <1>4, <1>5

LEMMA SignalInvNext == LineInv /\ SignalInv /\ [Next]_vars => SignalInv'
<1> SUFFICES ASSUME LineInv, SignalInv, [Next]_vars PROVE SignalInv'
  OBVIOUS
<1>0. /\ PlacesInv /\ AsleepInv /\ chain.first \in {Equalizer, AudioCodec}
      /\ sent \in Nat /\ given \in Nat /\ given <= sent /\ TakesAll(chain)
      /\ \A t \in Tasks : Available(ring[t]) \in Nat
      /\ ring \in [Tasks -> Rings(chain.cells)]
      /\ pc \in [Tasks -> {"wait", "read", "write", "give"}] /\ sem \in [Tasks -> {0, 1}]
  BY Counts DEF LineInv, SignalInv, PlacesInv, Holds
<1>1. CASE UNCHANGED <<chain, ring, sem, pc, sent, given>>
  BY <1>1 DEF SignalInv
<1>2. ASSUME NEW n \in Packets, Receive(n) PROVE SignalInv'
  <2>1. /\ UNCHANGED <<chain, pc, sem, given>> /\ sent' = sent + n
        /\ ring' = [ring EXCEPT ![chain.first] = AfterWrite(@, [i \in 1 .. n |-> sent + i])]
    BY <1>2 DEF Receive, taskVars
  <2>2. n \in Nat /\ Available(ring'[chain.first]) = Available(ring[chain.first]) + n
    BY <1>2, ReceiveAdds, PipelineAssumption
  <2>3. chain.first # AudioCodec =>
          ring'[Crossover] = ring[Crossover] /\ ring'[AudioCodec] = ring[AudioCodec]
    BY <1>0, <2>1 DEF Tasks, Equalizer, Crossover, AudioCodec
  <2>4. Available(ring[chain.first]) \in Nat
    BY <1>0 DEF Tasks, Equalizer, AudioCodec
  <2> QED
    BY <1>0, <2>1, <2>2, <2>3, <2>4 DEF SignalInv
<1>3. CASE SignalNext
  <2>1. UNCHANGED <<chain, ring, sent, pc>> /\ sem' = [sem EXCEPT ![chain.first] = 1] /\ given' = sent
    BY <1>3 DEF SignalNext, taskVars
  <2> QED
    BY <1>0, <2>1 DEF SignalInv, Tasks, Equalizer, Crossover, AudioCodec
<1>4. CASE Play
  <2>1. UNCHANGED <<chain, ring, sent, given, sem>> /\ pc[AudioCodec] = "write"
        /\ pc' = [pc EXCEPT ![AudioCodec] = "wait"]
    BY <1>4 DEF Play, btVars
  <2> QED
    BY <1>0, <2>1 DEF SignalInv, Tasks, Equalizer, Crossover, AudioCodec
<1>5. ASSUME NEW t \in Tasks, Wake(t) PROVE SignalInv'
  <2>1. /\ UNCHANGED <<chain, ring, sent, given>> /\ pc[t] = "wait"
        /\ sem' = [sem EXCEPT ![t] = 0] /\ pc' = [pc EXCEPT ![t] = "read"]
    BY <1>5 DEF Wake, btVars
  <2> QED
    BY <1>0, <2>1 DEF SignalInv, Tasks, Equalizer, Crossover, AudioCodec
<1>6. ASSUME NEW t \in Tasks, GiveNext(t) PROVE SignalInv'
  <2>1. /\ UNCHANGED <<chain, ring, sent, given>> /\ pc[t] = "give"
        /\ sem' = [sem EXCEPT ![t + 1] = 1] /\ pc' = [pc EXCEPT ![t] = "wait"]
    BY <1>6 DEF GiveNext, btVars
  <2> QED
    BY <1>0, <2>1 DEF SignalInv, Tasks, Equalizer, Crossover, AudioCodec
<1>7. ASSUME NEW t \in Tasks, Read(t) PROVE SignalInv'
  <2>1. /\ UNCHANGED <<chain, sent, given, sem>> /\ pc[t] = "read"
        /\ pc' = [pc EXCEPT ![t] = "write"] /\ \A u \in Tasks \ {t} : ring'[u] = ring[u]
    BY <1>0, <1>7 DEF Read, btVars
  <2>2. Available(ring'[t]) = 0
    BY <1>0, <1>7, ReadLeavesNothing
  <2> QED
    BY <1>0, <2>1, <2>2 DEF SignalInv, Tasks, Equalizer, Crossover, AudioCodec
<1>8. ASSUME NEW t \in Tasks, Write(t) PROVE SignalInv'
  <2>1. /\ UNCHANGED <<chain, sent, given, sem>> /\ pc[t] = "write" /\ t # AudioCodec
        /\ pc' = [pc EXCEPT ![t] = "give"] /\ \A u \in Tasks \ {t + 1} : ring'[u] = ring[u]
    BY <1>0, <1>8 DEF Write, btVars
  <2>2. chain.first # AudioCodec
    BY <1>0, <2>1 DEF AsleepInv, Tasks
  <2> QED
    BY <1>0, <2>1, <2>2 DEF SignalInv, Tasks, Equalizer, Crossover, AudioCodec
<1>9. CASE TestPrebuffered \/ CountPacket \/ ResetPrebuffering \/ UNCHANGED vars
  BY <1>1, <1>9 DEF TestPrebuffered, CountPacket, ResetPrebuffering, vars, taskVars
<1> QED
  BY <1>2, <1>3, <1>4, <1>5, <1>6, <1>7, <1>8, <1>9 DEF Next, DataCallback, Task

\* Under the same assumption nothing is stranded between the tasks: when all
\* rests, what was not played is in the first buffer and was never signalled.
THEOREM NothingStranded == ASSUME Paced PROVE Spec => []OnlyUnsignalledLeft
<1>1. Init => LineInv /\ SignalInv
  BY LineInvInit, SignalInvInit
<1>2. LineInv /\ SignalInv /\ [Next]_vars => LineInv' /\ SignalInv'
  BY LineInvNext, SignalInvNext
<1>3. LineInv /\ SignalInv => OnlyUnsignalledLeft
  <2> SUFFICES ASSUME LineInv, SignalInv, AtRest
               PROVE  /\ Available(ring[chain.first]) <= sent - given
                      /\ played = Growth * (sent - Available(ring[chain.first]))
    BY DEF OnlyUnsignalledLeft
  <2>1. /\ PlacesInv /\ HandsInv /\ Equalizer \in Tasks /\ Crossover \in Tasks
        /\ AudioCodec \in Tasks /\ chain.first \in Tasks
    BY Counts DEF LineInv, PlacesInv, Holds
  <2>2. \A t \in Tasks : sem[t] = 0 /\ pc[t] = "wait" /\ Len(work[t]) = 0
    BY <2>1 DEF AtRest, HandsInv
  <2>3. Available(ring[chain.first]) <= sent - given
    BY <2>1, <2>2 DEF SignalInv
  <2>4. /\ sent \in Nat /\ played \in Nat /\ FromBuffer3 = played
        /\ Available(ring[Equalizer]) \in Nat /\ Available(ring[Crossover]) \in Nat
        /\ Available(ring[AudioCodec]) \in Nat
    BY <2>1, <2>2, Counts DEF PlacesInv, FromBuffer3
  <2>5. CASE chain.first = AudioCodec
    <3>1. sent = FromBuffer3 + Available(ring[AudioCodec])
      BY <2>5, OnItsWay, Zenon
    <3>2. Growth = 1
      BY <2>5 DEF Growth, GrowthOf
    <3>3. played = 1 * (sent - Available(ring[AudioCodec]))
      BY <2>4, <3>1
    <3> QED
      BY <2>3, <2>5, <3>2, <3>3, Zenon
  <2>6. CASE chain.first # AudioCodec
    <3>1. 2 * FromCrossover = FromBuffer3 + Available(ring[AudioCodec])
      BY <2>6, OnItsWay, Zenon
    <3>2. Growth = 2 /\ chain.first = Equalizer
      BY <2>1, <2>6 DEF Growth, GrowthOf, PlacesInv, Holds
    <3>3. Available(ring[Crossover]) = 0 /\ Available(ring[AudioCodec]) = 0
      BY <2>1, <2>2, <2>6 DEF SignalInv
    <3>4. FromCrossover = sent - Available(ring[Equalizer])
      BY <2>1, <2>2, <2>4, <3>3
         DEF FromCrossover, FromBuffer2, FromEqualizer, FromBuffer1
    <3>5. played = 2 * (sent - Available(ring[Equalizer]))
      BY <2>4, <3>1, <3>3, <3>4
    <3> QED
      BY <2>3, <3>2, <3>5, Zenon
  <2> QED
    BY <2>5, <2>6
<1> QED
  BY <1>1, <1>2, <1>3, PTL DEF Spec

-----------------------------------------------------------------------------
(***************************************************************************)
(* The chain as one queue. What LineInv says place by place makes one      *)
(* stretch of the stream of all that is on its way; the steps of the chain *)
(* then only move the ends of that stretch.                                *)
(***************************************************************************)

\* The units after a, up to b.
Stretch(a, b) == [i \in 1 .. b - a |-> a + i]

LEMMA StretchIs ==
  ASSUME NEW a \in Nat, NEW b \in Nat, a <= b
  PROVE  /\ Stretch(a, b) \in Seq(Nat) /\ Len(Stretch(a, b)) = b - a
         /\ \A i \in 1 .. b - a : Stretch(a, b)[i] = a + i
BY DEF Stretch

\* A sequence that counts on from a is a stretch.
LEMMA CountsOn ==
  ASSUME NEW s \in Seq(Nat), NEW a \in Nat, NEW b \in Nat, Len(s) = b - a,
         \A i \in 1 .. Len(s) : s[i] = a + i
  PROVE  s = Stretch(a, b)
BY DEF Stretch

LEMMA StretchesMeet ==
  ASSUME NEW a \in Nat, NEW b \in Nat, NEW c \in Nat, a <= b, b <= c
  PROVE  Stretch(a, b) \o Stretch(b, c) = Stretch(a, c)
<1> DEFINE s == Stretch(a, b)
           t == Stretch(b, c)
<1>1. /\ s \in Seq(Nat) /\ Len(s) = b - a /\ \A i \in 1 .. b - a : s[i] = a + i
      /\ t \in Seq(Nat) /\ Len(t) = c - b /\ \A i \in 1 .. c - b : t[i] = b + i
  BY StretchIs
<1> HIDE DEF s, t
<1>2. s \o t \in Seq(Nat) /\ Len(s \o t) = c - a
  BY <1>1
<1>3. ASSUME NEW i \in 1 .. c - a PROVE (s \o t)[i] = a + i
  <2>1. (s \o t)[i] = IF i <= Len(s) THEN s[i] ELSE t[i - Len(s)]
    BY <1>1, <1>3
  <2> QED
    BY <1>1, <2>1
<1>4. s \o t = Stretch(a, c)
  BY <1>2, <1>3, CountsOn
<1> QED
  BY <1>4 DEF s, t

LEMMA StretchSplit ==
  ASSUME NEW a \in Nat, NEW b \in Nat, NEW c \in Nat, a <= b, b <= c
  PROVE  /\ SubSeq(Stretch(a, c), 1, b - a) = Stretch(a, b)
         /\ SubSeq(Stretch(a, c), b - a + 1, c - a) = Stretch(b, c)
<1>1. /\ Stretch(a, c) \in Seq(Nat) /\ Len(Stretch(a, c)) = c - a
      /\ \A i \in 1 .. c - a : Stretch(a, c)[i] = a + i
  BY StretchIs
<1> DEFINE s == Stretch(a, c)
<1> HIDE DEF s
<1>2. SubSeq(s, 1, b - a) = [i \in 1 .. b - a |-> s[i]]
  BY DEF s
<1>3. SubSeq(s, b - a + 1, c - a) = [i \in 1 .. c - b |-> s[b - a + i]]
  BY DEF s
<1> QED
  BY <1>1, <1>2, <1>3 DEF s, Stretch

\* What the equalizer and the crossover make of a stretch, in a chain that has them.
LEMMA StretchProcessed ==
  ASSUME chain.tasks[Equalizer].writes = 1, chain.tasks[Crossover].writes = 2,
         NEW a \in Nat, NEW b \in Nat, a <= b
  PROVE  /\ Processed(Equalizer, Stretch(a, b)) = Stretch(a, b)
         /\ Processed(Crossover, Stretch(a, b)) = Stretch(2 * a, 2 * b)
<1>1. /\ Stretch(a, b) \in Seq(Nat) /\ Len(Stretch(a, b)) = b - a
      /\ \A i \in 1 .. Len(Stretch(a, b)) : Stretch(a, b)[i] = a + i
  BY StretchIs
<1>2. Processed(Equalizer, Stretch(a, b)) = Stretch(a, b)
  BY <1>1, EqualizerMakes
<1> DEFINE s == Stretch(a, b)
           p == Processed(Crossover, s)
<1>3. p \in Seq(Nat) /\ Len(p) = 2 * Len(s) /\ \A i \in 1 .. 2 * Len(s) : p[i] = 2 * a + i
  BY <1>1, CrossoverMakes
<1> HIDE DEF p
<1>4. Len(p) = 2 * b - 2 * a /\ 2 * a \in Nat /\ 2 * b \in Nat
  BY <1>1, <1>3
<1> HIDE DEF s
<1>5. \A i \in 1 .. Len(p) : p[i] = 2 * a + i
  BY <1>3
<1>6. p = Stretch(2 * a, 2 * b)
  BY ONLY <1>3, <1>4, <1>5, CountsOn
<1> QED
  BY <1>2, <1>6 DEF s, p

\* A task makes nothing of nothing.
LEMMA NothingProcessed ==
  ASSUME NEW t, chain.tasks[t].writes \in Nat
  PROVE  Processed(t, <<>>) = <<>>
<1> DEFINE n == chain.tasks[t].writes
<1>1. 1 .. n * Len(<<>>) = {}
  OBVIOUS
<1> QED
  BY <1>1 DEF Processed

\* What is unread in a buffer, if it counts on from a.
LEMMA ContentsCount ==
  ASSUME PlacesInv, NEW t \in Tasks, NEW a \in Nat, NEW b \in Nat,
         b = a + Available(ring[t]),
         \A k \in 1 .. Available(ring[t]) : Unread(ring[t], k) = a + k
  PROVE  Contents(t) = Stretch(a, b)
<1>1. Available(ring[t]) \in Nat
  BY Counts
<1>2. Contents(t) = [k \in 1 .. Available(ring[t]) |-> Unread(ring[t], k)]
  BY DEF Contents, Unread
<1>3. b - a = Available(ring[t])
  BY <1>1
<1> QED
  BY <1>2, <1>3 DEF Stretch

\* With nothing in hand a stretch has no length.
LEMMA NoStretch == \A a \in Nat : Stretch(a, a) = <<>>
BY DEF Stretch

\* All that is on its way to the codec task: what it has not taken yet of the
\* stream, in order.
OneStretch ==
  /\ InTransit = Stretch(FromBuffer3, Growth * sent)
  /\ FromBuffer3 \in Nat /\ Growth * sent \in Nat /\ FromBuffer3 <= Growth * sent

LEMMA InOneStretch == LineInv => OneStretch
<1> SUFFICES ASSUME LineInv
             PROVE  /\ InTransit = Stretch(FromBuffer3, Growth * sent)
                    /\ FromBuffer3 \in Nat /\ Growth * sent \in Nat
                    /\ FromBuffer3 <= Growth * sent
  BY Zenon DEF OneStretch
<1>0. PlacesInv /\ Holds(chain) /\ StreamInv
  BY DEF LineInv, PlacesInv
<1>1. /\ FromBuffer1 \in Int /\ FromEqualizer \in Int /\ FromBuffer2 \in Int
      /\ FromCrossover \in Nat /\ FromBuffer3 \in Nat
      /\ FromCrossover <= FromBuffer2 /\ FromBuffer2 <= FromEqualizer
      /\ FromEqualizer <= FromBuffer1 /\ FromBuffer1 <= sent
  BY OnItsWay, Zenon
<1>2. FromBuffer1 \in Nat /\ FromEqualizer \in Nat /\ FromBuffer2 \in Nat
  BY <1>1
<1>3. /\ sent \in Nat /\ played \in Nat
      /\ Available(ring[Equalizer]) \in Nat /\ Len(work[Equalizer]) \in Nat
      /\ Available(ring[Crossover]) \in Nat /\ Len(work[Crossover]) \in Nat
      /\ Available(ring[AudioCodec]) \in Nat
      /\ work[Equalizer] \in Seq(Nat) /\ work[Crossover] \in Seq(Nat)
      /\ Equalizer \in Tasks /\ Crossover \in Tasks /\ AudioCodec \in Tasks
  BY <1>0, Counts DEF PlacesInv
<1>4. CASE chain.first = AudioCodec
  <2>1. /\ Available(ring[Equalizer]) = 0 /\ Len(work[Equalizer]) = 0
        /\ Available(ring[Crossover]) = 0 /\ Len(work[Crossover]) = 0
    BY <1>4, CodecAlone
  <2>2. /\ sent = FromBuffer3 + Available(ring[AudioCodec]) /\ Growth = 1
    BY <1>0, <1>4, OnItsWay, Counts, Zenon
  <2>3. Growth * sent = sent /\ FromBuffer3 <= sent
    BY <1>1, <1>3, <2>2
  <2>4. work[Equalizer] = <<>> /\ work[Crossover] = <<>>
    BY <1>3, <2>1
  <2>5. Contents(Crossover) = <<>>
    BY <2>1 DEF Contents
  <2>6. Contents(AudioCodec) = Stretch(FromBuffer3, sent)
    BY <1>0, <1>1, <1>3, <2>2, ContentsCount DEF StreamInv
  <2>7. /\ Processed(Equalizer, <<>>) = <<>> /\ Processed(Crossover, <<>>) = <<>>
    BY <1>0, <1>3, NothingProcessed DEF Holds
  <2>8. chain.first # Equalizer /\ <<>> \o <<>> = <<>>
    BY <1>4 DEF Equalizer, AudioCodec
  <2>9. InTransit = (Stretch(FromBuffer3, sent) \o <<>>) \o <<>>
    BY <2>4, <2>5, <2>6, <2>7, <2>8, Zenon DEF InTransit
  <2>10. Stretch(FromBuffer3, sent) \in Seq(Nat)
    BY <1>1, <1>3, <2>3, StretchIs
  <2>11. InTransit = Stretch(FromBuffer3, sent)
    BY <2>9, <2>10
  <2> QED
    BY <1>1, <1>3, <2>3, <2>11
<1>5. CASE chain.first # AudioCodec
  <2>1. /\ chain.first = Equalizer /\ Growth = 2
        /\ chain.tasks[Equalizer].writes = 1 /\ chain.tasks[Crossover].writes = 2
    BY <1>0, <1>5, Counts DEF Holds
  <2>2. 2 * FromCrossover = FromBuffer3 + Available(ring[AudioCodec])
    BY <1>5, OnItsWay, Zenon
  <2>3. /\ work[Equalizer] = Stretch(FromEqualizer, FromBuffer1)
        /\ Contents(Equalizer) = Stretch(FromBuffer1, sent)
    <3>1. Len(work[Equalizer]) = FromBuffer1 - FromEqualizer
          /\ sent = FromBuffer1 + Available(ring[Equalizer])
      BY <1>1, <1>3 DEF FromBuffer1, FromEqualizer
    <3> QED
      BY <1>0, <1>2, <1>3, <3>1, CountsOn, ContentsCount DEF StreamInv
  <2>4. /\ work[Crossover] = Stretch(FromCrossover, FromBuffer2)
        /\ Contents(Crossover) = Stretch(FromBuffer2, FromEqualizer)
    <3>1. Len(work[Crossover]) = FromBuffer2 - FromCrossover
          /\ FromEqualizer = FromBuffer2 + Available(ring[Crossover])
      BY <1>1, <1>3 DEF FromBuffer2, FromCrossover
    <3> QED
      BY <1>0, <1>1, <1>2, <1>3, <3>1, CountsOn, ContentsCount DEF StreamInv
  <2>5. Contents(AudioCodec) = Stretch(FromBuffer3, 2 * FromCrossover)
    BY <1>0, <1>1, <1>3, <2>2, ContentsCount DEF StreamInv
  <2>6. /\ work[Equalizer] \o Contents(Equalizer) = Stretch(FromEqualizer, sent)
        /\ work[Crossover] \o Contents(Crossover) = Stretch(FromCrossover, FromEqualizer)
    <3>1. FromCrossover <= FromEqualizer /\ FromEqualizer <= sent
      BY <1>1, <1>3
    <3>2. Stretch(FromEqualizer, FromBuffer1) \o Stretch(FromBuffer1, sent)
            = Stretch(FromEqualizer, sent)
      BY ONLY <1>1, <1>2, <1>3, <3>1, StretchesMeet
    <3>3. Stretch(FromCrossover, FromBuffer2) \o Stretch(FromBuffer2, FromEqualizer)
            = Stretch(FromCrossover, FromEqualizer)
      BY ONLY <1>1, <1>2, <1>3, <3>1, StretchesMeet
    <3> QED
      BY <2>3, <2>4, <3>2, <3>3, Zenon
  <2>7. /\ FromCrossover <= FromEqualizer /\ FromEqualizer <= sent
        /\ 2 * FromCrossover \in Nat /\ 2 * FromEqualizer \in Nat /\ 2 * sent \in Nat
        /\ FromBuffer3 <= 2 * FromCrossover /\ 2 * FromCrossover <= 2 * FromEqualizer
        /\ 2 * FromEqualizer <= 2 * sent
    BY <1>1, <1>2, <1>3, <2>2
  <2>8. /\ Processed(Crossover, Stretch(FromCrossover, FromEqualizer))
             = Stretch(2 * FromCrossover, 2 * FromEqualizer)
        /\ Processed(Crossover, Processed(Equalizer, Stretch(FromEqualizer, sent)))
             = Stretch(2 * FromEqualizer, 2 * sent)
    BY <1>1, <1>2, <1>3, <2>1, <2>7, StretchProcessed
  <2>9. InTransit = (Stretch(FromBuffer3, 2 * FromCrossover)
                       \o Stretch(2 * FromCrossover, 2 * FromEqualizer))
                     \o Stretch(2 * FromEqualizer, 2 * sent)
    BY <2>1, <2>5, <2>6, <2>8, Zenon DEF InTransit
  <2>10. InTransit = Stretch(FromBuffer3, 2 * sent)
    <3>1. Stretch(FromBuffer3, 2 * FromCrossover) \o Stretch(2 * FromCrossover, 2 * FromEqualizer)
            = Stretch(FromBuffer3, 2 * FromEqualizer)
      BY ONLY <1>1, <2>7, StretchesMeet
    <3>2. FromBuffer3 <= 2 * FromEqualizer
      BY <1>1, <2>7
    <3>3. Stretch(FromBuffer3, 2 * FromEqualizer) \o Stretch(2 * FromEqualizer, 2 * sent)
            = Stretch(FromBuffer3, 2 * sent)
      BY ONLY <1>1, <2>7, <3>2, StretchesMeet
    <3> QED
      BY <2>9, <3>1, <3>3, Zenon
  <2>11. FromBuffer3 <= 2 * sent
    BY <1>1, <2>7
  <2> QED
    BY <1>1, <2>1, <2>7, <2>10, <2>11, Zenon
<1> QED
  BY <1>4, <1>5

LEMMA StaysOneStretch == LineInv' => OneStretch'
BY InOneStretch, PTL

\* A bounded set of numbers has a largest one: the least of its bounds.
LEMMA LargestIs ==
  ASSUME NEW S \in SUBSET Nat, NEW x \in S, NEW most \in Nat, \A n \in S : n <= most
  PROVE  Largest(S) \in S /\ \A n \in S : n <= Largest(S)
<1> DEFINE Bounds == {b \in Nat : \A n \in S : n <= b}
           Below == OpToRel(<, Nat)
<1>1. Bounds # {} /\ Bounds \subseteq Nat
  OBVIOUS
<1>2. IsWellFoundedOn(Below, Nat)
  BY NatLessThanWellFounded
<1>3. PICK b \in Bounds : \A c \in Bounds : ~ (<<c, b>> \in Below)
  <2> HIDE DEF Bounds, Below
  <2> QED
    BY <1>1, <1>2, WFMin
<1>4. ASSUME NEW c \in Bounds PROVE ~ (c < b)
  <2>1. c < b => <<c, b>> \in Below
    BY <1>1, Zenon DEF OpToRel
  <2> QED
    BY <1>3, <2>1, Zenon
<1>5. b \in S
  <2>1. SUFFICES ASSUME b \notin S PROVE FALSE
    OBVIOUS
  <2>2. \A n \in S : n <= b - 1
    BY <2>1
  <2>3. b - 1 \in Bounds
    BY <2>2
  <2> QED
    BY <1>4, <2>3
<1> QED
  BY <1>5 DEF Largest

\* The bounds the sound of every version keeps.
LEMMA ChainsBounded ==
  ASSUME Paced, NEW v \in Versions
  PROVE  /\ GrowthOf(Chains[v]) * AheadOf(Chains[v]) \in 0 .. 9
         /\ Chains[v].tasks[AudioCodec].reads \in 0 .. 12
<1>1. Holds(Chains[v])
  BY ChainsHold, PipelineAssumption
<1>2. Chains[v].cells <= 9 /\ Chains[v].tasks[AudioCodec].reads <= 12
  <2>1. /\ Chain_prototype_v3.cells <= 9 /\ Chain_prototype_v3.tasks[AudioCodec].reads <= 12
        /\ Chain_smartsound_v1.cells <= 9 /\ Chain_smartsound_v1.tasks[AudioCodec].reads <= 12
        /\ Chain_smartsound_v2.cells <= 9 /\ Chain_smartsound_v2.tasks[AudioCodec].reads <= 12
        /\ Chain_smartsound_v3.cells <= 9 /\ Chain_smartsound_v3.tasks[AudioCodec].reads <= 12
        /\ Chain_smartsound_final.cells <= 9
        /\ Chain_smartsound_final.tasks[AudioCodec].reads <= 12
    BY DEF Chain_prototype_v3, Chain_smartsound_v1, Chain_smartsound_v2, Chain_smartsound_v3,
           Chain_smartsound_final, AudioCodecTask_prototype, AudioCodecTask_v1,
           AudioCodecTask_v2, AudioCodecTask_v3, AudioCodecTask_final, AudioCodec
  <2>2. Chains[v] \in {Chain_prototype_v3, Chain_smartsound_v1, Chain_smartsound_v2,
                       Chain_smartsound_v3, Chain_smartsound_final}
    BY PipelineAssumption DEF Chains
  <2> QED
    BY ONLY <2>1, <2>2, Zenon
<1>3. AheadOf(Chains[v]) \in Nat /\ GrowthOf(Chains[v]) \in {1, 2}
  BY <1>1, Zenon DEF Holds, GrowthOf
<1>4. GrowthOf(Chains[v]) * AheadOf(Chains[v]) \in Nat
  BY <1>3
<1>5. /\ GrowthOf(Chains[v]) * AheadOf(Chains[v]) <= Chains[v].cells
      /\ Chains[v].cells \in Nat /\ Chains[v].tasks[AudioCodec].reads \in Nat
  BY <1>1 DEF Holds, Tasks
<1> QED
  BY <1>2, <1>4, <1>5

Capacity == Largest({GrowthOf(Chains[v]) * AheadOf(Chains[v]) : v \in Versions})
Request == Largest({Chains[v].tasks[AudioCodec].reads : v \in Versions})
Burst == 2 * Largest(Packets)

\* So the chain that runs fits into the queue, its reads into the request and
\* what comes of a packet into the burst.
OneOfThem == chain \in {Chains[v] : v \in Versions}

LEMMA LineBounds ==
  ASSUME Paced, OneOfThem
  PROVE  /\ Capacity \in Nat /\ Growth * Ahead <= Capacity
         /\ Request \in Nat /\ Readlen(AudioCodec) <= Request
         /\ Burst \in Nat /\ \A n \in Packets : 2 * n <= Burst
<1> DEFINE C == {GrowthOf(Chains[v]) * AheadOf(Chains[v]) : v \in Versions}
           R == {Chains[v].tasks[AudioCodec].reads : v \in Versions}
<1>1. Growth * Ahead \in C /\ Readlen(AudioCodec) \in R
  BY DEF OneOfThem, Growth, Ahead, Readlen
<1>2. C \subseteq 0 .. 9 /\ R \subseteq 0 .. 12
  BY ChainsBounded
<1> HIDE DEF C, R
<1>3. C \in SUBSET Nat /\ (\A n \in C : n <= 9) /\ R \in SUBSET Nat /\ (\A n \in R : n <= 12)
  BY <1>2
<1>4. Largest(C) \in C /\ \A n \in C : n <= Largest(C)
  BY <1>1, <1>3, LargestIs
<1>5. Largest(R) \in R /\ \A n \in R : n <= Largest(R)
  BY <1>1, <1>3, LargestIs
<1>6. PICK n \in Packets : \A m \in Packets : m <= n
  BY PipelineAssumption
<1>7. Packets \in SUBSET Nat /\ n \in Nat
  BY PipelineAssumption
<1>8. Largest(Packets) \in Packets /\ \A m \in Packets : m <= Largest(Packets)
  BY <1>6, <1>7, LargestIs
<1>9. Burst \in Nat /\ \A m \in Packets : 2 * m <= Burst
  <2> DEFINE big == Largest(Packets)
  <2>1. big \in Nat /\ Burst = 2 * big /\ \A m \in Packets : m \in Nat /\ m <= big
    BY <1>7, <1>8 DEF Burst
  <2> HIDE DEF big
  <2> QED
    BY <2>1
<1> QED
  BY <1>1, <1>3, <1>4, <1>5, <1>9 DEF Capacity, Request, C, R

\* What the chain does is, from its ends, what a queue does.
LEMMA LineSteps ==
  ASSUME Paced, OneOfThem, LineInv, OneOfThem', LineInv', [Next]_vars
  PROVE  [Line!Next]_(Line!vars)
<1> DEFINE a == FromBuffer3
           b == Growth * sent
<1>0. PlacesInv /\ HandsInv /\ DistanceInv /\ StreamInv
  BY DEF LineInv
<1>1. /\ InTransit = Stretch(a, b) /\ a \in Nat /\ b \in Nat /\ a <= b
      /\ InTransit' = Stretch(a', b') /\ a' \in Nat /\ b' \in Nat /\ a' <= b'
  BY InOneStretch, StaysOneStretch, Zenon DEF OneStretch
<1>2. /\ sent \in Nat /\ played \in Nat /\ work \in [Tasks -> Seq(Nat)]
      /\ Growth \in {1, 2} /\ AudioCodec \in Tasks /\ Len(work[AudioCodec]) \in Nat
      /\ Growth * Ahead \in Nat
  BY <1>0, Counts DEF PlacesInv
<1> HIDE DEF a, b
<1>3. CASE UNCHANGED <<a, b, work[AudioCodec]>>
  BY <1>1, <1>3 DEF Line!vars, b
<1>4. ASSUME NEW n \in Packets, Receive(n) PROVE Line!Put
  <2>1. /\ UNCHANGED <<chain, work, played>> /\ sent' = sent + n /\ n \in Nat \ {0}
    BY <1>4, PipelineAssumption DEF Receive, taskVars
  <2>2. a' = a /\ Growth' = Growth /\ Ahead' = Ahead /\ UNCHANGED work[AudioCodec]
    BY <2>1 DEF a, FromBuffer3, Growth, Ahead
  <2> DEFINE m == Growth * n
  <2>3. b' = b + m /\ m \in Nat \ {0} /\ m <= 2 * n
    BY <1>2, <2>1, <2>2 DEF b
  <2>4. b + m <= a + Growth * Ahead
    <3>1. Growth' * sent' <= played' + Growth' * Ahead'
      BY DEF LineInv, DistanceInv
    <3>2. b' <= played + Growth * Ahead
      BY <2>1, <2>2, <3>1, Zenon DEF b
    <3>3. played <= a
      BY <1>2 DEF a, FromBuffer3
    <3> HIDE DEF m
    <3> QED
      BY <1>1, <1>2, <2>3, <3>2, <3>3
  <2> HIDE DEF m
  <2>5. /\ Growth * Ahead <= Capacity /\ 2 * n <= Burst /\ Capacity \in Nat /\ Burst \in Nat
    BY LineBounds
  <2>6. m \in 1 .. Burst /\ Len(InTransit) + m <= Capacity
    <3>1. Len(InTransit) = b - a
      BY <1>1, StretchIs
    <3> QED
      BY <1>1, <1>2, <2>1, <2>3, <2>4, <2>5, <3>1
  <2>7. InTransit' = InTransit \o [i \in 1 .. m |-> b + i]
    <3>1. Stretch(b, b + m) = [i \in 1 .. m |-> b + i]
      BY <1>1, <2>3 DEF Stretch
    <3>2. Stretch(a, b) \o Stretch(b, b + m) = Stretch(a, b + m)
      <4>1. b <= b + m /\ b + m \in Nat
        BY <1>1, <2>3
      <4> QED
        BY ONLY <1>1, <4>1, StretchesMeet
    <3> QED
      BY <1>1, <2>2, <2>3, <3>1, <3>2, Zenon
  <2> QED
    BY <2>2, <2>3, <2>6, <2>7 DEF Line!Put, Capacity, Burst, b
<1>5. CASE Read(AudioCodec)
  <2> DEFINE w == Delivered(ring[AudioCodec], Readlen(AudioCodec))
  <2>1. /\ UNCHANGED <<chain, sent, played>> /\ pc[AudioCodec] = "read"
        /\ work' = [work EXCEPT ![AudioCodec] = w]
    BY <1>5 DEF Read, btVars
  <2>2. /\ work[AudioCodec] = <<>> /\ Len(work[AudioCodec]) = 0 /\ a = played
    <3>1. work[AudioCodec] = <<>>
      BY <1>0, <1>2, <2>1 DEF HandsInv
    <3>2. Len(work[AudioCodec]) = 0
      BY <3>1
    <3> QED
      BY <1>2, <3>1, <3>2 DEF a, FromBuffer3
  <2>3. work'[AudioCodec] = w /\ w \in Seq(Nat) /\ Len(w) <= Readlen(AudioCodec)
        /\ Readlen(AudioCodec) \in Nat
    <3>1. /\ Readlen(AudioCodec) \in Nat /\ ~ Misplaces(ring[AudioCodec], Readlen(AudioCodec))
          /\ ring[AudioCodec] \in Rings(chain.cells) /\ chain.cells \in Nat \ {0}
      BY <1>0, <1>2, <2>1, ReadsInPlace, Counts
    <3>2. /\ w \in Seq(Nat) /\ Len(w) = Length(ring[AudioCodec], Readlen(AudioCodec))
          /\ Length(ring[AudioCodec], Readlen(AudioCodec)) <= Readlen(AudioCodec)
      BY <3>1, ReadDelivers, ReadTakes
    <3> QED
      BY <1>2, <2>1, <3>1, <3>2
  <2> HIDE DEF w
  <2>4. a' = a + Len(w) /\ b' = b /\ a + Len(w) \in Nat /\ a + Len(w) <= b
    <3>1. a' = a + Len(w) /\ b' = b
      BY <2>1, <2>2, <2>3 DEF a, b, FromBuffer3, Growth
    <3> QED
      BY <1>1, <3>1
  <2>5. w = Stretch(a, a + Len(w))
    <3>1. \A k \in 1 .. Len(w) : w[k] = a + k
      <4>1. \A k \in 1 .. Len(work'[AudioCodec]) : work'[AudioCodec][k] = played' + k
        BY DEF LineInv, StreamInv
      <4> QED
        BY <2>1, <2>2, <2>3, <4>1, Zenon
    <3> QED
      BY <1>1, <2>3, <2>4, <3>1, CountsOn
  <2>6. CASE Len(w) = 0
    <3>1. w = <<>> /\ a' = a
      BY <1>1, <2>3, <2>4, <2>6
    <3> QED
      BY <1>1, <2>2, <2>3, <2>4, <3>1, Zenon DEF Line!vars, b
  <2>7. CASE Len(w) # 0
    <3>1. Len(InTransit) = b - a /\ Len(w) \in 1 .. b - a
      <4>1. Len(Stretch(a, b)) = b - a
        BY ONLY <1>1, StretchIs
      <4>2. Len(w) \in Nat
        BY <2>3
      <4> QED
        BY <1>1, <2>4, <2>7, <4>1, <4>2
    <3>2. Len(w) <= Request
      BY <2>3, LineBounds
    <3>3. /\ SubSeq(InTransit, 1, Len(w)) = w
          /\ SubSeq(InTransit, Len(w) + 1, Len(InTransit)) = InTransit'
      <4>1. (a + Len(w)) - a = Len(w)
        BY <1>1, <2>3
      <4>2. /\ SubSeq(Stretch(a, b), 1, (a + Len(w)) - a) = Stretch(a, a + Len(w))
            /\ SubSeq(Stretch(a, b), (a + Len(w)) - a + 1, b - a) = Stretch(a + Len(w), b)
        <5>1. a <= a + Len(w)
          BY <1>1, <2>3
        <5> QED
          BY ONLY <1>1, <2>4, <5>1, StretchSplit
      <4> QED
        BY <1>1, <2>4, <2>5, <3>1, <4>1, <4>2, Zenon
    <3>4. Line!TakeBatch
      BY <2>2, <2>3, <2>4, <3>1, <3>2, <3>3, Zenon DEF Line!TakeBatch, Request, b
    <3> QED
      BY <3>4, Zenon DEF Line!Next
  <2> QED
    BY <2>6, <2>7
<1>6. CASE Play
  <2>1. /\ UNCHANGED <<chain, sent>> /\ played' = played + Len(work[AudioCodec])
        /\ work' = [work EXCEPT ![AudioCodec] = <<>>]
    BY <1>6 DEF Play, btVars
  <2>2. work'[AudioCodec] = <<>> /\ Len(work'[AudioCodec]) = 0
    BY <1>2, <2>1
  <2>3. a' = a /\ b' = b
    BY <1>2, <2>1, <2>2 DEF a, b, FromBuffer3, Growth
  <2>4. Line!Finish
    BY <1>1, <2>2, <2>3, Zenon DEF Line!Finish, b
  <2> QED
    BY <2>4, Zenon DEF Line!Next
<1>7. CASE UNCHANGED <<chain, sent, played, work[AudioCodec]>>
  <2>1. UNCHANGED <<a, b, work[AudioCodec]>>
    BY <1>7 DEF a, b, FromBuffer3, Growth
  <2> QED
    BY <1>3, <2>1
<1>8. ASSUME NEW t \in Tasks, Task(t)
      PROVE  Play \/ Read(AudioCodec) \/ UNCHANGED <<chain, sent, played, work[AudioCodec]>>
  <2>1. CASE Wake(t) \/ GiveNext(t)
    BY <2>1 DEF Wake, GiveNext, btVars
  <2>2. ASSUME Read(t), t # AudioCodec
        PROVE UNCHANGED <<chain, sent, played, work[AudioCodec]>>
    BY <1>2, <2>2 DEF Read, btVars
  <2>3. ASSUME Write(t)
        PROVE UNCHANGED <<chain, sent, played, work[AudioCodec]>>
    BY <1>2, <2>3 DEF Write, btVars
  <2> QED
    BY <1>8, <2>1, <2>2, <2>3 DEF Task
<1>9. CASE DataCallback \/ ResetPrebuffering \/ UNCHANGED vars
  <2>1. UNCHANGED <<chain, sent, played, work>>
    BY <1>9 DEF DataCallback, TestPrebuffered, SignalNext, CountPacket, ResetPrebuffering,
                vars, taskVars
  <2> QED
    BY <1>7, <2>1
<1> QED
  BY <1>4, <1>5, <1>6, <1>7, <1>8, <1>9 DEF Next, Line!Next

\* The chain is a queue: seen from its two ends, every step of every version's
\* callback and tasks is a step of Fifo or none, for every packet size and
\* every number of packets, under the pacing PlaysInOrder needs.
THEOREM ChainIsQueue == ASSUME Paced PROVE Spec => ChainIsFifo
<1>1. Init => Line!Init
  <2> SUFFICES ASSUME Init PROVE Line!Init
    OBVIOUS
  <2>1. LineInv /\ sent = 0 /\ played = 0 /\ work = [t \in Tasks |-> <<>>]
    BY LineInvInit DEF Init
  <2>2. AudioCodec \in Tasks /\ Growth \in {1, 2}
    BY <2>1, Counts DEF LineInv
  <2>3. work[AudioCodec] = <<>> /\ Len(work[AudioCodec]) = 0
    BY <2>1, <2>2
  <2>4. FromBuffer3 = 0 /\ Growth * sent = 0
    BY <2>1, <2>2, <2>3 DEF FromBuffer3
  <2>5. InTransit = <<>>
    <3>1. InTransit = Stretch(FromBuffer3, Growth * sent)
      BY <2>1, InOneStretch DEF OneStretch
    <3> QED
      BY <2>4, <3>1, NoStretch
  <2> QED
    BY <2>3, <2>4, <2>5 DEF Line!Init
<1>2. Init => LineInv /\ OneOfThem
  BY LineInvInit DEF Init, OneOfThem
<1>3. LineInv /\ OneOfThem /\ [Next]_vars => LineInv' /\ OneOfThem'
  <2>1. OneOfThem /\ [Next]_vars => OneOfThem'
    <3> SUFFICES ASSUME OneOfThem, [Next]_vars PROVE OneOfThem'
      OBVIOUS
    <3>1. chain' = chain
      BY DEF Next, Receive, DataCallback, TestPrebuffered, SignalNext, CountPacket,
             ResetPrebuffering, Task, Wake, Read, Write, GiveNext, Play, taskVars, btVars, vars
    <3> QED
      BY <3>1 DEF OneOfThem
  <2> QED
    BY <2>1, LineInvNext
<1>4. LineInv /\ OneOfThem /\ LineInv' /\ OneOfThem' /\ [Next]_vars => [Line!Next]_(Line!vars)
  BY LineSteps
<1> QED
  BY <1>1, <1>2, <1>3, <1>4, PTL DEF Spec, ChainIsFifo, Line!Spec

-----------------------------------------------------------------------------
(***************************************************************************)
(* Types. What lies in the cells is bounded by what was sent because every *)
(* value on its way is a unit of the stream, which is what LineInv says of *)
(* its place; the counts of the callback are bounded because it counts     *)
(* only below the number it waits for.                                     *)
(***************************************************************************)

CallbackTypes ==
  /\ btpc \in {"idle", "test", "give", "count"}
  /\ sent \in 0 .. MaxSent /\ given \in 0 .. sent
  /\ prebuffered \in 0 .. chain.prebuffer /\ seen \in 0 .. chain.prebuffer
  /\ fresh \in 0 .. chain.prebuffer
  /\ btpc = "count" => seen < chain.prebuffer /\ prebuffered < chain.prebuffer

CellsBelow(t, most) == \A c \in 0 .. chain.cells - 1 : ring[t].data[c] <= most

TypeInv ==
  /\ OneOfThem
  /\ CallbackTypes
  /\ \A t \in Tasks : Len(work[t]) <= Readlen(t) /\ CellsBelow(t, Growth * MaxSent)

\* No cell holds more than the largest element written.
LEMMA WriteKeepsBelow ==
  ASSUME NEW n \in Nat \ {0}, NEW r \in Rings(n), NEW s \in Seq(Nat), Len(s) <= n,
         NEW most \in Nat, \A c \in 0 .. n - 1 : r.data[c] <= most,
         \A i \in 1 .. Len(s) : s[i] <= most
  PROVE  \A c \in 0 .. n - 1 : AfterWrite(r, s).data[c] <= most
<1>0. AfterWrite(r, s).data = Filled(r, s)
  BY WriteIs, Zenon
<1> SUFFICES ASSUME NEW c \in 0 .. n - 1 PROVE Filled(r, s)[c] <= most
  BY <1>0
<1>1. r \in Fields(n)
  BY DEF Rings
<1>2. CASE Into(r, s, c) = {}
  BY <1>1, <1>2, FilledCell
<1>3. CASE Into(r, s, c) # {}
  <2>1. PICK i \in Into(r, s, c) : TRUE
    BY <1>3
  <2>2. i \in 1 .. Len(s)
    BY DEF Into
  <2> QED
    BY <1>1, <2>1, <2>2, FilledCell
<1> QED
  BY <1>2, <1>3

\* What the tasks have in hand are units of the stream that was sent.
LEMMA WorkBelow ==
  ASSUME LineInv, sent <= MaxSent, NEW t \in Tasks, NEW i \in 1 .. Len(work[t])
  PROVE  /\ work[t][i] \in 0 .. Growth * MaxSent
         /\ t # AudioCodec => Growth * work[t][i] <= Growth * MaxSent
<1>0. PlacesInv /\ StreamInv
  BY DEF LineInv
<1>1. /\ FromBuffer1 \in Int /\ FromEqualizer \in Int /\ FromBuffer2 \in Int
      /\ FromCrossover \in Nat /\ FromBuffer3 \in Nat
      /\ FromCrossover <= FromBuffer2 /\ FromBuffer2 <= FromEqualizer
      /\ FromEqualizer <= FromBuffer1 /\ FromBuffer1 <= sent
  BY OnItsWay, Zenon
<1>2. /\ sent \in Nat /\ played \in Nat /\ MaxSent \in Nat /\ Growth \in {1, 2}
      /\ work[t] \in Seq(Nat) /\ Len(work[t]) \in Nat
      /\ Len(work[Equalizer]) \in Nat /\ Len(work[Crossover]) \in Nat
      /\ Len(work[AudioCodec]) \in Nat /\ i \in Nat \ {0} /\ i <= Len(work[t])
  BY <1>0, Counts, PipelineAssumption DEF PlacesInv
<1>3. CASE t = Equalizer
  <2>1. work[t][i] = FromEqualizer + i /\ FromBuffer1 = FromEqualizer + Len(work[t])
    <3>1. FromBuffer1 = FromEqualizer + Len(work[t])
      BY <1>1, <1>2, <1>3 DEF FromEqualizer
    <3> QED
      BY <1>0, <1>3, <3>1 DEF StreamInv
  <2>2. work[t][i] \in 0 .. MaxSent
    BY <1>1, <1>2, <2>1
  <2> QED
    BY <1>2, <2>2
<1>4. CASE t = Crossover
  <2>1. work[t][i] = FromCrossover + i /\ FromBuffer2 = FromCrossover + Len(work[t])
    <3>1. FromBuffer2 = FromCrossover + Len(work[t])
      BY <1>1, <1>2, <1>4 DEF FromCrossover
    <3> QED
      BY <1>0, <1>4, <3>1 DEF StreamInv
  <2>2. work[t][i] \in 0 .. MaxSent
    BY <1>1, <1>2, <2>1
  <2> QED
    BY <1>2, <2>2
<1>5. CASE t = AudioCodec
  <2>1. work[t][i] = played + i /\ FromBuffer3 = played + Len(work[t])
    <3>1. FromBuffer3 = played + Len(work[t])
      BY <1>5 DEF FromBuffer3
    <3> QED
      BY <1>0, <1>5, <3>1 DEF StreamInv
  <2>2. FromBuffer3 <= Growth * sent
    BY InOneStretch DEF OneStretch
  <2>3. Growth * sent <= Growth * MaxSent /\ Growth * sent \in Nat /\ Growth * MaxSent \in Nat
    BY <1>2
  <2> QED
    BY <1>1, <1>2, <1>5, <2>1, <2>2, <2>3
<1> QED
  BY <1>3, <1>4, <1>5 DEF Tasks

LEMMA TypeInvInit == Paced /\ Init => TypeInv
<1> SUFFICES ASSUME Paced, Init PROVE TypeInv
  OBVIOUS
<1>1. LineInv /\ PlacesInv /\ Holds(chain) /\ MaxSent \in Nat
  BY LineInvInit, PipelineAssumption DEF LineInv, PlacesInv
<1>2. OneOfThem
  BY DEF Init, OneOfThem
<1>3. chain.prebuffer \in Nat
  BY CountInvInit DEF CountInv
<1>4. CallbackTypes
  BY <1>1, <1>3 DEF CallbackTypes, Init
<1>5. Growth * MaxSent \in Nat /\ Growth \in {1, 2}
  BY <1>1, Counts
<1>6. ASSUME NEW t \in Tasks PROVE Len(work[t]) <= Readlen(t) /\ CellsBelow(t, Growth * MaxSent)
  <2>1. work[t] = <<>> /\ ring[t] = EmptyRing(chain.cells)
    BY DEF Init
  <2>2. Readlen(t) \in Nat
    BY <1>1 DEF Holds, Readlen
  <2> QED
    BY <1>5, <2>1, <2>2 DEF CellsBelow, EmptyRing
<1> QED
  BY <1>2, <1>4, <1>6 DEF TypeInv

\* The callbacks and their counts.
LEMMA CallbackTypesNext ==
  ASSUME CountInv, CallbackTypes, [Next]_vars, chain' = chain
  PROVE  CallbackTypes'
<1>0. /\ chain.prebuffer \in Nat /\ MaxSent \in Nat
  BY PipelineAssumption DEF CountInv
<1>1. ASSUME NEW n \in Packets, Receive(n) PROVE CallbackTypes'
  <2>1. /\ UNCHANGED <<prebuffered, seen, given>> /\ n \in Nat /\ sent' = sent + n
        /\ sent + n <= MaxSent /\ btpc' \in {"give", "test"}
        /\ fresh' = IF fresh < chain.prebuffer THEN fresh + 1 ELSE fresh
    BY <1>1, PipelineAssumption DEF Receive
  <2> QED
    BY <1>0, <2>1 DEF CallbackTypes
<1>2. CASE TestPrebuffered
  BY <1>0, <1>2 DEF TestPrebuffered, CallbackTypes
<1>3. CASE SignalNext
  BY <1>0, <1>3 DEF SignalNext, CallbackTypes
<1>4. CASE CountPacket
  BY <1>0, <1>4 DEF CountPacket, CallbackTypes
<1>5. CASE ResetPrebuffering
  <2>1. /\ UNCHANGED <<seen, sent, given, btpc>> /\ prebuffered' = 0 /\ fresh' = 0
        /\ chain.prebuffer > 0
    BY <1>5, Zenon DEF ResetPrebuffering
  <2> QED
    BY <1>0, <2>1 DEF CallbackTypes
<1>6. CASE UNCHANGED btVars
  <2>1. UNCHANGED <<btpc, prebuffered, seen, sent, given, fresh>>
    BY <1>6, Zenon DEF btVars
  <2> QED
    BY <2>1 DEF CallbackTypes
<1>7. ASSUME NEW t \in Tasks, Task(t) PROVE UNCHANGED btVars
  BY <1>7, Zenon DEF Task, Wake, Read, Write, GiveNext, Play
<1>8. CASE UNCHANGED vars
  BY <1>6, <1>8, Zenon DEF vars, btVars
<1> QED
  BY <1>1, <1>2, <1>3, <1>4, <1>5, <1>6, <1>7, <1>8 DEF Next, DataCallback

LEMMA TypeInvNext ==
  LineInv /\ CountInv /\ TypeInv /\ LineInv' /\ [Next]_vars => TypeInv'
<1> SUFFICES ASSUME LineInv, CountInv, TypeInv, LineInv', [Next]_vars PROVE TypeInv'
  OBVIOUS
<1>0. PlacesInv /\ HandsInv /\ DistanceInv /\ PlacesInv' /\ Holds(chain) /\ OneOfThem
      /\ CallbackTypes
  BY DEF LineInv, PlacesInv, TypeInv
<1>1. chain' = chain
  BY DEF Next, Receive, DataCallback, TestPrebuffered, SignalNext, CountPacket,
         ResetPrebuffering, Task, Wake, Read, Write, GiveNext, Play, taskVars, btVars, vars
<1>2. OneOfThem' /\ CallbackTypes'
  BY <1>0, <1>1, CallbackTypesNext DEF OneOfThem
<1> DEFINE most == Growth * MaxSent
<1>3. /\ most' = most /\ \A t \in Tasks : Readlen(t)' = Readlen(t) /\ Readlen(t) \in Nat
  BY <1>0, <1>1 DEF Growth, Readlen, Holds
<1>4. /\ sent \in Nat /\ sent <= MaxSent /\ MaxSent \in Nat
      /\ chain.cells \in Nat \ {0} /\ ring \in [Tasks -> Rings(chain.cells)]
      /\ work \in [Tasks -> Seq(Nat)] /\ played \in Nat /\ Ahead \in Nat
      /\ Ahead < chain.cells /\ Growth \in {1, 2} /\ chain.first \in Tasks
      /\ Equalizer \in Tasks /\ Crossover \in Tasks /\ AudioCodec \in Tasks
  <2>1. sent <= MaxSent /\ MaxSent \in Nat
    BY <1>0, PipelineAssumption DEF CallbackTypes, PlacesInv
  <2>2. /\ chain.cells \in Nat \ {0} /\ Ahead \in Nat /\ Ahead < chain.cells /\ Growth \in {1, 2}
        /\ Equalizer \in Tasks /\ Crossover \in Tasks /\ AudioCodec \in Tasks
    BY <1>0, Counts
  <2>3. chain.first \in Tasks
    BY <1>0 DEF Holds, Tasks
  <2> QED
    BY <1>0, <2>1, <2>2, <2>3 DEF PlacesInv
<1>5. most \in Nat /\ MaxSent <= most
  BY <1>4
<1> HIDE DEF most
<1>6. \A t \in Tasks : Len(work[t]) <= Readlen(t) /\ CellsBelow(t, most)
  BY DEF TypeInv, most
<1>7. SUFFICES ASSUME NEW u \in Tasks
               PROVE  Len(work'[u]) <= Readlen(u) /\ CellsBelow(u, most)'
  BY <1>2, <1>3, Zenon DEF TypeInv, most
<1>8. ASSUME ring'[u].data = ring[u].data PROVE CellsBelow(u, most)'
  BY <1>1, <1>3, <1>6, <1>8 DEF CellsBelow
<1>9. ASSUME NEW s \in Seq(Nat), Len(s) <= chain.cells, \A i \in 1 .. Len(s) : s[i] <= most,
             ring'[u] = AfterWrite(ring[u], s)
      PROVE  CellsBelow(u, most)'
  <2>1. ring[u] \in Rings(chain.cells) /\ \A c \in 0 .. chain.cells - 1 : ring[u].data[c] <= most
    BY <1>4, <1>6 DEF CellsBelow
  <2>2. \A c \in 0 .. chain.cells - 1 : AfterWrite(ring[u], s).data[c] <= most
    BY <1>4, <1>5, <1>9, <2>1, WriteKeepsBelow
  <2> QED
    BY <1>1, <1>3, <1>9, <2>2 DEF CellsBelow
<1>10. CASE UNCHANGED <<ring, work>>
  BY <1>6, <1>8, <1>10
<1>11. ASSUME NEW n \in Packets, Receive(n)
       PROVE  Len(work'[u]) <= Readlen(u) /\ CellsBelow(u, most)'
  <2> DEFINE s == [i \in 1 .. n |-> sent + i]
  <2>1. /\ work' = work /\ n \in Nat \ {0} /\ sent + n <= MaxSent
        /\ ring' = [ring EXCEPT ![chain.first] = AfterWrite(@, s)]
        /\ sent' = sent + n /\ played' = played
    BY <1>11, PipelineAssumption DEF Receive, taskVars
  <2>2. n <= chain.cells
    <3>1. Growth * sent' <= played + Growth * Ahead
      BY <1>1, <2>1, Zenon DEF LineInv, DistanceInv, Growth, Ahead
    <3>2. played <= Growth * sent
      <4>1. FromBuffer3 <= Growth * sent /\ FromBuffer3 \in Nat
        BY InOneStretch DEF OneStretch
      <4>2. played <= FromBuffer3
        BY OnItsWay, Zenon
      <4> QED
        BY <1>4, <4>1, <4>2
    <3>3. CASE Growth = 1
      <4>1. 1 * (sent + n) <= played + 1 * Ahead /\ played <= 1 * sent
        BY <2>1, <3>1, <3>2, <3>3, Zenon
      <4> QED
        BY <1>4, <2>1, <4>1
    <3>4. CASE Growth = 2
      <4>1. 2 * (sent + n) <= played + 2 * Ahead /\ played <= 2 * sent
        BY <2>1, <3>1, <3>2, <3>4, Zenon
      <4> QED
        BY <1>4, <2>1, <4>1
    <3> QED
      BY <1>4, <3>3, <3>4
  <2>3. s \in Seq(Nat) /\ Len(s) = n /\ \A i \in 1 .. Len(s) : s[i] <= most
    BY <1>4, <1>5, <2>1
  <2> HIDE DEF s
  <2>4. CASE u = chain.first
    <3>1. ring'[u] = AfterWrite(ring[u], s)
      BY <1>4, <2>1, <2>4
    <3> QED
      BY <1>6, <1>9, <2>1, <2>2, <2>3, <3>1
  <2>5. CASE u # chain.first
    BY <1>4, <1>6, <1>8, <2>1, <2>5
  <2> QED
    BY <2>4, <2>5
<1>12. ASSUME NEW t \in Tasks, Read(t)
       PROVE  Len(work'[u]) <= Readlen(u) /\ CellsBelow(u, most)'
  <2>1. /\ work' = [work EXCEPT ![t] = Delivered(ring[t], Readlen(t))] /\ pc[t] = "read"
        /\ ring' = [ring EXCEPT ![t] = AfterRead(@, Readlen(t))]
    BY <1>12 DEF Read
  <2>2. CASE u # t
    BY <1>4, <1>6, <1>8, <2>1, <2>2
  <2>3. CASE u = t
    <3>1. /\ ring[t] \in Rings(chain.cells) /\ Readlen(t) \in Nat
          /\ ~ Misplaces(ring[t], Readlen(t))
      BY <1>4, <2>1, ReadsInPlace
    <3>2. /\ Len(Delivered(ring[t], Readlen(t))) = Length(ring[t], Readlen(t))
          /\ Length(ring[t], Readlen(t)) <= Readlen(t)
      BY <1>4, <3>1, ReadDelivers, ReadTakes
    <3>3. Len(work'[u]) <= Readlen(u)
      BY <1>4, <2>1, <2>3, <3>2
    <3>4. ring'[u].data = ring[u].data
      <4>1. ring'[u] = AfterRead(ring[u], Readlen(u))
        BY <1>4, <2>1, <2>3
      <4> QED
        BY <2>3, <3>1, <4>1 DEF AfterRead, Rings, Fields
    <3> QED
      BY <1>8, <3>3, <3>4
  <2> QED
    BY <2>2, <2>3
<1>13. ASSUME NEW t \in Tasks, Write(t)
       PROVE  Len(work'[u]) <= Readlen(u) /\ CellsBelow(u, most)'
  <2> DEFINE s == Processed(t, work[t])
  <2>1. /\ work' = [work EXCEPT ![t] = <<>>] /\ pc[t] = "write" /\ t \in {Equalizer, Crossover}
        /\ ring' = [ring EXCEPT ![t + 1] = AfterWrite(@, s)]
    BY <1>13 DEF Write, Tasks
  <2>2. Len(work'[u]) <= Readlen(u)
    BY <1>3, <1>4, <1>6, <2>1
  <2>3. /\ chain.first # AudioCodec /\ s \in Seq(Nat) /\ Len(s) <= chain.cells
    <3>1. /\ chain.first # AudioCodec /\ s \in Seq(Nat)
          /\ Available(ring[t + 1]) + Len(s) <= chain.cells
      BY <2>1, RoomToWrite
    <3>2. Available(ring[t + 1]) \in Nat
      BY <1>0, <2>1, Counts DEF Tasks, Equalizer, Crossover, AudioCodec
    <3> HIDE DEF s
    <3> QED
      BY <1>4, <3>1, <3>2
  <2>4. chain.tasks[Equalizer].writes = 1 /\ chain.tasks[Crossover].writes = 2 /\ Growth = 2
    BY <1>0, <2>3, Counts DEF Holds
  <2>5. \A i \in 1 .. Len(s) : s[i] <= most
    <3>1. CASE t = Equalizer
      <4>1. s = work[t]
        BY <1>4, <2>4, <3>1, EqualizerMakes
      <4>2. \A i \in 1 .. Len(work[t]) : work[t][i] \in 0 .. most
        BY <1>4, <1>5, WorkBelow DEF most
      <4> QED
        BY <1>4, <1>5, <4>1, <4>2
    <3>2. CASE t = Crossover
      <4>1. FromCrossover \in Nat /\ FromBuffer2 <= sent /\ FromBuffer2 \in Int
        <5>1. /\ FromBuffer1 \in Int /\ FromEqualizer \in Int /\ FromBuffer2 \in Int
              /\ FromCrossover \in Nat /\ FromBuffer2 <= FromEqualizer
              /\ FromEqualizer <= FromBuffer1 /\ FromBuffer1 <= sent
          BY OnItsWay, Zenon
        <5> QED
          BY <1>4, <5>1
      <4>2. \A i \in 1 .. Len(work[Crossover]) : work[Crossover][i] = FromCrossover + i
        BY DEF LineInv, StreamInv
      <4>3. /\ Len(s) = 2 * Len(work[Crossover])
            /\ \A i \in 1 .. 2 * Len(work[Crossover]) : s[i] = 2 * FromCrossover + i
        BY <1>4, <2>4, <3>2, <4>1, <4>2, CrossoverMakes
      <4>4. FromBuffer2 = FromCrossover + Len(work[Crossover]) /\ Len(work[Crossover]) \in Nat
        BY <1>4, <4>1 DEF FromCrossover
      <4>5. most = 2 * MaxSent
        BY <2>4, Zenon DEF most
      <4> HIDE DEF s
      <4> QED
        BY <1>4, <4>1, <4>3, <4>4, <4>5
    <3> QED
      BY <2>1, <3>1, <3>2
  <2> HIDE DEF s
  <2>6. CASE u = t + 1
    <3>1. ring'[u] = AfterWrite(ring[u], s)
      BY <1>4, <2>1, <2>6
    <3> QED
      BY <1>9, <2>2, <2>3, <2>5, <3>1
  <2>7. CASE u # t + 1
    <3>1. ring'[u] = ring[u]
      BY <1>4, <2>1, <2>7
    <3> QED
      BY <1>8, <2>2, <3>1
  <2> QED
    BY <2>6, <2>7
<1>14. CASE Play
  <2>1. ring' = ring /\ work' = [work EXCEPT ![AudioCodec] = <<>>]
    BY <1>14 DEF Play
  <2> QED
    BY <1>3, <1>4, <1>6, <1>8, <2>1
<1>15. CASE \/ DataCallback \/ ResetPrebuffering \/ UNCHANGED vars
            \/ \E t \in Tasks : Wake(t) \/ GiveNext(t)
  <2>1. UNCHANGED <<ring, work>>
    BY <1>15 DEF DataCallback, TestPrebuffered, SignalNext, CountPacket, ResetPrebuffering,
                 Wake, GiveNext, vars, taskVars
  <2> QED
    BY <1>10, <2>1
<1> QED
  BY <1>11, <1>12, <1>13, <1>14, <1>15 DEF Next, Task

\* Positions stay inside the buffers, what a task holds inside its request, and
\* the callback's counts between zero and the number it waits for, for every set
\* of versions, every packet size and every number of packets.
THEOREM PipelineTyped == ASSUME Paced PROVE Spec => []TypeOK
<1>1. Init => LineInv /\ CountInv /\ TypeInv
  BY LineInvInit, CountInvInit, TypeInvInit
<1>2. LineInv /\ CountInv /\ TypeInv /\ [Next]_vars => LineInv' /\ CountInv' /\ TypeInv'
  BY LineInvNext, CountInvNext, TypeInvNext
<1>3. LineInv /\ CountInv /\ TypeInv => TypeOK
  <2> SUFFICES ASSUME LineInv, CountInv, TypeInv PROVE TypeOK
    OBVIOUS
  <2>0. PlacesInv /\ CallbackTypes /\ OneOfThem
    BY DEF LineInv, TypeInv
  <2> DEFINE Position == 0 .. chain.cells - 1
             most == Growth * MaxSent
             Typed == [size : {chain.cells}, data : [Position -> 0 .. most],
                       wpos : Position, rpos : Position, newData : BOOLEAN]
  <2>1. ASSUME NEW t \in Tasks PROVE ring[t] \in Typed
    <3>1. ring[t] \in Fields(chain.cells)
      BY <2>0 DEF PlacesInv, Rings
    <3>2. \A c \in Position : ring[t].data[c] <= most
      BY DEF TypeInv, CellsBelow
    <3>3. most \in Nat /\ chain.cells \in Nat
      BY <2>0, Counts, PipelineAssumption
    <3> HIDE DEF most
    <3>4. ring[t].data \in [Position -> 0 .. most]
      BY <3>1, <3>2, <3>3 DEF Fields
    <3> QED
      BY <3>1, <3>4 DEF Fields
  <2>2. ring \in [Tasks -> Typed]
    BY <2>0, <2>1 DEF PlacesInv
  <2>3. ASSUME NEW t \in Tasks
        PROVE  /\ Len(work[t]) <= Readlen(t)
               /\ \A i \in DOMAIN work[t] : work[t][i] \in 0 .. Growth * MaxSent
    <3>1. sent <= MaxSent /\ work[t] \in Seq(Nat)
      BY <2>0, PipelineAssumption DEF CallbackTypes, PlacesInv
    <3>2. DOMAIN work[t] = 1 .. Len(work[t])
      BY <3>1
    <3>3. \A i \in 1 .. Len(work[t]) : work[t][i] \in 0 .. Growth * MaxSent
      BY <3>1, WorkBelow
    <3> QED
      BY <3>2, <3>3, Zenon DEF TypeInv
  <2>4. torn \in BOOLEAN
    BY Zenon DEF CountInv
  <2>5. /\ sem \in [Tasks -> {0, 1}] /\ pc \in [Tasks -> {"wait", "read", "write", "give"}]
        /\ played \in Nat
    BY <2>0 DEF PlacesInv
  <2> QED
    BY <2>0, <2>2, <2>3, <2>4, <2>5, Zenon DEF TypeOK, CallbackTypes, OneOfThem
<1> QED
  BY <1>1, <1>2, <1>3, PTL DEF Spec
=============================================================================
