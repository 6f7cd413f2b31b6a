---------------------------- MODULE FilterChain -----------------------------
(***************************************************************************)
(* The two filter stages of the chain: the equalizer's bank filters the    *)
(* mono stream, the crossover filters what the equalizer wrote. Each task  *)
(* takes as much as it finds, so the stream is cut anew between them; the  *)
(* buffers are modelled elsewhere (Ringbuffer, AudioPipeline) and keep the *)
(* order here.                                                             *)
(*                                                                         *)
(* The versions differ in which stages filter: the first one has only a    *)
(* crossover, the next two only an equalizer, the last one has both.       *)
(***************************************************************************)
EXTENDS Integers, Sequences

CONSTANTS
  Versions,    \* versions of the firmware looked at
  Lowshelf, Highshelf, Bells,         \* of the equalizer
  lp_coefficients, hp_coefficients,   \* of the crossover
  MaxChunk,    \* samples of one chunk
  Sample,      \* mono samples: a finite set
  MaxStream    \* samples of a behaviour: a bound

Coefficients == [b0 : Int, b1 : Int, b2 : Int, a1 : Int, a2 : Int]

\* The samples a short can hold.
Shorts == {n \in Int : -32768 <= n /\ n <= 32767}

ASSUME FilterChainAssumption ==
  /\ Versions \subseteq {"smartsound_v1", "smartsound_v2", "smartsound_v3",
                         "smartsound_final"}
  /\ Lowshelf  \in [a1 : Int, a2 : Int, g : Int, k1 : Int, k2 : Int]
  /\ Highshelf \in [a1 : Int, a2 : Int, g : Int, k1 : Int, k2 : Int, k3 : Int]
  /\ Bells \in Seq([a1 : Int, a2 : Int, g : Int, R : Int])
  /\ lp_coefficients \in Coefficients /\ hp_coefficients \in Coefficients
  /\ MaxChunk \in Nat /\ MaxStream \in Nat
  /\ Sample \subseteq Shorts

VARIABLES
  version,
  low, high, bell, accumulator,   \* the equalizer's state
  lp, hp,                         \* the crossover's state
  mono,        \* history: the samples the equalizer has filtered
  equalized,   \* history: what it wrote
  crossed,     \* history: the samples the crossover has filtered
  stereo       \* history: what it wrote

equalizer == <<low, high, bell, accumulator, mono, equalized>>
crossover == <<lp, hp, crossed, stereo>>
vars      == <<version, equalizer, crossover>>

E  == INSTANCE EqualizerBank   WITH input <- mono, output <- equalized
C  == INSTANCE CrossoverFilter WITH input <- crossed, output <- stereo
O  == INSTANCE OfflineFilter

Init == version \in Versions /\ E!Init /\ C!Init

-----------------------------------------------------------------------------
(***************************************************************************)
(* What the two tasks of each version do with a chunk.                     *)
(***************************************************************************)

Equalizer_v1(chunk) ==
  /\ mono' = mono \o chunk /\ equalized' = equalized \o chunk
  /\ UNCHANGED <<low, high, bell, accumulator>>

\* The same bank in all three, with other gains in the last one.
Equalizer_v2(chunk) == E!Equalize(chunk)
Equalizer_v3(chunk) == E!Equalize(chunk)
Equalizer_final(chunk) == E!Equalize(chunk)

Crossover_v1(chunk) == C!filter_LinkwitzRiley(99, chunk)

\* The filters are commented out: each sample goes to both channels.
Twice(s) == [i \in 1 .. 2 * Len(s) |-> s[(i + 1) \div 2]]
PassThrough(chunk) ==
  /\ crossed' = crossed \o chunk /\ stereo' = stereo \o Twice(chunk)
  /\ UNCHANGED <<lp, hp>>
Crossover_v2(chunk) == PassThrough(chunk)
Crossover_v3(chunk) == PassThrough(chunk)

Crossover_final(chunk) == C!filter_LinkwitzRiley(98, chunk)

Equalize(chunk) ==
  \/ version = "smartsound_v1" /\ Equalizer_v1(chunk)
  \/ version = "smartsound_v2" /\ Equalizer_v2(chunk)
  \/ version = "smartsound_v3" /\ Equalizer_v3(chunk)
  \/ version = "smartsound_final" /\ Equalizer_final(chunk)

filter_LinkwitzRiley(chunk) ==
  \/ version = "smartsound_v1" /\ Crossover_v1(chunk)
  \/ version = "smartsound_v2" /\ Crossover_v2(chunk)
  \/ version = "smartsound_v3" /\ Crossover_v3(chunk)
  \/ version = "smartsound_final" /\ Crossover_final(chunk)

\* What the equalizer reads is whatever was played to it.
EqualizerTask ==
  \E n \in 1 .. MaxChunk : \E chunk \in [1 .. n -> Sample] :
    /\ Len(mono) + n <= MaxStream
    /\ Equalize(chunk)
    /\ UNCHANGED <<version, crossover>>

\* The crossover reads on from where it stopped.
CrossoverTask ==
  \E n \in 1 .. MaxChunk :
    /\ Len(crossed) + n <= Len(equalized)
    /\ filter_LinkwitzRiley(SubSeq(equalized, Len(crossed) + 1, Len(crossed) + n))
    /\ UNCHANGED <<version, equalizer>>

Next == EqualizerTask \/ CrossoverTask

Spec == Init /\ [][Next]_vars

-----------------------------------------------------------------------------
\* However the mono stream is cut, the equalizer writes the sum of its filters,
\* each of them run alone over the whole stream (EqualizerBank); in the first
\* version, the stream itself.
BankIsSumOfFilters ==
  IF version = "smartsound_v1" THEN equalized = mono ELSE E!BankIsSumOfFilters

\* However the equalized stream is cut again, the crossover writes the
\* low-pass and the high-pass of the whole of it (CrossoverFilter), or the
\* stream itself on both sides.
StreamFiltered ==
  CASE version = "smartsound_v1"    -> C!StreamFiltered(99)
    [] version = "smartsound_final" -> C!StreamFiltered(98)
    [] OTHER                        -> stereo = Twice(crossed)

\* The stereo file, little endian, whose mix is the mono stream.
StereoFile(samples) ==
  [i \in 1 .. 4 * Len(samples) |-> LET v == samples[(i + 3) \div 4]
                                   IN IF i % 2 = 1 THEN v % 256 ELSE (v \div 256) % 256]

\* The bench program, which sees the whole stream at once, and the crossover
\* taken over from it (smartsound_v1), which sees chunks, agree on every byte
\* but those of the last sample, which the bench program does not filter.
OfflineAgrees ==
  version = "smartsound_v1" /\ crossed # <<>> =>
    LET bench    == O!AudioProcess(StereoFile(crossed))
        firmware == O!BigEndian(stereo)
        last     == crossed[Len(crossed)]
    IN bench = SubSeq(firmware, 1, Len(firmware) - 2) \o O!BigEndian(<<last>>)
=============================================================================
