--------------------------- MODULE EqualizerBank ----------------------------
(***************************************************************************)
(* The filter bank of EqualizerTask: a low shelf, a high shelf and a row   *)
(* of bells, each fed with the same chunk of mono samples and summed into  *)
(* accumulator. The accumulator lives as long as the task, the equivalent  *)
(* currents Ic_eq of the filters as long as the equalizer: both are there  *)
(* again when the next chunk comes, of another length.                     *)
(*                                                                         *)
(* Integers stand for the floats; the conversion at the end truncates.     *)
(***************************************************************************)
EXTENDS Integers, Sequences

CONSTANTS
  Lowshelf,    \* record of a1, a2, g, k1, k2
  Highshelf,   \* record of a1, a2, g, k1, k2, k3
  Bells,       \* sequence of records of a1, a2, g, R: six in the code
  MaxChunk     \* samples of one chunk: 2560 in the code

VARIABLES
  low, high,     \* Ic_eq of the shelves
  bell,          \* Ic_eq of each bell
  accumulator,   \* what the last chunks left in it
  input,         \* history: all samples filtered so far
  output         \* history: all samples written

vars == <<low, high, bell, accumulator, input, output>>

Zero == <<0, 0>>

Init ==
  /\ low = Zero /\ high = Zero
  /\ bell = [b \in DOMAIN Bells |-> Zero]
  /\ accumulator = [i \in 1 .. MaxChunk |-> 0]
  /\ input = <<>>
  /\ output = <<>>

\* The bandpass and lowpass voltages and the currents after sample v0.
Voltages(c, ic, v0) ==
  LET v1 == c.a1 * ic[1] + c.a2 * (v0 - ic[2])
      v2 == c.g * v1 + ic[2]
  IN [v1 |-> v1, v2 |-> v2, ic |-> <<2 * v1 - ic[1], 2 * v2 - ic[2]>>]

\* Each filter takes one sample and returns its currents and its output.
LowshelfOut(ic, v0) ==
  LET v == Voltages(Lowshelf, ic, v0)
  IN [ic |-> v.ic, out |-> v0 + Lowshelf.k1 * v.v1 + Lowshelf.k2 * v.v2]

HighshelfOut(ic, v0) ==
  LET v == Voltages(Highshelf, ic, v0)
  IN [ic |-> v.ic, out |-> Highshelf.k1 * v0 + Highshelf.k2 * v.v1
                             + Highshelf.k3 * v.v2]

BellOut(b, ic, v0) ==
  LET v == Voltages(Bells[b], ic, v0)
  IN [ic |-> v.ic, out |-> v0 + Bells[b].R * v.v1]

\* The state of a filter's loop after i samples of the chunk; s is what it
\* begins with, the filter's currents and the accumulator.
LowshelfPass(s, chunk) ==
  LET pass[i \in 0 .. Len(chunk)] ==
        IF i = 0 THEN s
        ELSE LET r == pass[i - 1]
                 f == LowshelfOut(r.ic, chunk[i])
             IN [ic |-> f.ic, acc |-> [r.acc EXCEPT ![i] = f.out]]
  IN pass

HighshelfPass(s, chunk) ==
  LET pass[i \in 0 .. Len(chunk)] ==
        IF i = 0 THEN s
        ELSE LET r == pass[i - 1]
                 f == HighshelfOut(r.ic, chunk[i])
             IN [ic |-> f.ic, acc |-> [r.acc EXCEPT ![i] = @ + f.out]]
  IN pass

\* Mutant: the bells share the currents of the first one.
RingShared(s, v0, i) ==
  LET ring[b \in 0 .. Len(Bells)] ==
        IF b = 0 THEN s
        ELSE LET r == ring[b - 1]
                 f == BellOut(b, r.ic[1], v0)
             IN [ic |-> [r.ic EXCEPT ![1] = f.ic], acc |-> [r.acc EXCEPT ![i] = @ + f.out]]
  IN ring

\* The state of the loop over the bells, for sample i, after b of them.
Ring(s, v0, i) ==
  LET ring[b \in 0 .. Len(Bells)] ==
        IF b = 0 THEN s
        ELSE LET r == ring[b - 1]
                 f == BellOut(b, r.ic[b], v0)
             IN [ic |-> [r.ic EXCEPT ![b] = f.ic], acc |-> [r.acc EXCEPT ![i] = @ + f.out]]
  IN ring

BellPass(s, chunk) ==
  LET pass[i \in 0 .. Len(chunk)] ==
        IF i = 0 THEN s ELSE Ring(pass[i - 1], chunk[i], i)[Len(Bells)]
  IN pass

filter_lowshelf(s, chunk) == LowshelfPass(s, chunk)[Len(chunk)]
filter_highshelf(s, chunk) == HighshelfPass(s, chunk)[Len(chunk)]
filter_bell(s, chunk) == BellPass(s, chunk)[Len(chunk)]

\* (short)(accumulator*0.027), for values a short can hold.
Normalised(a) == IF a >= 0 THEN (27 * a) \div 1000 ELSE - ((27 * (- a)) \div 1000)

Equalize(chunk) ==
  LET l == filter_lowshelf([ic |-> low, acc |-> accumulator], chunk)
      h == filter_highshelf([ic |-> high, acc |-> l.acc], chunk)
      b == filter_bell([ic |-> bell, acc |-> h.acc], chunk)
  IN /\ low' = l.ic
     /\ high' = h.ic
     /\ bell' = b.ic
     /\ accumulator' = b.acc
     /\ output' = output \o [i \in DOMAIN chunk |-> Normalised(b.acc[i])]
     /\ input' = input \o chunk

-----------------------------------------------------------------------------
\* The voltages and currents of a filter with a whole stream to itself, after n
\* samples from silence on.
Alone(c, x) ==
  LET f[n \in 0 .. Len(x)] == IF n = 0 THEN [v1 |-> 0, v2 |-> 0, ic |-> Zero]
                              ELSE Voltages(c, f[n - 1].ic, x[n])
  IN f

\* What the filters make of sample n of a stream, the shelves and b bells.
SumOf(x, n) ==
  LET l == Alone(Lowshelf, x)[n]
      h == Alone(Highshelf, x)[n]
      sum[b \in 0 .. Len(Bells)] ==
        IF b = 0
        THEN (x[n] + Lowshelf.k1 * l.v1 + Lowshelf.k2 * l.v2)
               + (Highshelf.k1 * x[n] + Highshelf.k2 * h.v1 + Highshelf.k3 * h.v2)
        ELSE sum[b - 1] + (x[n] + Bells[b].R * Alone(Bells[b], x)[n].v1)
  IN sum

\* However the stream is cut into chunks, the output is the sum of the
\* filters, each of them run alone over the whole stream: no filter disturbs
\* another through the accumulator or the currents, and nothing of an
\* earlier, longer chunk is left in the sum.
BankIsSumOfFilters ==
  output = [n \in 1 .. Len(input) |-> Normalised(SumOf(input, n)[Len(Bells)])]
=============================================================================
