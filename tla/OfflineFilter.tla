--------------------------- MODULE OfflineFilter ----------------------------
(***************************************************************************)
(* AudioTest/AudioProcess.cpp: the bench program the crossover was tried   *)
(* out with. It reads a file of stereo frames, mixes, filters and writes   *)
(* the whole of it: the same arithmetic as the firmware's, written anew.   *)
(*                                                                         *)
(* A file is a sequence of bytes, a whole number of frames and at least    *)
(* one (the loops run past the end of anything else).                      *)
(***************************************************************************)
EXTENDS Integers, Sequences

CONSTANTS lp_coefficients, hp_coefficients

Short(n) == LET low == n % 65536 IN IF low < 32768 THEN low ELSE low - 65536

\* Little endian bytes to data16.
Data16(file) == [i \in 1 .. Len(file) \div 2 |-> Short(256 * file[2*i] + file[2*i - 1])]

\* C++ division by two truncates towards zero.
Half(n) == IF n >= 0 THEN n \div 2 ELSE - ((- n) \div 2)

\* Both samples of a frame become their mean, taken in an int.
MonoMixed(data) ==
  [i \in DOMAIN data |-> LET left == i - ((i + 1) % 2)
                         IN Half(data[left] + data[left + 1])]

\* One sample x through the two biquads; s has their histories.
Step(c, s, x) ==
  LET out1 == s.in1[2] * c.b2 + s.in1[1] * c.b1 + x * c.b0
                + s.out1[2] * c.a2 + s.out1[1] * c.a1
      out2 == s.in2[2] * c.b2 + s.in2[1] * c.b1 + out1 * c.b0
                + s.out2[2] * c.a2 + s.out2[1] * c.a1
  IN [in1 |-> <<x, s.in1[1]>>,    out1 |-> <<out1, s.out1[1]>>,
      in2 |-> <<out1, s.in2[1]>>, out2 |-> <<out2, s.out2[1]>>]

Silence == [in1 |-> <<0, 0>>, out1 |-> <<0, 0>>, in2 |-> <<0, 0>>, out2 |-> <<0, 0>>]

\* (short)(accumulator*0.99), for values a short can hold.
ToShort(y) == IF y >= 0 THEN (99 * y) \div 100 ELSE - ((99 * (- y)) \div 100)

\* The loop over data that filters the samples at first, first + 2, ... up to
\* last where they are: its state after i samples of data.
Passing(c, data, first, last) ==
  LET pass[i \in 0 .. Len(data)] ==
        IF i = 0 THEN [s |-> Silence, data |-> data]
        ELSE LET r == pass[i - 1]
                 s == Step(c, r.s, r.data[i])
             IN IF i < first \/ i > last \/ (i - first) % 2 = 1 THEN r
                ELSE [s |-> s, data |-> [r.data EXCEPT ![i] = ToShort(s.out2[1])]]
  IN pass

Pass(c, data, first, last) == Passing(c, data, first, last)[Len(data)].data

Lowpass(data) == Pass(lp_coefficients, data, 1, Len(data))

\* Mutant: the second pass begins with the first sample, like the first one.
HighpassFromFirst(data) == Pass(hp_coefficients, data, 1, Len(data) - 1)

\* The second pass ends at end() - 1: the last sample of all is left out.
Highpass(data) == Pass(hp_coefficients, data, 2, Len(data) - 1)

\* Each sample as two bytes, the high one first.
BigEndian(data) ==
  [i \in 1 .. 2 * Len(data) |-> LET v == data[(i + 1) \div 2]
                                IN IF i % 2 = 1 THEN (v \div 256) % 256 ELSE v % 256]

AudioProcess(file) == BigEndian(Highpass(Lowpass(MonoMixed(Data16(file)))))
=============================================================================
