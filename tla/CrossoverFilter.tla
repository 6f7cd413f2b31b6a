-------------------------- MODULE CrossoverFilter ---------------------------
(***************************************************************************)
(* Crossover::filter_LinkwitzRiley: two biquads in series make the left    *)
(* (low) channel, two more the right (high) one. The task calls it with    *)
(* the stream cut into chunks of whatever length read() returned, and the  *)
(* histories of the biquads carry over from one call to the next.          *)
(*                                                                         *)
(* Integers stand for the floats; the conversion at the end truncates.     *)
(***************************************************************************)
EXTENDS Integers, Sequences

CONSTANTS
  lp_coefficients, hp_coefficients   \* records of b0, b1, b2, a1, a2

VARIABLES
  lp, hp,     \* the histories biquads_*_oldinput and biquads_*_oldoutput
  input,      \* history: all samples filtered so far
  output      \* history: all samples written, left and right in turn

vars == <<lp, hp, input, output>>

Init ==
  /\ lp = [oldinput |-> [i \in 0 .. 3 |-> 0], oldoutput |-> [i \in 0 .. 3 |-> 0]]
  /\ hp = lp
  /\ input = <<>>
  /\ output = <<>>

\* Mutant: the input history is moved on before it is used.
BiquadReordersFirst(c, h, k, x) ==
  LET in == [h.oldinput EXCEPT ![2*k + 1] = h.oldinput[2*k], ![2*k] = x]
      y  == in[2*k + 1] * c.b2 + in[2*k] * c.b1 + x * c.b0
              + h.oldoutput[2*k + 1] * c.a2 + h.oldoutput[2*k] * c.a1
  IN [oldinput  |-> in,
      oldoutput |-> [h.oldoutput EXCEPT ![2*k + 1] = h.oldoutput[2*k], ![2*k] = y]]

\* The histories after x went through biquad k (0 or 1); its output is the
\* newest of its old outputs.
Biquad(c, h, k, x) ==
  LET y == h.oldinput[2*k + 1] * c.b2 + h.oldinput[2*k] * c.b1 + x * c.b0
             + h.oldoutput[2*k + 1] * c.a2 + h.oldoutput[2*k] * c.a1
  IN [oldinput  |-> [h.oldinput  EXCEPT ![2*k + 1] = h.oldinput[2*k],  ![2*k] = x],
      oldoutput |-> [h.oldoutput EXCEPT ![2*k + 1] = h.oldoutput[2*k], ![2*k] = y]]

Channel(c, h, x) ==
  LET first == Biquad(c, h, 0, x)
  IN Biquad(c, first, 1, first.oldoutput[0])

\* (short)(accumulator*0.98), for values a short can hold. The versions differ
\* in how many percent of the filtered sample they keep.
ToShort(percent, y) ==
  IF y >= 0 THEN (percent * y) \div 100 ELSE - ((percent * (- y)) \div 100)

Filter(percent, s, x) ==
  LET l == Channel(lp_coefficients, s.lp, x)
      h == Channel(hp_coefficients, s.hp, x)
  IN [lp |-> l, hp |-> h,
      out |-> s.out \o <<ToShort(percent, l.oldoutput[2]),
                         ToShort(percent, h.oldoutput[2])>>]

\* The state of the loop after n samples of the chunk.
Filtering(percent, s, chunk) ==
  LET done[n \in 0 .. Len(chunk)] ==
        IF n = 0 THEN s ELSE Filter(percent, done[n - 1], chunk[n])
  IN done

filter_LinkwitzRiley(percent, chunk) ==
  LET done == Filtering(percent, [lp |-> lp, hp |-> hp, out |-> <<>>], chunk)[Len(chunk)]
  IN /\ lp' = done.lp
     /\ hp' = done.hp
     /\ output' = output \o done.out
     /\ input' = input \o chunk

-----------------------------------------------------------------------------
\* A stream has zeros before its first sample.
At(x, n) == IF n > 0 THEN x[n] ELSE 0

\* The difference equation of a biquad over a whole stream.
Direct(c, x) ==
  LET y[n \in -1 .. Len(x)] ==
        IF n <= 0 THEN 0
        ELSE c.b0 * At(x, n) + c.b1 * At(x, n - 1) + c.b2 * At(x, n - 2)
               + c.a1 * y[n - 1] + c.a2 * y[n - 2]
  IN [n \in 1 .. Len(x) |-> y[n]]

FourthOrder(c, x) == Direct(c, Direct(c, x))

\* However the stream is cut into chunks, the two channels are the low-pass
\* and the high-pass filtered whole stream, sample by sample and side by
\* side: no history is lost, mixed up between the four biquads or used late.
StreamFiltered(percent) ==
  LET low  == FourthOrder(lp_coefficients, input)
      high == FourthOrder(hp_coefficients, input)
  IN output = [i \in 1 .. 2 * Len(input) |->
                 IF i % 2 = 1 THEN ToShort(percent, low[(i + 1) \div 2])
                              ELSE ToShort(percent, high[i \div 2])]
=============================================================================
