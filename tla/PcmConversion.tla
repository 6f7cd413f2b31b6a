--------------------------- MODULE PcmConversion ----------------------------
(***************************************************************************)
(* The two conversions at the ends of the chain: Equalizer::MonoMix makes  *)
(* one sample of the four bytes of a stereo frame, AudioCodec::ShortToBytes*)
(* makes two bytes of a sample. A sample is a 16-bit two's complement      *)
(* short, a byte a uint8_t.                                                *)
(***************************************************************************)
EXTENDS Integers

CONSTANT Byte      \* the byte values tried
ASSUME ByteAssumption == Byte \subseteq 0 .. 255

VARIABLES
  stage,   \* what has been done with the frame
  frame,   \* the bytes of a frame: left low, left high, right low, right high
  mono,    \* the sample mixed from it
  bytes    \* the bytes of that sample

vars == <<stage, frame, mono, bytes>>

Shorts == {n \in Int : -32768 <= n /\ n <= 32767}

\* (short) of an int: the low 16 bits, signed.
Short(n) == LET low == n % 65536 IN IF low < 32768 THEN low ELSE low - 65536

\* (high << 8) | low, both below 256, stored in a short.
FromBytes(low, high) == Short(high * 256 + low)

\* C++ division by two truncates towards zero.
Half(n) == IF n >= 0 THEN n \div 2 ELSE - ((- n) \div 2)

\* Mutant: the sum is taken, in a short, before it is halved.
MixOverflows(l, r) == Half(Short(l + r))

Mix(l, r) == Half(l) + Half(r)

MonoMix(f) == Mix(FromBytes(f[1], f[2]), FromBytes(f[3], f[4]))

\* Mutant: bytes in network order.
ShortToBytesSwapped(s) == <<(s \div 256) % 256, s % 256>>

\* input & 0xff, and input >> 8 stored in a uint8_t.
ShortToBytes(s) == <<s % 256, (s \div 256) % 256>>

Init ==
  /\ stage = "received"
  /\ frame \in [1 .. 4 -> Byte]
  /\ mono = 0 /\ bytes = <<0, 0>>

Equalizer ==
  /\ stage = "received"
  /\ stage' = "mixed"
  /\ mono' = MonoMix(frame)
  /\ UNCHANGED <<frame, bytes>>

AudioCodec ==
  /\ stage = "mixed"
  /\ stage' = "sent"
  /\ bytes' = ShortToBytes(mono)
  /\ UNCHANGED <<frame, mono>>

Next == Equalizer \/ AudioCodec

Spec == Init /\ [][Next]_vars

-----------------------------------------------------------------------------
Left == FromBytes(frame[1], frame[2])
Right == FromBytes(frame[3], frame[4])

\* The mix is a short and within one of the exact mean of the two channels,
\* for the extreme samples too: nothing wraps around on the way.
MixNearMean ==
  stage # "received" =>
    /\ mono \in Shorts
    /\ Left + Right - 2 * mono \in -2 .. 2

\* The bytes sent to the codec, read the way the bytes from the phone are,
\* are the sample they were made of.
BytesReadBack == stage = "sent" => FromBytes(bytes[1], bytes[2]) = mono
=============================================================================
