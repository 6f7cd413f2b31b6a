------------------------ MODULE PcmConversion_proofs ------------------------
(***************************************************************************)
(* The conversions are right for every byte, not only those TLC tries.     *)
(***************************************************************************)
EXTENDS PcmConversion, TLAPS

\* The shorts are the integers in the range of 16 bits.
LEMMA ShortsRange ==
  ASSUME NEW n \in Int
  PROVE  n \in Shorts <=> -32768 <= n /\ n <= 32767
BY DEF Shorts

\* A conversion to short gives a short.
LEMMA ShortWraps ==
  ASSUME NEW n \in Int
  PROVE  Short(n) \in Shorts
<1> DEFINE low == n % 65536
<1>1. low \in Int /\ 0 <= low /\ low <= 65535
    OBVIOUS
<1>2. Short(n) = IF low < 32768 THEN low ELSE low - 65536
    BY DEF Short
<1> HIDE DEF low
<1>3. Short(n) \in Int /\ -32768 <= Short(n) /\ Short(n) <= 32767
    BY <1>1, <1>2
<1>4. Short(n) \in Shorts
    BY <1>3, ShortsRange
<1> QED BY <1>4

\* Two bytes make a short.
LEMMA FromBytesShort ==
  ASSUME NEW low \in 0 .. 255, NEW high \in 0 .. 255
  PROVE  FromBytes(low, high) \in Shorts
<1>1. high * 256 + low \in Int
    OBVIOUS
<1> QED BY <1>1, ShortWraps DEF FromBytes

\* Division by two loses at most one.
LEMMA DivTwo ==
  ASSUME NEW n \in Int
  PROVE  n \div 2 \in Int /\ 2 * (n \div 2) <= n /\ n <= 2 * (n \div 2) + 1
OBVIOUS

\* Half of a short, towards zero, is off by at most one half.
LEMMA HalfClose ==
  ASSUME NEW n \in Shorts
  PROVE  /\ Half(n) \in Int /\ n - 2 * Half(n) \in {-1, 0, 1}
         /\ -16384 <= Half(n) /\ Half(n) <= 16383
<1>1. n \in Int /\ -32768 <= n /\ n <= 32767
    BY DEF Shorts
<1>2. CASE n >= 0
    <2> DEFINE q == n \div 2
    <2>1. q \in Int /\ 2 * q <= n /\ n <= 2 * q + 1
        BY <1>1, DivTwo
    <2>2. Half(n) = q
        BY <1>2 DEF Half
    <2> HIDE DEF q
    <2> QED BY <1>1, <1>2, <2>1, <2>2
<1>3. CASE n < 0
    <2> DEFINE q == (- n) \div 2
    <2>1. q \in Int /\ 2 * q <= - n /\ - n <= 2 * q + 1
        BY <1>1, DivTwo
    <2>2. Half(n) = - q
        BY <1>1, <1>3 DEF Half
    <2> HIDE DEF q
    <2> QED BY <1>1, <1>3, <2>1, <2>2
<1> QED BY <1>1, <1>2, <1>3

\* The mix of two shorts is a short within one of their mean.
LEMMA MixClose ==
  ASSUME NEW l \in Shorts, NEW r \in Shorts
  PROVE  Mix(l, r) \in Shorts /\ l + r - 2 * Mix(l, r) \in -2 .. 2
<1> DEFINE hl == Half(l)
           hr == Half(r)
<1>1. /\ hl \in Int /\ l - 2 * hl \in {-1, 0, 1} /\ -16384 <= hl /\ hl <= 16383
      /\ hr \in Int /\ r - 2 * hr \in {-1, 0, 1} /\ -16384 <= hr /\ hr <= 16383
    BY HalfClose
<1>2. Mix(l, r) = hl + hr
    BY DEF Mix
<1>3. l \in Int /\ r \in Int
    BY DEF Shorts
<1> HIDE DEF hl, hr
<1>4. hl + hr \in Shorts
    BY <1>1, ShortsRange
<1>5. l + r - 2 * (hl + hr) \in -2 .. 2
    BY <1>1, <1>3
<1> QED BY <1>2, <1>4, <1>5

\* The two bytes of a short, put together again, are the short.
LEMMA RoundTrip ==
  ASSUME NEW s \in Shorts
  PROVE  FromBytes(s % 256, (s \div 256) % 256) = s
<1> DEFINE b0 == s % 256
           q  == s \div 256
           b1 == q % 256
           n  == b1 * 256 + b0
<1>1. s \in Int /\ -32768 <= s /\ s <= 32767
    BY DEF Shorts
<1>2. b0 \in 0 .. 255 /\ q \in Int /\ s = 256 * q + b0
    BY <1>1
<1>3. b1 \in 0 .. 255 /\ n \in Int
    BY <1>2
<1>4. q \in -128 .. 127
  <2> HIDE DEF b0, q
  <2> QED BY <1>1, <1>2
<1>5. b1 = IF q >= 0 THEN q ELSE q + 256
    BY <1>4
<1>6. n = IF s >= 0 THEN s ELSE s + 65536
  <2> HIDE DEF b0, q, b1
  <2> QED BY <1>1, <1>2, <1>3, <1>4, <1>5
<1>7. Short(n) = s
  <2> DEFINE low == n % 65536
  <2> HIDE DEF n
  <2>1. low = n
      BY <1>1, <1>6
  <2>2. Short(n) = IF low < 32768 THEN low ELSE low - 65536
      BY DEF Short
  <2> HIDE DEF low
  <2> QED BY <1>1, <1>6, <2>1, <2>2
<1> QED BY <1>7 DEF FromBytes

-----------------------------------------------------------------------------
\* What is known of the frame at each stage.
Converted ==
  /\ stage \in {"received", "mixed", "sent"}
  /\ frame \in [1 .. 4 -> Byte]
  /\ stage # "received" => mono = MonoMix(frame)
  /\ stage = "sent" => bytes = ShortToBytes(mono)

\* Each stage does what its conversion says.
LEMMA ConvertedAlways == Spec => []Converted
<1>1. Init => Converted
    BY DEF Init, Converted
<1>2. Converted /\ [Next]_vars => Converted'
    BY DEF Converted, Next, Equalizer, AudioCodec, vars, MonoMix
<1> QED BY <1>1, <1>2, PTL DEF Spec

\* The two channels of a frame are shorts.
LEMMA ChannelsShort == Converted => Left \in Shorts /\ Right \in Shorts
<1> SUFFICES ASSUME Converted PROVE Left \in Shorts /\ Right \in Shorts
    OBVIOUS
<1>1. \A i \in 1 .. 4 : frame[i] \in 0 .. 255
    BY ByteAssumption DEF Converted, ByteAssumption
<1>2. /\ frame[1] \in 0 .. 255 /\ frame[2] \in 0 .. 255
      /\ frame[3] \in 0 .. 255 /\ frame[4] \in 0 .. 255
    BY <1>1
<1> QED BY <1>2, FromBytesShort DEF Left, Right

\* Mixing never wraps around and is within one of the exact mean, whatever
\* the four bytes of the frame.
THEOREM MixCorrect == Spec => []MixNearMean
<1>1. Converted => MixNearMean
    BY ChannelsShort, MixClose DEF Converted, MixNearMean, MonoMix, Left, Right
<1> QED BY <1>1, ConvertedAlways, PTL

\* What the phone's byte order puts together is what the codec's takes apart.
THEOREM BytesCorrect == Spec => []BytesReadBack
<1>1. Converted => BytesReadBack
  <2> SUFFICES ASSUME Converted, stage = "sent" PROVE FromBytes(bytes[1], bytes[2]) = mono
      BY DEF BytesReadBack
  <2>1. mono \in Shorts
      BY ChannelsShort, MixClose DEF Converted, MonoMix, Left, Right
  <2>2. bytes[1] = mono % 256 /\ bytes[2] = (mono \div 256) % 256
      BY DEF Converted, ShortToBytes
  <2> QED BY <2>1, <2>2, RoundTrip
<1> QED BY <1>1, ConvertedAlways, PTL
=============================================================================
