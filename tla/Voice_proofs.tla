------------------------------ MODULE Voice_proofs ------------------------------
(***************************************************************************)
(* Proofs about the computations of Voice: the mu-law codec is faithful to *)
(* every sample of 16 bits, the gains are for every receive gain and every *)
(* ducking factor, and the reader of an offer finds the stream's endpoint  *)
(* in an offer of any length.                                              *)
(*                                                                         *)
(* A biased magnitude lies in one of eight segments, each cut into sixteen *)
(* steps.  Encoding finds the step, decoding returns its middle: LEMMA     *)
(* Companding says so, and the properties follow from Middle alone.        *)
(* Of an offer the reader holds the last c= and m= line: OfferInv.         *)
(***************************************************************************)
EXTENDS Voice, TLAPS

-----------------------------------------------------------------------------
(* Sixteen bits                                                             *)

\* An integer of 16 bits lies between the least and the greatest of them.
LEMMA InPcm ==
  /\ Pcm \subseteq Int
  /\ \A v \in Int : v \in Pcm <=> v + 32768 >= 0 /\ v <= 32767
<1>1. PICK least \in Int, greatest \in Int : least = -32768 /\ greatest = 32767
  OBVIOUS
<1>2. Pcm = least..greatest
  BY <1>1, SMT DEF Pcm
<1>3. least + 32768 = 0 /\ greatest = 32767
  BY <1>1
<1>4. \A v \in Int : v \in least..greatest <=> v + 32768 >= 0 /\ v <= 32767
  BY <1>3
<1> QED BY <1>2, <1>4

\* A value of 16 bits is converted to itself.
LEMMA Int16Fits == ASSUME NEW v \in Int, v \in Pcm PROVE ToInt16(v) = v
<1>1. v + 32768 \in Int /\ 0 <= v + 32768 /\ v + 32768 < 65536
  BY InPcm
<1>2. ASSUME NEW n \in Int, 0 <= n, n < 65536 PROVE n % 65536 = n
  BY <1>2
<1>3. (v + 32768) % 65536 = v + 32768
  BY <1>1, <1>2
<1> QED BY <1>1, <1>3 DEF ToInt16

-----------------------------------------------------------------------------
(* Segments                                                                 *)

\* The biased magnitudes: at least 132, at most 32767.
Biased == {m \in Nat : 132 <= m /\ m <= 32767}

\* The segment of m, and the width of its steps.
Segment(m) ==
  IF m < 256 THEN 0 ELSE IF m < 512 THEN 1 ELSE IF m < 1024 THEN 2 ELSE IF m < 2048 THEN 3
  ELSE IF m < 4096 THEN 4 ELSE IF m < 8192 THEN 5 ELSE IF m < 16384 THEN 6 ELSE 7

Width(m) ==
  IF m < 256 THEN 8 ELSE IF m < 512 THEN 16 ELSE IF m < 1024 THEN 32 ELSE IF m < 2048 THEN 64
  ELSE IF m < 4096 THEN 128 ELSE IF m < 8192 THEN 256 ELSE IF m < 16384 THEN 512 ELSE 1024

\* The step of m, one of 16..31, and the middle of that step.
StepOf(m) == m \div Width(m)
Middle(m) == Width(m) * StepOf(m) + Width(m) \div 2

\* Where segment e begins.
Bottom(e) ==
  IF e = 0 THEN 128 ELSE IF e = 1 THEN 256 ELSE IF e = 2 THEN 512 ELSE IF e = 3 THEN 1024
  ELSE IF e = 4 THEN 2048 ELSE IF e = 5 THEN 4096 ELSE IF e = 6 THEN 8192 ELSE 16384

\* The powers of two that the code shifts by.
LEMMA Powers ==
  ASSUME NEW e \in 0..7
  PROVE  /\ 2 ^ (e + 7) = Bottom(e) /\ 2 ^ (e + 8) = 2 * Bottom(e)
         /\ 2 ^ (e + 3) = Bottom(e) \div 16 /\ 2 ^ e = Bottom(e) \div 128
<1>0. CASE e = 0
  BY <1>0 DEF Bottom
<1>1. CASE e = 1
  BY <1>1 DEF Bottom
<1>2. CASE e = 2
  BY <1>2 DEF Bottom
<1>3. CASE e = 3
  BY <1>3 DEF Bottom
<1>4. CASE e = 4
  BY <1>4 DEF Bottom
<1>5. CASE e = 5
  BY <1>5 DEF Bottom
<1>6. CASE e = 6
  BY <1>6 DEF Bottom
<1>7. CASE e = 7
  BY <1>7 DEF Bottom
<1> QED BY <1>0, <1>1, <1>2, <1>3, <1>4, <1>5, <1>6, <1>7

\* The segments, written out.
LEMMA Segments ==
  ASSUME NEW m \in Biased
  PROVE  \/ m < 256 /\ Segment(m) = 0 /\ Width(m) = 8
         \/ m >= 256 /\ m < 512 /\ Segment(m) = 1 /\ Width(m) = 16
         \/ m >= 512 /\ m < 1024 /\ Segment(m) = 2 /\ Width(m) = 32
         \/ m >= 1024 /\ m < 2048 /\ Segment(m) = 3 /\ Width(m) = 64
         \/ m >= 2048 /\ m < 4096 /\ Segment(m) = 4 /\ Width(m) = 128
         \/ m >= 4096 /\ m < 8192 /\ Segment(m) = 5 /\ Width(m) = 256
         \/ m >= 8192 /\ m < 16384 /\ Segment(m) = 6 /\ Width(m) = 512
         \/ m >= 16384 /\ Segment(m) = 7 /\ Width(m) = 1024
BY DEF Segment, Width, Biased

\* The encoder's search for the highest bit finds the segment, and no other bit.
LEMMA ExponentIsSegment ==
  ASSUME NEW m \in Biased
  PROVE  Exponent(m) = Segment(m)
<1> DEFINE In(e) == 2 ^ (e + 7) <= m /\ (e < 7 => m < 2 ^ (e + 8))
<1>1. Segment(m) \in 0..7
  BY DEF Segment
<1>2. \A e \in 0..7 : In(e) <=> Bottom(e) <= m /\ (e < 7 => m < 2 * Bottom(e))
  BY Powers
<1> HIDE DEF In
<1>3. Bottom(Segment(m)) <= m /\ (Segment(m) < 7 => m < 2 * Bottom(Segment(m)))
  BY DEF Segment, Biased, Bottom
<1>4. ASSUME NEW e \in 0..7, Bottom(e) <= m, e < 7 => m < 2 * Bottom(e)
      PROVE  e = Segment(m)
  BY <1>4 DEF Segment, Biased, Bottom
<1>5. (CHOOSE e \in 0..7 : In(e)) = Segment(m)
  BY <1>1, <1>2, <1>3, <1>4
<1> QED BY <1>5 DEF Exponent, In

\* The step lies in 16..31, and m within its step.
LEMMA StepBounds ==
  ASSUME NEW m \in Biased
  PROVE  /\ Segment(m) \in 0..7
         /\ StepOf(m) \in 16..31
         /\ Width(m) * StepOf(m) <= m /\ m < Width(m) * StepOf(m) + Width(m)
         /\ Width(m) = 2 ^ (Segment(m) + 3)
<1>1. Segment(m) \in 0..7 /\ Width(m) = Bottom(Segment(m)) \div 16
  BY DEF Segment, Width, Bottom
<1>2. m \in Nat /\ 16 * Width(m) <= m /\ m < 32 * Width(m)
  BY DEF Width, Biased
<1>3. \A w \in {8, 16, 32, 64, 128, 256, 512, 1024} :
        16 * w <= m /\ m < 32 * w =>
          /\ m \div w \in 16..31
          /\ w * (m \div w) <= m /\ m < w * (m \div w) + w
  BY <1>2
<1>4. Width(m) \in {8, 16, 32, 64, 128, 256, 512, 1024}
  BY DEF Width
<1>5. /\ StepOf(m) \in 16..31
      /\ Width(m) * StepOf(m) <= m /\ m < Width(m) * StepOf(m) + Width(m)
  BY <1>2, <1>3, <1>4 DEF StepOf
<1> QED BY <1>1, <1>5, Powers

-----------------------------------------------------------------------------
(* Encoding and decoding                                                    *)

\* The code of a biased magnitude: sign, segment and step.
LEMMA CodeOf ==
  ASSUME NEW m \in Biased, NEW sign \in {0, 1}
  PROVE  Code(sign, m) = 255 - (128 * sign + 16 * Segment(m) + (StepOf(m) - 16))
<1>1. m \div 2 ^ (Segment(m) + 3) = StepOf(m)
  BY StepBounds DEF StepOf
<1>2. \A q \in 16..31 : q % 16 = q - 16
  OBVIOUS
<1>3. (m \div 2 ^ (Segment(m) + 3)) % 16 = StepOf(m) - 16
  BY <1>1, <1>2, StepBounds
<1> QED BY <1>3, ExponentIsSegment DEF Code

\* Decoding takes sign, segment and step apart again.
LEMMA DecodeOf ==
  ASSUME NEW e \in 0..7, NEW q \in 16..31, NEW sign \in {0, 1}
  PROVE  /\ 255 - (128 * sign + 16 * e + (q - 16)) \in Byte
         /\ Decode(255 - (128 * sign + 16 * e + (q - 16))) =
              ToInt16(IF sign = 1 THEN 132 - (8 * q + 4) * 2 ^ e ELSE (8 * q + 4) * 2 ^ e - 132)
<1> DEFINE u == 128 * sign + 16 * e + (q - 16)
<1>1. u \in 0..255
  OBVIOUS
<1>2. u % 16 = q - 16
  OBVIOUS
<1>3. (u \div 16) % 8 = e
  <2>1. u \div 16 = 8 * sign + e
    OBVIOUS
  <2>2. (8 * sign + e) % 8 = e
    OBVIOUS
  <2> QED BY <2>1, <2>2
<1>4. u >= 128 <=> sign = 1
  OBVIOUS
<1> HIDE DEF u
<1>5. 255 - (255 - u) = u /\ 255 - u \in Byte
  BY <1>1 DEF Byte
<1>6. (q - 16) * 8 + Bias = 8 * q + 4 /\ Bias = 132
  BY DEF Bias
<1>7. Decode(255 - u) = ToInt16(IF sign = 1 THEN 132 - (8 * q + 4) * 2 ^ e
                                            ELSE (8 * q + 4) * 2 ^ e - 132)
  <2> DEFINE U == 255 - (255 - u)
             T == ((U % 16) * 8 + Bias) * 2 ^ ((U \div 16) % 8)
  <2>1. U = u
    BY <1>5
  <2>2. T = (8 * q + 4) * 2 ^ e
    <3>1. (U % 16) * 8 + Bias = 8 * q + 4 /\ (U \div 16) % 8 = e
      BY <2>1, <1>2, <1>3, <1>6
    <3> QED BY <3>1
  <2>3. Decode(255 - u) = ToInt16(IF U >= 128 THEN Bias - T ELSE T - Bias)
    BY DEF Decode
  <2> HIDE DEF U, T
  <2>4. CASE sign = 1
    <3>1. Decode(255 - u) = ToInt16(132 - (8 * q + 4) * 2 ^ e)
      BY <2>1, <2>2, <2>3, <2>4, <1>4, <1>6
    <3> QED BY <3>1, <2>4
  <2>5. CASE sign # 1
    <3>1. Decode(255 - u) = ToInt16((8 * q + 4) * 2 ^ e - 132)
      BY <2>1, <2>2, <2>3, <2>5, <1>4, <1>6
    <3> QED BY <3>1, <2>5
  <2> QED BY <2>4, <2>5
<1> QED BY <1>5, <1>7 DEF u

\* Taking the bias off leaves 16 bits.
LEMMA AroundBias ==
  ASSUME NEW t \in Nat, t <= 32256
  PROVE  132 - t \in Pcm /\ t - 132 \in Pcm
<1>1. 132 - t \in Int /\ 132 - t + 32768 >= 0 /\ 132 - t <= 32767
  OBVIOUS
<1>2. t - 132 \in Int /\ t - 132 + 32768 >= 0 /\ t - 132 <= 32767
  OBVIOUS
<1> QED BY <1>1, <1>2, InPcm

\* The middle of a step is a biased magnitude, in the same segment and step.
LEMMA MiddleBounds ==
  ASSUME NEW m \in Biased
  PROVE  /\ Middle(m) \in Nat /\ 132 <= Middle(m) /\ Middle(m) <= 32256
         /\ Segment(Middle(m)) = Segment(m) /\ StepOf(Middle(m)) = StepOf(m)
         /\ 32 * Abs(Middle(m) - m) <= m
<1> DEFINE w == Width(m)
           q == StepOf(m)
           t == w * q + w \div 2
<1>1. w \in {8, 16, 32, 64, 128, 256, 512, 1024} /\ q \in 16..31
  BY StepBounds DEF Width
<1>2. w * q <= m /\ m < w * q + w /\ m \in Nat /\ 132 <= m /\ m <= 32767
  BY StepBounds DEF Biased
<1>3. Middle(m) = t
  BY DEF Middle
<1>4. \/ m < 256 /\ w = 8
      \/ m >= 256 /\ m < 512 /\ w = 16
      \/ m >= 512 /\ m < 1024 /\ w = 32
      \/ m >= 1024 /\ m < 2048 /\ w = 64
      \/ m >= 2048 /\ m < 4096 /\ w = 128
      \/ m >= 4096 /\ m < 8192 /\ w = 256
      \/ m >= 8192 /\ m < 16384 /\ w = 512
      \/ m >= 16384 /\ w = 1024
  BY Segments
<1> HIDE DEF w, q
<1>5. t \in Nat /\ 132 <= t /\ t <= 32256
  BY <1>1, <1>2
<1>6. t \div w = q
  BY <1>1
<1>7. 32 * (t - m) <= m /\ 32 * (m - t) <= m
  BY <1>1, <1>2
<1>8. /\ (m < 256 <=> t < 256) /\ (m < 512 <=> t < 512)
      /\ (m < 1024 <=> t < 1024) /\ (m < 2048 <=> t < 2048)
      /\ (m < 4096 <=> t < 4096) /\ (m < 8192 <=> t < 8192) /\ (m < 16384 <=> t < 16384)
  BY <1>1, <1>2, <1>4
<1> HIDE DEF t
<1>9. Segment(t) = Segment(m) /\ Width(t) = Width(m)
  BY <1>8 DEF Segment, Width
<1>10. 32 * Abs(t - m) <= m
  BY <1>2, <1>5, <1>7 DEF Abs
<1>11. StepOf(t) = StepOf(m)
  BY <1>6, <1>9 DEF StepOf, w, q
<1> QED BY <1>3, <1>5, <1>9, <1>10, <1>11

\* Louder stays louder.
LEMMA MiddleMonotone ==
  ASSUME NEW m \in Biased, m < 32767
  PROVE  Middle(m) <= Middle(m + 1)
<1> DEFINE w == Width(m)
<1>1. m \in Nat /\ 132 <= m /\ m < 32767
  BY DEF Biased
<1>2. CASE Width(m + 1) = w
  <2>1. w \in {8, 16, 32, 64, 128, 256, 512, 1024}
    BY DEF Width
  <2> HIDE DEF w
  <2>2. m \div w \in Nat /\ (m + 1) \div w \in Nat /\ m \div w <= (m + 1) \div w
    BY <1>1, <2>1
  <2>3. w * (m \div w) <= w * ((m + 1) \div w)
    BY <2>1, <2>2
  <2>4. w * (m \div w) + w \div 2 <= w * ((m + 1) \div w) + w \div 2
    BY <2>1, <2>2, <2>3
  <2>5. Middle(m) = w * (m \div w) + w \div 2
    BY DEF Middle, StepOf, w
  <2>6. Middle(m + 1) = w * ((m + 1) \div w) + w \div 2
    BY <1>2 DEF Middle, StepOf
  <2> QED BY <2>4, <2>5, <2>6
<1>3. CASE Width(m + 1) # w
  <2>1. m + 1 \in {256, 512, 1024, 2048, 4096, 8192, 16384}
    BY <1>1, <1>3 DEF Width
  <2>2. m \in {255, 511, 1023, 2047, 4095, 8191, 16383}
    BY <1>1, <2>1
  <2> QED BY <2>2 DEF Middle, StepOf, Width
<1> QED BY <1>2, <1>3

\* A magnitude through encoder and decoder becomes the middle of its step.
LEMMA Companding ==
  ASSUME NEW m \in Biased, NEW sign \in {0, 1}
  PROVE  /\ Code(sign, m) \in Byte
         /\ Decode(Code(sign, m)) = IF sign = 1 THEN 132 - Middle(m) ELSE Middle(m) - 132
<1>1. Segment(m) \in 0..7 /\ StepOf(m) \in 16..31
  BY StepBounds
<1>2. Width(m) = 8 * 2 ^ Segment(m) /\ 2 ^ Segment(m) \in {1, 2, 4, 8, 16, 32, 64, 128}
  BY <1>1, Powers DEF Width, Segment, Bottom
<1>3. (8 * StepOf(m) + 4) * 2 ^ Segment(m) = Middle(m)
  <2>1. \A p \in {1, 2, 4, 8, 16, 32, 64, 128} : \A q \in 16..31 :
          (8 * q + 4) * p = 8 * p * q + (8 * p) \div 2
    OBVIOUS
  <2> QED BY <1>1, <1>2, <2>1 DEF Middle
<1>4. 132 - Middle(m) \in Pcm /\ Middle(m) - 132 \in Pcm
  <2>1. Middle(m) \in Nat /\ Middle(m) <= 32256
    BY MiddleBounds
  <2> QED BY <2>1, AroundBias
<1>5. Code(sign, m) \in Byte
  BY <1>1, CodeOf, DecodeOf
<1>6. Decode(Code(sign, m)) = ToInt16(IF sign = 1 THEN 132 - Middle(m) ELSE Middle(m) - 132)
  <2>1. \A e \in 0..7 : \A q \in 16..31 :
          Decode(255 - (128 * sign + 16 * e + (q - 16))) =
            ToInt16(IF sign = 1 THEN 132 - (8 * q + 4) * 2 ^ e ELSE (8 * q + 4) * 2 ^ e - 132)
    BY DecodeOf, ZenonT(40)
  <2>2. Decode(Code(sign, m)) =
          ToInt16(IF sign = 1 THEN 132 - (8 * StepOf(m) + 4) * 2 ^ Segment(m)
                              ELSE (8 * StepOf(m) + 4) * 2 ^ Segment(m) - 132)
    <3>1. Code(sign, m) = 255 - (128 * sign + 16 * Segment(m) + (StepOf(m) - 16))
      BY CodeOf
    <3> QED BY <1>1, <2>1, <3>1, ZenonT(40)
  <2> QED BY <2>2, <1>3
<1>7. 132 - Middle(m) \in Int /\ Middle(m) - 132 \in Int
  BY MiddleBounds
<1>8. ToInt16(132 - Middle(m)) = 132 - Middle(m) /\ ToInt16(Middle(m) - 132) = Middle(m) - 132
  BY <1>4, <1>7, Int16Fits
<1>9. CASE sign = 1
  BY <1>5, <1>6, <1>8, <1>9
<1>10. CASE sign # 1
  BY <1>5, <1>6, <1>8, <1>10
<1> QED BY <1>9, <1>10

-----------------------------------------------------------------------------
(* The codec                                                                *)

\* The biased magnitude that is encoded for a sample, once widened and clipped.
Loudness(s) == Least(Abs(s), Clip) + Bias

\* What it is, whatever the sample.
LEMMA LoudnessBounds ==
  ASSUME NEW s \in Pcm
  PROVE  /\ s \in Int /\ s + 32768 >= 0 /\ s <= 32767
         /\ Loudness(s) \in Biased /\ Loudness(s) <= 32767
         /\ s < 0 => Loudness(s) = Least(-s, 32635) + 132
         /\ s >= 0 => Loudness(s) = Least(s, 32635) + 132
<1>1. s \in Int /\ s + 32768 >= 0 /\ s <= 32767
  BY InPcm
<1>2. Loudness(s) \in Nat /\ 132 <= Loudness(s) /\ Loudness(s) <= 32767
  BY <1>1 DEF Loudness, Least, Abs, Clip, Bias
<1>3. s < 0 => Loudness(s) = Least(-s, 32635) + 132
  BY <1>1 DEF Loudness, Least, Abs, Clip, Bias
<1>4. s >= 0 => Loudness(s) = Least(s, 32635) + 132
  BY <1>1 DEF Loudness, Least, Abs, Clip, Bias
<1> QED BY <1>1, <1>2, <1>3, <1>4 DEF Biased

\* A sample is carried as the middle of its step, with its sign.
LEMMA CarriedIs ==
  ASSUME NEW s \in Pcm
  PROVE  /\ Encode(s) = Code(Sign(s), Loudness(s)) /\ Encode(s) \in Byte
         /\ s < 0 => Carried(s) = 132 - Middle(Loudness(s))
         /\ s >= 0 => Carried(s) = Middle(Loudness(s)) - 132
<1> DEFINE m == Loudness(s)
           sign == Sign(s)
<1>1. m \in Biased /\ sign \in {0, 1} /\ (s < 0 => sign = 1) /\ (s >= 0 => sign = 0)
  BY LoudnessBounds DEF Sign
<1>2. Encode(s) = Code(sign, m)
  BY DEF Encode, Loudness
<1> HIDE DEF m, sign
<1>3. Code(sign, m) \in Byte
  BY <1>1, Companding
<1>4. Decode(Code(sign, m)) = IF sign = 1 THEN 132 - Middle(m) ELSE Middle(m) - 132
  BY <1>1, Companding
<1>5. CASE s < 0
  <2>1. sign = 1
    BY <1>1, <1>5
  <2>2. Decode(Code(sign, m)) = 132 - Middle(m)
    BY <2>1, <1>4
  <2> QED BY <2>2, <1>2, <1>3, <1>5, LoudnessBounds DEF Carried, m, sign
<1>6. CASE s >= 0
  <2>1. sign = 0
    BY <1>1, <1>6
  <2>2. Decode(Code(sign, m)) = Middle(m) - 132
    BY <2>1, <1>4
  <2> QED BY <2>2, <1>2, <1>3, <1>6, LoudnessBounds DEF Carried, m, sign
<1> QED BY <1>5, <1>6, LoudnessBounds

\* Numbers of one sign have a product that is not negative.
LEMMA OneSign ==
  ASSUME NEW a \in Int, NEW b \in Int, (a >= 0 /\ b >= 0) \/ (a <= 0 /\ b <= 0)
  PROVE  a * b >= 0
OBVIOUS

\* What is carried, in numbers: never louder than 32124, within half a step.
LEMMA CarriedBounds ==
  ASSUME NEW s \in Pcm
  PROVE  /\ Carried(s) \in Int /\ Carried(s) \in Pcm
         /\ s < 0 => 0 - 32124 <= Carried(s) /\ Carried(s) <= 0
         /\ s >= 0 => 0 <= Carried(s) /\ Carried(s) <= 32124
<1> DEFINE t == Middle(Loudness(s))
<1>1. t \in Nat /\ 132 <= t /\ t <= 32256
  BY LoudnessBounds, MiddleBounds
<1> HIDE DEF t
<1>2. s \in Int /\ (s < 0 => Carried(s) = 132 - t) /\ (s >= 0 => Carried(s) = t - 132)
  BY LoudnessBounds, CarriedIs DEF t
<1>3. 132 - t \in Pcm /\ t - 132 \in Pcm
  BY <1>1, AroundBias
<1>4. CASE s < 0
  BY <1>1, <1>2, <1>3, <1>4
<1>5. CASE s >= 0
  BY <1>1, <1>2, <1>3, <1>5
<1> QED BY <1>2, <1>4, <1>5

\* The error is at most half a step.
LEMMA CarriedClose ==
  ASSUME NEW s \in Pcm
  PROVE  LET c == IF s < 0 THEN -Least(-s, Clip) ELSE Least(s, Clip)
         IN  32 * Abs(Carried(s) - c) <= Abs(c) + Bias
<1> DEFINE m == Loudness(s)
           t == Middle(m)
           c == IF s < 0 THEN -Least(-s, Clip) ELSE Least(s, Clip)
<1>1. /\ m \in Nat /\ 132 <= m /\ t \in Nat
      /\ 32 * Abs(t - m) <= m
  BY LoudnessBounds, MiddleBounds DEF Biased
<1>2. s \in Int /\ (s < 0 => Carried(s) = 132 - t) /\ (s >= 0 => Carried(s) = t - 132)
  BY LoudnessBounds, CarriedIs
<1>3. (s < 0 => c = 132 - m) /\ (s >= 0 => c = m - 132)
  BY LoudnessBounds DEF Clip, Least
<1> HIDE DEF m, t, c
<1>4. CASE s < 0
  <2>1. Carried(s) - c = m - t /\ c = 132 - m
    BY <1>1, <1>2, <1>3, <1>4
  <2>2. Abs(m - t) = Abs(t - m) /\ Abs(132 - m) + 132 = m
    BY <1>1 DEF Abs
  <2> QED BY <1>1, <2>1, <2>2 DEF Bias, c
<1>5. CASE s >= 0
  <2>1. Carried(s) - c = t - m /\ c = m - 132
    BY <1>1, <1>2, <1>3, <1>5
  <2>2. Abs(m - 132) + 132 = m
    BY <1>1 DEF Abs
  <2> QED BY <1>1, <2>1, <2>2 DEF Bias, c
<1> QED BY <1>2, <1>4, <1>5

\* Louder stays louder, through zero as well.
LEMMA CarriedMonotone ==
  ASSUME NEW s \in Pcm, s < 32767
  PROVE  Carried(s) <= Carried(s + 1)
<1>1. s \in Int /\ s + 1 \in Pcm
  BY LoudnessBounds, InPcm
<1> DEFINE m == Loudness(s)
           n == Loudness(s + 1)
<1>2. m \in Biased /\ n \in Biased
  BY <1>1, LoudnessBounds
<1>3. Middle(m) \in Nat /\ Middle(n) \in Nat
  BY <1>2, MiddleBounds
<1>4. CASE s >= 0
  <2>1. n = m \/ (n = m + 1 /\ m < 32767)
    BY <1>1, <1>4, LoudnessBounds DEF Least
  <2> HIDE DEF m, n
  <2>2. Middle(m) <= Middle(n)
    BY <1>2, <1>3, <2>1, MiddleMonotone
  <2>3. s + 1 >= 0
    BY <1>1, <1>4
  <2>4. Carried(s) = Middle(m) - 132 /\ Carried(s + 1) = Middle(n) - 132
    BY <1>1, <1>4, <2>3, CarriedIs DEF m, n
  <2> QED BY <1>3, <2>2, <2>4
<1>5. CASE s < -1
  <2>1. m = n \/ (m = n + 1 /\ n < 32767)
    BY <1>1, <1>5, LoudnessBounds DEF Least
  <2> HIDE DEF m, n
  <2>2. Middle(n) <= Middle(m)
    BY <1>2, <1>3, <2>1, MiddleMonotone
  <2>3. s < 0 /\ s + 1 < 0
    BY <1>1, <1>5
  <2>4. Carried(s) = 132 - Middle(m) /\ Carried(s + 1) = 132 - Middle(n)
    BY <1>1, <2>3, CarriedIs DEF m, n
  <2> QED BY <1>3, <2>2, <2>4
<1>6. CASE s = -1
  <2>1. s < 0 /\ s + 1 >= 0
    BY <1>6
  <2>2. Carried(s) \in Int /\ Carried(s) <= 0
    BY <2>1, CarriedBounds
  <2>3. Carried(s + 1) \in Int /\ 0 <= Carried(s + 1)
    BY <1>1, <2>1, CarriedBounds
  <2> QED BY <2>2, <2>3
<1> QED BY <1>1, <1>4, <1>5, <1>6

\* A second pass through the codec changes nothing.
LEMMA CarriedAgain ==
  ASSUME NEW s \in Pcm, Carried(s) # 0
  PROVE  Encode(Carried(s)) = Encode(s)
<1> DEFINE m == Loudness(s)
           t == Middle(m)
<1>1. m \in Biased
  BY LoudnessBounds
<1>2. /\ t \in Nat /\ 132 <= t /\ t <= 32256 /\ t \in Biased
      /\ Segment(t) = Segment(m) /\ StepOf(t) = StepOf(m)
  BY <1>1, MiddleBounds DEF Biased
<1>3. s \in Int /\ (s < 0 => Carried(s) = 132 - t) /\ (s >= 0 => Carried(s) = t - 132)
  BY LoudnessBounds, CarriedIs
<1>4. Carried(s) \in Pcm
  BY CarriedBounds
<1>5. Sign(s) \in {0, 1}
  BY DEF Sign
<1>6. Code(Sign(s), t) = Code(Sign(s), m)
  BY <1>1, <1>2, <1>5, CodeOf
<1> HIDE DEF m, t
<1>7. Sign(Carried(s)) = Sign(s) /\ Loudness(Carried(s)) = t
  <2>1. CASE s < 0
    <3>1. Carried(s) = 132 - t /\ 132 - t < 0
      BY <1>2, <1>3, <2>1
    <3>2. Least(-(132 - t), 32635) + 132 = t
      BY <1>2 DEF Least
    <3> QED BY <1>4, <2>1, <3>1, <3>2, LoudnessBounds DEF Sign
  <2>2. CASE s >= 0
    <3>1. Carried(s) = t - 132 /\ t - 132 >= 0 /\ ~(t - 132 < 0) /\ ~(s < 0)
      BY <1>2, <1>3, <2>2
    <3>2. Least(t - 132, 32635) + 132 = t
      BY <1>2 DEF Least
    <3> QED BY <1>4, <2>2, <3>1, <3>2, LoudnessBounds DEF Sign
  <2> QED BY <1>3, <2>1, <2>2
<1> QED BY <1>4, <1>6, <1>7, CarriedIs DEF m

\* The codec is faithful to every sample.
LEMMA FaithfulCompanding == ASSUME NEW s \in Pcm PROVE CompandingIsFaithful(s)
<1>1. s \in Int /\ Encode(s) \in Byte
  BY LoudnessBounds, CarriedIs
<1>2. Carried(s) * s >= 0
  <2>1. Carried(s) \in Int /\ ((Carried(s) >= 0 /\ s >= 0) \/ (Carried(s) <= 0 /\ s <= 0))
    BY <1>1, CarriedBounds
  <2> QED BY <1>1, <2>1, OneSign
<1> QED BY <1>1, <1>2, CarriedClose, CarriedMonotone, CarriedAgain DEF CompandingIsFaithful
-----------------------------------------------------------------------------
(* The gains                                                                *)

\* A product by a factor of at most 256, of at least 256.
LEMMA Scaled ==
  ASSUME NEW a \in Nat, NEW g \in Nat
  PROVE  /\ a * g \in Nat
         /\ g <= 256 => a * g <= 256 * a
         /\ g >= 256 => a * g >= 256 * a
OBVIOUS

\* The shift by eight bits rounds down.
LEMMA Shifted ==
  ASSUME NEW p \in Int
  PROVE  /\ p \div 256 \in Int
         /\ 256 * (p \div 256) <= p /\ p < 256 * (p \div 256) + 256
OBVIOUS

\* A sample times a factor that is not negative, shifted: the sign is kept, a
\* factor below 256 shrinks it, one above does not.
LEMMA Gained ==
  ASSUME NEW s \in Int, NEW g \in Nat
  PROVE  LET v == (s * g) \div 256 IN
         /\ v \in Int
         /\ s >= 0 => v >= 0 /\ (g <= 256 => v <= s) /\ (g >= 256 => v >= s)
         /\ s < 0 => v <= 0 /\ (g <= 256 => s <= v) /\ (g >= 256 => v <= s)
<1> DEFINE p == s * g
           v == p \div 256
<1>1. p \in Int
  OBVIOUS
<1>2. s >= 0 => p >= 0 /\ (g <= 256 => p <= 256 * s) /\ (g >= 256 => p >= 256 * s)
  BY Scaled
<1>3. s < 0 => p <= 0 /\ (g <= 256 => 256 * s <= p) /\ (g >= 256 => p <= 256 * s)
  <2>1. ASSUME s < 0
        PROVE  -s \in Nat /\ p = -((-s) * g)
    BY <2>1
  <2>2. ASSUME s < 0
        PROVE  /\ (-s) * g \in Nat
               /\ g <= 256 => (-s) * g <= 256 * (-s)
               /\ g >= 256 => (-s) * g >= 256 * (-s)
    BY <2>1, <2>2, Scaled
  <2> DEFINE n == (-s) * g
  <2>3. s < 0 => n \in Nat /\ p = -n /\ (g <= 256 => n <= 256 * (-s)) /\ (g >= 256 => n >= 256 * (-s))
    BY <2>1, <2>2
  <2> HIDE DEF n, p
  <2> QED BY <2>3
<1> HIDE DEF p
<1>4. v \in Int /\ 256 * v <= p /\ p < 256 * v + 256
  BY <1>1, Shifted
<1> HIDE DEF v
<1>5. s >= 0 => v >= 0 /\ (g <= 256 => v <= s) /\ (g >= 256 => v >= s)
  BY <1>1, <1>2, <1>4
<1>6. s < 0 => v <= 0 /\ (g <= 256 => s <= v) /\ (g >= 256 => v <= s)
  BY <1>1, <1>3, <1>4
<1> QED BY <1>4, <1>5, <1>6 DEF v, p

\* Ducking shrinks the sample and keeps its sign.
LEMMA FaithfulDucking ==
  ASSUME NEW s \in Pcm
  PROVE  Abs(Ducked(s)) <= Abs(s) /\ Ducked(s) * s >= 0
<1> DEFINE v == (s * DuckQ8) \div 256
<1>1. s \in Int /\ s + 32768 >= 0 /\ s <= 32767 /\ DuckQ8 \in Nat /\ DuckQ8 <= 256
  BY LoudnessBounds, GainAssumption
<1>2. /\ v \in Int
      /\ s >= 0 => v >= 0 /\ v <= s
      /\ s < 0 => v <= 0 /\ s <= v
  BY <1>1, Gained
<1>3. Ducked(s) = ToInt16(v)
  BY DEF Ducked
<1> HIDE DEF v
<1>4. v + 32768 >= 0 /\ v <= 32767
  BY <1>1, <1>2
<1>5. v \in Pcm
  BY <1>2, <1>4, InPcm
<1>6. Ducked(s) = v
  BY <1>2, <1>3, <1>5, Int16Fits
<1>7. Abs(v) <= Abs(s)
  BY <1>1, <1>2 DEF Abs
<1>8. v * s >= 0
  BY <1>1, <1>2, OneSign
<1> QED BY <1>6, <1>7, <1>8

\* The receive gain saturates: it keeps the sign, fits 16 bits, and from 0 dB
\* upwards makes no sample softer.
LEMMA FaithfulGain ==
  ASSUME NEW s \in Pcm
  PROVE  /\ Louder(s) \in Pcm /\ Louder(s) * s >= 0
         /\ RxGainQ8 >= 256 => Abs(Louder(s)) >= Abs(s)
<1>1. s \in Int /\ s + 32768 >= 0 /\ s <= 32767 /\ RxGainQ8 \in Nat
  BY LoudnessBounds, GainAssumption
<1>2. CASE RxGainQ8 = 256
  <2>1. Louder(s) = s
    BY <1>2 DEF Louder
  <2>2. s * s >= 0
    BY <1>1, OneSign
  <2>3. Abs(s) >= Abs(s)
    BY <1>1 DEF Abs
  <2> QED BY <2>1, <2>2, <2>3
<1>3. CASE RxGainQ8 # 256
  <2> DEFINE v == (s * RxGainQ8) \div 256
             w == IF v > 32767 THEN 32767 ELSE IF v < -32768 THEN -32768 ELSE v
  <2>1. /\ v \in Int
        /\ s >= 0 => v >= 0 /\ (RxGainQ8 >= 256 => v >= s)
        /\ s < 0 => v <= 0 /\ (RxGainQ8 >= 256 => v <= s)
    BY <1>1, Gained
  <2>2. Louder(s) = w
    BY <1>3 DEF Louder
  <2> HIDE DEF v
  <2>3. /\ w \in Int /\ w + 32768 >= 0 /\ w <= 32767
        /\ s >= 0 => w >= 0 /\ (RxGainQ8 >= 256 => w >= s)
        /\ s < 0 => w <= 0 /\ (RxGainQ8 >= 256 => w <= s)
    BY <1>1, <2>1
  <2> HIDE DEF w
  <2>4. w \in Pcm
    BY <2>3, InPcm
  <2>5. w * s >= 0
    BY <1>1, <2>3, OneSign
  <2>6. RxGainQ8 >= 256 => Abs(w) >= Abs(s)
    BY <1>1, <2>3 DEF Abs
  <2> QED BY <2>2, <2>4, <2>5, <2>6
<1> QED BY <1>2, <1>3

\* No gain turns a sample over, and the magnitude of what the codec delivers is
\* its absolute value: the codec never delivers -32768.
LEMMA FaithfulGains == ASSUME NEW s \in Pcm PROVE GainsAreFaithful(s)
<1>1. /\ Carried(s) \in Int /\ 0 - 32124 <= Carried(s) /\ Carried(s) <= 32124
  BY LoudnessBounds, CarriedBounds
<1>2. -Carried(s) \in Int /\ -Carried(s) \in Pcm
  BY <1>1, InPcm
<1>3. ToInt16(-Carried(s)) = -Carried(s)
  BY <1>2, Int16Fits
<1>4. Magnitude(Carried(s)) = Abs(Carried(s))
  BY <1>3 DEF Magnitude, Abs
<1> QED BY <1>4, FaithfulDucking, FaithfulGain DEF GainsAreFaithful

-----------------------------------------------------------------------------
(* The specification                                                        *)

\* The input is a sample.
IsSample == pcm \in Pcm

\* Samples stay samples.
LEMMA Sampled == Spec => []IsSample
<1>1. Init => IsSample
  <2>1. -32768 \in Int /\ -32768 + 32768 >= 0 /\ -32768 <= 32767
    OBVIOUS
  <2> QED BY <2>1, InPcm DEF Init, IsSample
<1>2. IsSample /\ [Next]_<<pcm, body, sdp>> => IsSample'
  <2> SUFFICES ASSUME pcm \in Pcm, [Next]_<<pcm, body, sdp>> PROVE pcm' \in Pcm
    BY DEF IsSample
  <2>1. CASE NextSample
    <3>1. pcm \in Int /\ pcm + 32768 >= 0 /\ pcm < 32767 /\ pcm' = pcm + 1
      BY <2>1, InPcm DEF NextSample
    <3>2. pcm + 1 \in Int /\ pcm + 1 + 32768 >= 0 /\ pcm + 1 <= 32767
      BY <3>1
    <3> QED BY <3>1, <3>2, InPcm
  <2>2. CASE NextLine
    BY <2>2 DEF NextLine
  <2>3. CASE UNCHANGED <<pcm, body, sdp>>
    BY <2>3
  <2> QED BY <2>1, <2>2, <2>3 DEF Next
<1> QED BY <1>1, <1>2, PTL DEF Spec

\* Whatever the sample, the receive gain and the ducking: what the far end says
\* is what the speaker plays, to within half a step of the codec, its sign kept
\* and louder kept louder, no gain wrapping round and no loudest sample losing
\* its sign (g711.c, app_main.cpp).
THEOREM VoiceFaithful == Spec => []VoiceIsFaithful
<1>1. IsSample => VoiceIsFaithful
  BY FaithfulCompanding, FaithfulGains DEF IsSample, VoiceIsFaithful
<1> QED BY <1>1, Sampled, PTL
-----------------------------------------------------------------------------
(* The endpoint                                                             *)

\* The lines of the offer that the reader does not skip, and the last of a type.
Read == {i \in DOMAIN body : \E v \in Where("v") : v <= i}
IsLast(type, i) ==
  /\ i \in Where(type) \cap Read
  /\ \A j \in Where(type) \cap Read : j <= i

\* The reader holds the address of the last c= line and the port of the last m=
\* line that it did not skip.
OfferInv ==
  /\ body \in Seq(Lines)
  /\ sdp = [version |-> sdp.version, connection |-> sdp.connection, port |-> sdp.port]
  /\ sdp.version = "read" <=> Where("v") # {}
  /\ \/ Where("c") \cap Read = {} /\ sdp.connection = Unset
     \/ \E i \in Where("c") : IsLast("c", i) /\ sdp.connection = body[i].value
  /\ \/ Where("m") \cap Read = {} /\ sdp.port = 0
     \/ \E i \in Where("m") : IsLast("m", i) /\ sdp.port = ExtractRtpPort(body[i].value)

\* What a line may be.
LEMMA LineIs ==
  ASSUME NEW l \in Lines
  PROVE  /\ l.type \in {"v", "other", "c", "m"}
         /\ l.type = "m" => l.value \in Nat
BY PortsAssumption DEF Lines, Line

\* What one more line adds.
LEMMA OneMore ==
  ASSUME body \in Seq(Lines), NEW l \in Lines, body' = Append(body, l),
         NEW type
  PROVE  LET n == Len(body) + 1 IN
         /\ n \in Nat /\ body'[n] = l /\ n \notin DOMAIN body /\ DOMAIN body \subseteq Nat
         /\ \A i \in DOMAIN body : i < n /\ body'[i] = body[i]
         /\ DOMAIN body' = DOMAIN body \cup {n}
         /\ Where(type)' = Where(type) \cup {i \in {n} : l.type = type}
<1> DEFINE n == Len(body) + 1
<1>1. /\ n \in Nat /\ DOMAIN body = 1..(n - 1) /\ DOMAIN body' = 1..n
      /\ body'[n] = l /\ \A i \in 1..(n - 1) : body'[i] = body[i]
  OBVIOUS
<1> HIDE DEF n
<1>2. /\ n \notin DOMAIN body /\ DOMAIN body \subseteq Nat
      /\ \A i \in DOMAIN body : i < n /\ body'[i] = body[i]
      /\ DOMAIN body' = DOMAIN body \cup {n}
  BY <1>1
<1>3. Where(type)' = Where(type) \cup {i \in {n} : l.type = type}
  BY <1>1, <1>2, Zenon DEF Where
<1> QED BY <1>1, <1>2, <1>3 DEF n

\* Reading a line keeps the reader's books.
LEMMA OfferInvStep ==
  ASSUME OfferInv, NEW l \in Lines, body' = Append(body, l), sdp' = ReadLine(sdp, l)
  PROVE  OfferInv'
<1>1. body \in Seq(Lines) /\ body' \in Seq(Lines)
  BY DEF OfferInv
<1>6. PICK n \in Nat : n = Len(body) + 1
  BY <1>1
<1>2. /\ n \in Nat /\ body'[n] = l /\ n \notin DOMAIN body /\ DOMAIN body \subseteq Nat
      /\ \A i \in DOMAIN body : i < n /\ body'[i] = body[i]
      /\ DOMAIN body' = DOMAIN body \cup {n}
      /\ \A type : Where(type)' = Where(type) \cup {i \in {n} : l.type = type}
  BY <1>1, <1>6, OneMore
<1>3. /\ \A type : Where(type) \subseteq DOMAIN body
      /\ Read \subseteq DOMAIN body
  BY DEF Where, Read
<1>4. CASE sdp.version # "read" /\ l.type # "v"
  <2>1. sdp' = sdp
    BY <1>4 DEF ReadLine
  <2>2. Where("v") = {} /\ Where("v")' = {}
    BY <1>2, <1>4 DEF OfferInv
  <2>3. Read = {} /\ Read' = {}
    BY <2>2 DEF Read
  <2>4. \A type, i : ~IsLast(type, i)
    BY <2>3 DEF IsLast
  <2>5. sdp.connection = Unset /\ sdp.port = 0 /\ sdp.version # "read"
    BY <1>4, <2>4 DEF OfferInv
  <2>6. (Where("c") \cap Read = {} /\ sdp.connection = Unset)'
    BY <2>1, <2>3, <2>5
  <2>7. (Where("m") \cap Read = {} /\ sdp.port = 0)'
    BY <2>1, <2>3, <2>5
  <2>8. /\ (sdp = [version |-> sdp.version, connection |-> sdp.connection, port |-> sdp.port])'
        /\ (sdp.version = "read" <=> Where("v") # {})'
    BY <2>1, <2>2, <2>5 DEF OfferInv
  <2> QED BY <1>1, <2>6, <2>7, <2>8 DEF OfferInv
<1>5. CASE sdp.version = "read" \/ l.type = "v"
  <2>1. Where("v")' # {}
    BY <1>2, <1>5 DEF OfferInv
  <2>2. Read' = Read \cup {n}
    <3>1. \E v \in Where("v")' : v <= n
      BY <1>2, <1>3, <2>1
    <3>2. \A i \in DOMAIN body :
            (\E v \in Where("v")' : v <= i) <=> (\E v \in Where("v") : v <= i)
      BY <1>2, <1>3
    <3> QED BY <1>2, <3>1, <3>2 DEF Read
  <2>3. sdp' = ParseLine(sdp, l) /\ (l.type # "v" => sdp.version = "read")
    BY <1>5 DEF ReadLine
  <2>4. sdp = [version |-> sdp.version, connection |-> sdp.connection, port |-> sdp.port]
    BY DEF OfferInv
  <2>5. sdp' = [version |-> "read",
                connection |-> IF l.type = "c" THEN l.value ELSE sdp.connection,
                port |-> IF l.type = "m" THEN ExtractRtpPort(l.value) ELSE sdp.port]
    <3>1. CASE l.type = "v"
      BY <2>3, <2>4, <3>1 DEF ParseLine
    <3>2. CASE l.type = "c"
      BY <2>3, <2>4, <3>2 DEF ParseLine
    <3>3. CASE l.type = "m"
      BY <2>3, <2>4, <3>3 DEF ParseLine
    <3>4. CASE l.type = "other"
      BY <2>3, <2>4, <3>4 DEF ParseLine
    <3> QED BY <3>1, <3>2, <3>3, <3>4, LineIs
  <2>6. ASSUME NEW type, l.type = type
        PROVE  n \in Where(type)' /\ IsLast(type, n)'
    <3>1. n \in Where(type)' /\ n \in Read'
      BY <1>2, <2>2, <2>6
    <3>2. \A j \in Read' : j <= n
      BY <1>2, <1>3, <2>2
    <3>3. n \in (Where(type) \cap Read)' /\ \A j \in (Where(type) \cap Read)' : j <= n
      BY <3>1, <3>2
    <3> QED BY <3>1, <3>3 DEF IsLast
  <2>7. ASSUME NEW type, l.type # type
        PROVE  /\ Where(type)' = Where(type)
               /\ (Where(type) \cap Read)' = Where(type) \cap Read
               /\ \A i \in Where(type) : IsLast(type, i) => IsLast(type, i)' /\ body'[i] = body[i]
    <3>1. Where(type)' = Where(type)
      BY <1>2, <2>7
    <3>2. (Where(type) \cap Read)' = Where(type) \cap Read
      BY <1>2, <1>3, <2>2, <3>1
    <3> QED BY <1>2, <1>3, <3>1, <3>2 DEF IsLast
  <2>8. \/ (Where("c") \cap Read = {} /\ sdp.connection = Unset)'
        \/ (\E i \in Where("c") : IsLast("c", i) /\ sdp.connection = body[i].value)'
    <3>1. CASE l.type = "c"
      <4>1. n \in Where("c")' /\ IsLast("c", n)' /\ sdp'.connection = body'[n].value
        BY <1>2, <2>5, <2>6, <3>1
      <4> QED BY <4>1
    <3>2. CASE l.type # "c"
      <4>1. sdp'.connection = sdp.connection
        BY <2>5, <3>2
      <4>2. CASE Where("c") \cap Read = {} /\ sdp.connection = Unset
        <5>1. (Where("c") \cap Read = {} /\ sdp.connection = Unset)'
          BY <2>7, <3>2, <4>1, <4>2
        <5> QED BY <5>1
      <4>3. CASE \E i \in Where("c") : IsLast("c", i) /\ sdp.connection = body[i].value
        <5>1. PICK i \in Where("c") : IsLast("c", i) /\ sdp.connection = body[i].value
          BY <4>3
        <5>2. i \in Where("c")' /\ IsLast("c", i)' /\ body'[i] = body[i]
          BY <2>7, <3>2, <5>1
        <5>3. sdp'.connection = body'[i].value
          BY <4>1, <5>1, <5>2
        <5> QED BY <5>2, <5>3
      <4> QED BY <4>2, <4>3 DEF OfferInv
    <3> QED BY <3>1, <3>2
  <2>9. \/ (Where("m") \cap Read = {} /\ sdp.port = 0)'
        \/ (\E i \in Where("m") : IsLast("m", i) /\ sdp.port = ExtractRtpPort(body[i].value))'
    <3>1. CASE l.type = "m"
      <4>1. n \in Where("m")' /\ IsLast("m", n)' /\ sdp'.port = ExtractRtpPort(body'[n].value)
        BY <1>2, <2>5, <2>6, <3>1
      <4> QED BY <4>1
    <3>2. CASE l.type # "m"
      <4>1. sdp'.port = sdp.port
        BY <2>5, <3>2
      <4>2. CASE Where("m") \cap Read = {} /\ sdp.port = 0
        <5>1. (Where("m") \cap Read = {} /\ sdp.port = 0)'
          BY <2>7, <3>2, <4>1, <4>2
        <5> QED BY <5>1
      <4>3. CASE \E i \in Where("m") : IsLast("m", i) /\ sdp.port = ExtractRtpPort(body[i].value)
        <5>1. PICK i \in Where("m") : IsLast("m", i) /\ sdp.port = ExtractRtpPort(body[i].value)
          BY <4>3
        <5>2. i \in Where("m")' /\ IsLast("m", i)' /\ body'[i] = body[i]
          BY <2>7, <3>2, <5>1
        <5>3. sdp'.port = ExtractRtpPort(body'[i].value)
          BY <4>1, <5>1, <5>2
        <5> QED BY <5>2, <5>3
      <4> QED BY <4>2, <4>3 DEF OfferInv
    <3> QED BY <3>1, <3>2
  <2>10. /\ (sdp = [version |-> sdp.version, connection |-> sdp.connection, port |-> sdp.port])'
         /\ (sdp.version = "read" <=> Where("v") # {})'
    BY <2>1, <2>5
  <2> QED BY <1>1, <2>8, <2>9, <2>10 DEF OfferInv
<1> QED BY <1>4, <1>5 DEF OfferInv

\* The reader's books hold of every offer.
LEMMA OfferRead == Spec => []OfferInv
<1>1. Init => OfferInv
  <2> SUFFICES ASSUME Init PROVE OfferInv
    OBVIOUS
  <2>1. body \in Seq(Lines) /\ DOMAIN body = {}
    BY DEF Init
  <2>2. Read = {} /\ \A type : Where(type) = {}
    BY <2>1 DEF Read, Where
  <2> QED BY <2>1, <2>2 DEF Init, NoMedia, OfferInv
<1>2. OfferInv /\ [Next]_<<pcm, body, sdp>> => OfferInv'
  <2> SUFFICES ASSUME OfferInv, [Next]_<<pcm, body, sdp>> PROVE OfferInv'
    OBVIOUS
  <2>1. CASE NextLine
    BY <2>1, OfferInvStep DEF NextLine
  <2>2. CASE UNCHANGED <<body, sdp>>
    BY <2>2 DEF OfferInv, Where, Read, IsLast
  <2> QED BY <2>1, <2>2 DEF Next, NextSample
<1> QED BY <1>1, <1>2, PTL DEF Spec

\* Whatever the addresses, the ports and the number of lines: the endpoint the
\* phone aims at is the one of the offer's stream (SipSdpMessage.cpp,
\* tincan_uac.cpp).
THEOREM EndpointOffered == Spec => []EndpointIsOffered
<1>1. OfferInv => EndpointIsOffered
  <2> SUFFICES ASSUME OfferInv, OneStream PROVE EndpointIsOffered
    BY DEF EndpointIsOffered
  <2> DEFINE m    == CHOOSE i \in Where("m") : TRUE
             own  == {i \in Where("c") : i > m}
             used == IF own # {} THEN own ELSE Where("c")
  <2>1. /\ body \in Seq(Lines) /\ DOMAIN body \subseteq Nat /\ \A i \in DOMAIN body : 1 <= i
        /\ \A type : Where(type) \subseteq DOMAIN body
    BY DEF OfferInv, Where
  <2>2. /\ Where("m") = {m} /\ m \in DOMAIN body /\ body[m].value < 65536
        /\ \A i, j \in Where("c") : (i < m /\ j < m) \/ (i > m /\ j > m) => i = j
    <3>1. PICK k \in Where("m") :
            /\ Where("m") = {k} /\ body[k].value < 65536
            /\ \A i, j \in Where("c") : (i < k /\ j < k) \/ (i > k /\ j > k) => i = j
      BY DEF OneStream
    <3>2. m = k
      BY <3>1
    <3> QED BY <2>1, <3>1, <3>2
  <2>3. body[m].value \in Nat /\ body[m].type = "m"
    <3>1. body[m] \in Lines /\ body[m].type = "m"
      BY <2>1, <2>2 DEF Where
    <3> QED BY <3>1, LineIs
  <2> HIDE DEF m
  <2>4. Read = DOMAIN body
    <3>1. 1 \in Where("v")
      BY DEF OneStream
    <3>2. \A i \in DOMAIN body : \E v \in Where("v") : v <= i
      BY <2>1, <3>1
    <3> QED BY <3>2 DEF Read
  <2>5. sdp.port = body[m].value
    <3>1. sdp.port = ExtractRtpPort(body[m].value)
      BY <2>1, <2>2, <2>4 DEF OfferInv
    <3>2. body[m].value \div 10 <= 200000000
      BY <2>2, <2>3
    <3> QED BY <2>3, <3>1, <3>2 DEF ExtractRtpPort
  <2>6. \A i \in Where("c") : i \in Nat /\ i # m
    BY <2>1, <2>3 DEF Where
  <2>7. used = {} => sdp.connection = Unset
    BY DEF OfferInv
  <2>8. used # {} => \E i \in used : sdp.connection = body[i].value
    <3> SUFFICES ASSUME used # {} PROVE \E i \in used : sdp.connection = body[i].value
      OBVIOUS
    <3>1. PICK i \in Where("c") :
            /\ \A j \in Where("c") : j <= i
            /\ sdp.connection = body[i].value
      BY <2>1, <2>4 DEF OfferInv, IsLast
    <3>2. i \in used
      BY <2>1, <2>2, <2>6, <3>1
    <3> QED BY <3>1, <3>2
  <2>9. \A i, j \in used : i = j
    BY <2>1, <2>2, <2>6
  <2> HIDE DEF used
  <2>10. sdp.connection # Unset <=> \E i \in used : body[i].value # Unset
    BY <2>7, <2>8, <2>9
  <2>11. Learns(TRUE, sdp) <=> (\E i \in used : body[i].value # Unset) /\ body[m].value # 0
    BY <2>3, <2>5, <2>10 DEF Learns
  <2>12. sdp.port % 65536 = body[m].value
    BY <2>2, <2>3, <2>5
  <2>13. Learns(TRUE, sdp) =>
           \E i \in used : Target(sdp) = [ip |-> body[i].value, port |-> body[m].value]
    <3> SUFFICES ASSUME Learns(TRUE, sdp)
                 PROVE  \E i \in used :
                          Target(sdp) = [ip |-> body[i].value, port |-> body[m].value]
      OBVIOUS
    <3>1. PICK i \in used : sdp.connection = body[i].value
      BY <2>8, <2>11
    <3>2. Target(sdp) = [ip |-> body[i].value, port |-> body[m].value]
      BY <2>12, <3>1 DEF Target
    <3> QED BY <3>2
  <2>14. ~Learns(FALSE, sdp)
    BY DEF Learns
  <2> QED BY <2>11, <2>13, <2>14 DEF EndpointIsOffered, used, m
<1> QED BY <1>1, OfferRead, PTL

=============================================================================
