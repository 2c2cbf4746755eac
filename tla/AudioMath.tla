------------------------------- MODULE AudioMath -------------------------------
(***************************************************************************)
(* The arithmetic a voice sample goes through: G.711 mu-law (g711.c), and  *)
(* what the audio task (app_main.cpp) does to a sample on its way: ducking *)
(* the microphone, measuring the far end, the receive gain.                *)
(*                                                                         *)
(* An int16_t is an integer of -32768..32767, a mu-law byte one of 0..255. *)
(* The code computes in int and converts the result back: only a conversion*)
(* can lose a value.  A right shift of a negative number rounds down, like *)
(* \div.                                                                   *)
(***************************************************************************)
EXTENDS Integers

CONSTANTS
  RxGainQ8,  (* receive gain, 256 being 0 dB: 1019 in the code, 12 dB       *)
  DuckQ8     (* ducking of the microphone: 16 in the code, -24 dB           *)

ASSUME GainAssumption == RxGainQ8 \in Nat \ {0} /\ DuckQ8 \in 0..256

Pcm == -32768..32767
Byte == 0..255

\* The conversion of an int to int16_t.
ToInt16(v) == ((v + 32768) % 65536) - 32768

Least(a, b) == IF a < b THEN a ELSE b
Abs(v) == IF v < 0 THEN -v ELSE v

-----------------------------------------------------------------------------
(* G.711                                                                    *)

Bias == 132
Clip == 32635

\* The segment of a biased magnitude: its highest bit, from bit 7 up to 14.
Exponent(m) == CHOOSE e \in 0..7 : 2 ^ (e + 7) <= m /\ (e < 7 => m < 2 ^ (e + 8))

Code(sign, m) ==
  LET e == Exponent(m) IN 255 - (128 * sign + 16 * e + ((m \div 2 ^ (e + 3)) % 16))

Sign(pcm) == IF pcm < 0 THEN 1 ELSE 0

\* Mutant: the loudest samples are not clipped.
Encode_Unclipped(pcm) == Code(Sign(pcm), Abs(pcm) + Bias)

\* g711_ulaw_encode(): the sample is widened before it is negated and clipped.
Encode(pcm) == Code(Sign(pcm), Least(Abs(pcm), Clip) + Bias)

\* g711_ulaw_decode()
Decode(byte) ==
  LET u == 255 - byte
      t == ((u % 16) * 8 + Bias) * 2 ^ ((u \div 16) % 8)
  IN ToInt16(IF u >= 128 THEN Bias - t ELSE t - Bias)

-----------------------------------------------------------------------------
(* The audio task                                                           *)

\* The microphone while the far end speaks.
Ducked(pcm) == ToInt16((pcm * DuckQ8) \div 256)

\* |sample| as the census and the ducking decision take it: negated in 16 bits.
Magnitude(pcm) == IF pcm < 0 THEN ToInt16(-pcm) ELSE pcm

\* The receive gain saturates.
Louder(pcm) ==
  IF RxGainQ8 = 256 THEN pcm
  ELSE LET v == (pcm * RxGainQ8) \div 256
       IN IF v > 32767 THEN 32767 ELSE IF v < -32768 THEN -32768 ELSE v
=============================================================================
