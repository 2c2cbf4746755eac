------------------------------- MODULE Expander -------------------------------
(***************************************************************************)
(* The XL9555 I/O expander and its driver (main/src/xl9555.c), on the I2C  *)
(* bus that may fail.  Two output registers switch the rails, the          *)
(* amplifier, the audio route and the reset lines; the driver never reads  *)
(* them back but keeps a shadow of each, changes a bit of the shadow and   *)
(* writes it whole, whether or not the write before went through.          *)
(*                                                                         *)
(* A register is the set of its pins that are high.  The chip keeps its    *)
(* registers when only the processor restarts.                             *)
(***************************************************************************)
EXTENDS Sequences, Naturals

Port == {0, 1}

CONSTANT RailSeq  (* the pins of port 0 that power a device, in the order raised:
                     6609_EN, LORA_EN, GPS_EN, 1V8_EN, LORA_SEL, DRV2605_EN *)

Rail == {RailSeq[i] : i \in DOMAIN RailSeq}

ASSUME RailAssumption ==
  /\ RailSeq \in Seq(Rail) /\ RailSeq # <<>>
  /\ Rail \cap {"SPK_AMP_EN", "TOUCH_RST"} = {}

P0Seq == RailSeq \o <<"SPK_AMP_EN", "TOUCH_RST">>
P1Seq == <<"4G_PWR", "KEYBOARD_RST", "AUDIO_ROUTE">>

Pins(p) == IF p = 0 THEN Rail \cup {"SPK_AMP_EN", "TOUCH_RST"}
           ELSE {"4G_PWR", "KEYBOARD_RST", "AUDIO_ROUTE"}

VARIABLES
  shadow,   (* s_p0_out, s_p1_out                                            *)
  writes,   (* output writes the call under way still has to make            *)
  outputs,  (* the chip: ports configured as outputs                         *)
  reg       (* the chip: output registers                                    *)

chip == <<outputs, reg>>

\* The statics s_p0_out and s_p1_out at start.
Unset == [p \in Port |-> {}]

\* The output registers at power on, when all pins are inputs.
AllHigh == [p \in Port |-> Pins(p)]

-----------------------------------------------------------------------------
(* Writes                                                                   *)

\* One write: bits changed in the shadow, then the shadow sent.
Drive(p, on, off) == [port |-> p, on |-> on, off |-> off]

\* Mutant: a pin is set by a write of that pin alone.
Set_Alone(p, pin) == Drive(p, {pin}, Pins(p) \ {pin})

Set(p, pin) == Drive(p, {pin}, {})
Clear(p, pin) == Drive(p, {}, {pin})

\* The bus takes the write or loses it; the callers do not look which.
BusWrite(landed) ==
  /\ writes # <<>> /\ writes' = Tail(writes)
  /\ LET w   == Head(writes)
         val == (shadow[w.port] \ w.off) \cup w.on
     IN /\ shadow' = [shadow EXCEPT ![w.port] = val]
        /\ reg' = IF landed THEN [reg EXCEPT ![w.port] = val] ELSE reg
  /\ UNCHANGED outputs

\* A call of the driver: the caller goes on when its writes are out.
Call(ws) == writes = <<>> /\ writes' = ws /\ UNCHANGED <<shadow, chip>>

-----------------------------------------------------------------------------
(* The calls                                                                *)

\* One write of a direction register.  A write reported lost may have landed.
Configure(p, ok) ==
  /\ \/ outputs' = outputs \cup {p}
     \/ ~ok /\ UNCHANGED outputs
  /\ UNCHANGED <<shadow, reg>>

Pulse(p, pin) == <<Clear(p, pin), Set(p, pin)>>

\* Every enable high, one pin per write from a shadow of 0; then the audio back
\* to the codec, and a pulse on the touch reset.
BringUp ==
  LET Raise(p, seq) ==
        [i \in 1..Len(seq) |-> Drive(p, {seq[i]}, IF i = 1 THEN Pins(p) ELSE {})]
  IN Raise(0, P0Seq) \o Raise(1, P1Seq)
       \o <<Clear(1, "AUDIO_ROUTE")>> \o Pulse(0, "TOUCH_RST")

SetSpeakerAmp(on) ==
  <<IF on THEN Set(0, "SPK_AMP_EN") ELSE Clear(0, "SPK_AMP_EN")>>

AudioRouteLocal == <<Clear(1, "AUDIO_ROUTE")>>
ResetKeyboard == Pulse(1, "KEYBOARD_RST")
ResetTouch == Pulse(0, "TOUCH_RST")
WritePorts(val) == <<Drive(0, val, Pins(0)), Drive(1, val, Pins(1))>>

\* A pin that is no output floats: the pull-up keeps a reset line released.
Low(p, pin) == p \in outputs /\ pin \notin reg[p]
=============================================================================
