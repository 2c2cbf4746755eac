--------------------------------- MODULE Board ---------------------------------
(***************************************************************************)
(* The board from reset to power off: the bring-up of app_main()           *)
(* (main/src/app_main.cpp) up to its loop, the drivers it calls, what the  *)
(* loop asks of the amplifier and the keypad, and power_off(), over an I2C *)
(* bus that may lose any transfer.  try_init() logs a failure and goes on. *)
(*                                                                         *)
(* One task makes all these calls; keys and resets come in between.        *)
(* Display, Wi-Fi and registration are one step here (Up).                 *)
(***************************************************************************)
EXTENDS Expander, Keypad

VARIABLES
  stage,       (* what the main task does once "writes" is empty            *)
  initFailed,  (* s_init_failed                                             *)
  codec,       (* s_dev: "none", "closed" (it could not be opened), "open"  *)
  onUsb,       (* onUsb of power_off()                                      *)
  rails,       (* history: xl9555_init() has returned ESP_OK                *)
  whole        (* history: ports a write has reached since                  *)

expander == <<shadow, writes, chip>>
history  == <<rails, whole>>
vars     == <<expander, keypad, stage, initFailed, codec, onUsb, history>>

Init ==
  /\ shadow = Unset /\ writes = <<>>
  /\ outputs = {} /\ reg = AllHigh
  /\ KeypadInit
  /\ stage = "direction0" /\ initFailed = FALSE /\ codec = "none" /\ onUsb = FALSE
  /\ rails = FALSE /\ whole = {}

\* The next thing the main task does.
Goto(from, to) == stage = from /\ writes = <<>> /\ stage' = to

\* try_init(), of a driver that returned ESP_OK or an error.
Tried(ok) == initFailed' = (initFailed \/ ~ok)

-----------------------------------------------------------------------------
(* Bring-up                                                                 *)

\* xl9555_init(): the directions, and only then the outputs.
Direction0 ==
  \E ok \in BOOLEAN :
    /\ Goto("direction0", IF ok THEN "direction1" ELSE "codec")
    /\ Configure(0, ok) /\ UNCHANGED writes
    /\ Tried(ok)
    /\ UNCHANGED <<keypad, codec, onUsb, history>>

Direction1 ==
  \E ok \in BOOLEAN :
    /\ Goto("direction1", IF ok THEN "rails" ELSE "codec")
    /\ Configure(1, ok)
    /\ writes' = IF ok THEN BringUp ELSE <<>>
    /\ Tried(ok)
    /\ UNCHANGED <<keypad, codec, onUsb, history>>

RailsUp ==
  /\ Goto("rails", "codec")
  /\ rails' = TRUE
  /\ UNCHANGED <<expander, keypad, initFailed, codec, onUsb, whole>>

\* audio_hardware_init(): the route, then the codec device, made and opened.
RouteAudio ==
  /\ Goto("codec", "device")
  /\ Call(AudioRouteLocal)
  /\ UNCHANGED <<keypad, initFailed, codec, onUsb, history>>

\* Mutant: a device that is there counts as one that is open.
OpenCodec_Made ==
  /\ Goto("device", "amp")
  /\ codec' \in {"none", "closed", "open"}
  /\ Tried(codec' # "none")
  /\ UNCHANGED <<expander, keypad, onUsb, history>>

OpenCodec ==
  /\ Goto("device", "amp")
  /\ codec' \in {"none", "closed", "open"}
  /\ Tried(codec' = "open")
  /\ UNCHANGED <<expander, keypad, onUsb, history>>

AmpOffAtBoot ==
  /\ Goto("amp", "keyboard")
  /\ Call(SetSpeakerAmp(FALSE))
  /\ UNCHANGED <<keypad, initFailed, codec, onUsb, history>>

\* tca8418_init(): the reset pulse, four registers, the drain.
ResetController ==
  /\ Goto("keyboard", Registers[1])
  /\ Call(ResetKeyboard)
  /\ UNCHANGED <<keypad, initFailed, codec, onUsb, history>>

NextStage(i) == IF i < Len(Registers) THEN Registers[i + 1] ELSE "sweep"

\* The first register that is not written ends it.
ConfigureMatrix ==
  \E i \in DOMAIN Registers, ok \in BOOLEAN :
    /\ Goto(Registers[i], IF ok THEN NextStage(i) ELSE "up")
    /\ Low(1, "KEYBOARD_RST") => ~ok
    /\ IF Low(1, "KEYBOARD_RST") THEN UNCHANGED keypad ELSE ConfigureKeypad(Registers[i], ok)
    /\ Tried(ok)
    /\ UNCHANGED <<expander, codec, onUsb, history>>

BeginDrain ==
  /\ Goto("sweep", "drain")
  /\ DrainBegins
  /\ UNCHANGED <<expander, initFailed, codec, onUsb, history>>

InDrain == stage = "drain" /\ UNCHANGED <<expander, initFailed, codec, onUsb, history>>

DrainOne == InDrain /\ UNCHANGED stage /\ ~DrainEnds /\ Drains
DrainDone == InDrain /\ stage' = "up" /\ DrainEnds /\ UNCHANGED keypad
DrainBreaks == InDrain /\ stage' = "up" /\ DrainFails

\* Display, Wi-Fi and registration; without an address or a socket the program
\* stops in an empty loop.
Up ==
  /\ Goto("up", "loop") \/ Goto("up", "dead")
  /\ UNCHANGED <<expander, keypad, initFailed, codec, onUsb, history>>

-----------------------------------------------------------------------------
(* The loop                                                                 *)

\* One key a pass, if the interrupt line says there is one.
ReadKey ==
  /\ stage = "loop" /\ writes = <<>> /\ fifo # <<>>
  /\ GetKey
  /\ UNCHANGED <<expander, stage, initFailed, codec, onUsb, history>>

SetAmp ==
  \E on \in BOOLEAN :
    /\ stage = "loop" /\ UNCHANGED stage
    /\ Call(SetSpeakerAmp(on))
    /\ UNCHANGED <<keypad, initFailed, codec, onUsb, history>>

-----------------------------------------------------------------------------
(* power_off()                                                              *)

PowerOff ==
  /\ Goto("loop", "vbus")
  /\ Call(SetSpeakerAmp(FALSE))
  /\ UNCHANGED <<keypad, initFailed, codec, onUsb, history>>

\* A charger that cannot be read counts as battery.
ReadVbus ==
  /\ Goto("vbus", "touch")
  /\ onUsb' \in BOOLEAN
  /\ Call(ResetTouch)
  /\ UNCHANGED <<keypad, initFailed, codec, history>>

DropRails ==
  /\ Goto("touch", "shutdown")
  /\ Call(WritePorts({}))
  /\ rails' = FALSE /\ whole' = {}
  /\ UNCHANGED <<keypad, initFailed, codec, onUsb>>

\* The battery FET opens, unless the bus fails or VBUS feeds the board after all.
Shutdown ==
  /\ ~onUsb /\ Goto("shutdown", "dark")
  /\ UNCHANGED <<expander, keypad, initFailed, codec, onUsb, history>>

Sleep ==
  /\ Goto("shutdown", "asleep")
  /\ UNCHANGED <<expander, keypad, initFailed, codec, onUsb, history>>

-----------------------------------------------------------------------------
(* The environment                                                          *)

\* Each write of the call under way, taken by the bus or lost.
Bus ==
  \E landed \in BOOLEAN :
    /\ BusWrite(landed)
    /\ whole' = IF landed /\ rails THEN whole \cup {Head(writes).port} ELSE whole
    /\ IF Low(1, "KEYBOARD_RST")' THEN HeldInReset ELSE UNCHANGED keypad
    /\ UNCHANGED <<stage, initFailed, codec, onUsb, rails>>

Finger ==
  /\ stage # "dark"
  /\ Release \/ \E mapped \in BOOLEAN : Press(mapped)
  /\ UNCHANGED <<expander, stage, initFailed, codec, onUsb, history>>

\* app_main() begins again, with the statics as the image has them.
Restart ==
  /\ stage' = "direction0" /\ initFailed' = FALSE /\ codec' = "none" /\ onUsb' = FALSE
  /\ rails' = FALSE /\ whole' = {}
  /\ shadow' = Unset /\ writes' = <<>>

\* A reset, or the BOOT key out of sleep: the chips keep what they have.
Reset ==
  /\ stage # "dark"
  /\ Restart
  /\ DrainForgotten
  /\ UNCHANGED chip

\* The PWR key after a real power off.
PowerKey ==
  /\ stage = "dark"
  /\ Restart
  /\ outputs' = {} /\ reg' = AllHigh
  /\ HeldInReset

-----------------------------------------------------------------------------
(* The specification                                                        *)

BootStep ==
  \/ Direction0 \/ Direction1 \/ RailsUp \/ RouteAudio \/ OpenCodec \/ AmpOffAtBoot
  \/ ResetController \/ ConfigureMatrix \/ BeginDrain \/ DrainOne \/ DrainDone \/ DrainBreaks \/ Up

LoopStep == ReadKey \/ SetAmp \/ PowerOff \/ ReadVbus \/ DropRails \/ Shutdown \/ Sleep

Next == BootStep \/ LoopStep \/ Bus \/ Finger \/ Reset \/ PowerKey

Spec == Init /\ [][Next]_vars

-----------------------------------------------------------------------------
(* Properties                                                               *)

Stages ==
  {"direction0", "direction1", "rails", "codec", "device", "amp", "keyboard", "sweep", "drain", "up",
   "loop", "dead", "vbus", "touch", "shutdown", "dark", "asleep"}
    \cup {Registers[i] : i \in DOMAIN Registers}

\* Every variable keeps its type.
TypeOK ==
  /\ shadow \in [Port -> SUBSET (Pins(0) \cup Pins(1))]
  /\ reg \in [Port -> SUBSET (Pins(0) \cup Pins(1))]
  /\ outputs \subseteq Port /\ whole \subseteq Port
  /\ stage \in Stages /\ codec \in {"none", "closed", "open"}
  /\ {initFailed, onUsb, rails} \subseteq BOOLEAN
  /\ Len(fifo) <= FifoSize /\ drained \in 0..DrainMax /\ pressed \in 0..Presses
  /\ got \in 0..Presses /\ stale \in 0..Presses
  /\ matrix \subseteq {Registers[i] : i \in DOMAIN Registers}

\* What a port holds while the phone runs: every rail, whatever the amplifier and
\* the reset lines do, and the audio on the codec.
Powered(p, pins) ==
  IF p = 0 THEN Rail \subseteq pins
  ELSE "4G_PWR" \in pins /\ "AUDIO_ROUTE" \notin pins

\* board_tdeck_max.h:117-121, "leaving any of them low can leave a device
\* half-powered".  The driver ignores whether its output writes arrive; but once
\* the directions are set any later write that does arrive, a switch of the
\* amplifier say, makes its port whole, and none ever drops a rail.
PortsStayWhole == \A p \in whole : Powered(p, reg[p])

\* app_main.cpp:53, "Continuing lets the boot log report every failure at once":
\* a boot that logged none has its pins driven, a codec whose read paces the audio
\* task (app_main.cpp:358), and a keypad that is out of reset and scans.
BootTellsFailures ==
  stage \in {"up", "loop"} /\ ~initFailed =>
    /\ outputs = Port /\ codec = "open"
    /\ ~Low(1, "KEYBOARD_RST") /\ Scans

\* A key pressed before the keypad was drained at boot is not taken for a key of
\* the phone that now runs, unless a read of the drain failed.
NoStaleKey == [][stage = "loop" /\ got' # got => got' > stale]_vars

\* tca8418_keypad.cpp:228, "no key can be entered twice": the keys still to be
\* read are later presses than those read, each once and in order, whatever
\* transfers fail.
KeysOnceInOrder ==
  \A i \in DOMAIN fifo : Reports(fifo[i]) =>
    /\ fifo[i].n > got
    /\ \A j \in 1..(i - 1) : Reports(fifo[j]) => fifo[j].n < fifo[i].n
=============================================================================
