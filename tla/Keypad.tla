-------------------------------- MODULE Keypad --------------------------------
(***************************************************************************)
(* The TCA8418 keypad controller and its driver                            *)
(* (main/src/tca8418_keypad.cpp), on the bus that may fail.  The chip      *)
(* queues an event for every press and release once its matrix is          *)
(* configured, loses what finds the queue full, and forgets everything     *)
(* while its reset line is low, when it answers nothing.                   *)
(*                                                                         *)
(* Presses are numbered in the order of the fingers.  A key without a      *)
(* character in s_keymap is unmapped.                                      *)
(***************************************************************************)
EXTENDS Integers, Sequences, FiniteSets

CONSTANTS
  FifoSize,  (* events the controller queues: 10                            *)
  DrainMax,  (* events the start-up drain reads at most: 32                 *)
  Presses    (* bound on the presses of a behaviour                         *)

ASSUME FifoAssumption == FifoSize \in Nat \ {0} /\ DrainMax \in Nat /\ FifoSize <= DrainMax

VARIABLES
  fifo,     (* the chip: queued events                                      *)
  matrix,   (* the chip: configuration registers written since its reset    *)
  drained,  (* events the drain has read                                    *)
  pressed,  (* presses so far                                               *)
  held,     (* the keys down, as far as the chip has seen                   *)
  got,      (* the press whose character get_key() returned last            *)
  stale     (* presses the last drain has promised to be rid of             *)

controller == <<fifo, matrix>>
fingers    == <<pressed, held>>
keypad     == <<controller, fingers, drained, got, stale>>

Registers == <<"KP_GPIO1", "KP_GPIO2", "KP_GPIO3", "CFG">>

KeypadInit ==
  /\ fifo = <<>> /\ matrix = {} /\ drained = 0
  /\ pressed = 0 /\ held = {} /\ got = 0 /\ stale = 0

-----------------------------------------------------------------------------
(* The chip                                                                 *)

Scans == matrix = {Registers[i] : i \in DOMAIN Registers}

Event(n, press, mapped) == [n |-> n, press |-> press, mapped |-> mapped]

\* A full queue loses what comes.
Queue(e) == fifo' = IF Len(fifo) < FifoSize THEN Append(fifo, e) ELSE fifo

\* Presses nobody scans leave nothing and are not counted.
Press(mapped) ==
  /\ Scans /\ pressed < Presses
  /\ pressed' = pressed + 1
  /\ held' = held \cup {[n |-> pressed + 1, mapped |-> mapped]}
  /\ Queue(Event(pressed + 1, TRUE, mapped))
  /\ UNCHANGED <<matrix, drained, got, stale>>

Release ==
  \E k \in held :
    /\ Scans
    /\ held' = held \ {k}
    /\ Queue(Event(k.n, FALSE, k.mapped))
    /\ UNCHANGED <<matrix, pressed, drained, got, stale>>

\* The reset line is low after a write of the expander.
HeldInReset ==
  /\ fifo' = <<>> /\ matrix' = {} /\ held' = {}
  /\ UNCHANGED <<pressed, drained, got, stale>>

-----------------------------------------------------------------------------
(* The driver                                                               *)

\* One of the four configuration writes of tca8418_init().
ConfigureKeypad(r, ok) ==
  /\ \/ matrix' = matrix \cup {r}
     \/ ~ok /\ UNCHANGED matrix
  /\ UNCHANGED <<fifo, fingers, drained, got, stale>>

DrainBegins ==
  /\ drained' = 0 /\ stale' = pressed
  /\ UNCHANGED <<controller, fingers, got>>

\* read_raw_event() finds an event and takes it.
TakesEvent == fifo # <<>> /\ fifo' = Tail(fifo)

\* It returns 0: nothing queued, or a read of the bus failed, that of the event
\* perhaps after the chip gave it away.
NoEvent == UNCHANGED fifo \/ TakesEvent

\* A processor that restarts has promised nothing.
DrainForgotten == stale' = 0 /\ UNCHANGED <<controller, fingers, drained, got>>

\* The promise does not hold when a read of the drain failed.
DrainFails ==
  /\ NoEvent
  /\ stale' = 0
  /\ UNCHANGED <<matrix, fingers, drained, got>>

\* Mutant: the drain reads keys, so it stops at a release or an unmapped key.
DrainEnds_ByKey ==
  drained = DrainMax \/ IF fifo = <<>> THEN TRUE ELSE ~(Head(fifo).press /\ Head(fifo).mapped)

DrainEnds == fifo = <<>> \/ drained = DrainMax

Drains ==
  /\ TakesEvent /\ drained' = drained + 1
  /\ UNCHANGED <<matrix, fingers, got, stale>>

\* Mutant: releases are reported like presses.
Reports_Both(e) == e.mapped

\* get_key(): a character for the press of a mapped key only.
Reports(e) == e.press /\ e.mapped

GetKey ==
  /\ \/ TakesEvent /\ got' = IF Reports(Head(fifo)) THEN Head(fifo).n ELSE got
     \/ NoEvent /\ UNCHANGED got
  /\ UNCHANGED <<matrix, fingers, drained, stale>>
=============================================================================
