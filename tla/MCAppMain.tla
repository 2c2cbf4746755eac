------------------------------ MODULE MCAppMain ------------------------------
(***************************************************************************)
(* Instances of AppMain for TLC: every number that fits the dial buffer,   *)
(* one caller, a keypad queue that can hold a key pressed too early.       *)
(***************************************************************************)
EXTENDS AppMain

Dialable == UNION {[1..k -> Digit] : k \in 1..DialBufferMax}
=============================================================================
