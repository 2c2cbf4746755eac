-------------------------------- MODULE MCBoard --------------------------------
(***************************************************************************)
(* An instance of Board for TLC with two rails.                            *)
(***************************************************************************)
EXTENDS Board

TwoRails == <<"LORA_EN", "1V8_EN">>
=============================================================================
