------------------------------ MODULE VoicePath ------------------------------
(***************************************************************************)
(* The voice path of the phone as its two halves must agree on it: the     *)
(* user agent, which decides when there is one and where it leads, and the *)
(* words of memory through which the audio task learns of it.  A path      *)
(* belongs to the one call that is up; it leads to an endpoint of that     *)
(* call, whole; it is aimed at most once; and it is gone when the call is. *)
(***************************************************************************)
CONSTANTS
  Calls,    (* what a call is known by                                      *)
  Aims,     (* for each call, the endpoints its path may lead to            *)
  NoCall, NoVoice

VARIABLES
  line,     (* the call that is up, or NoCall                               *)
  voice     (* where its voice goes, or NoVoice                             *)

vars == <<line, voice>>

Init == line = NoCall /\ voice = NoVoice

Connect(c, v) == line = NoCall /\ line' = c /\ voice' = v

VoiceOn(c, v) == line = c /\ voice = NoVoice /\ voice' = v /\ UNCHANGED line

End == line # NoCall /\ line' = NoCall /\ voice' = NoVoice

Next ==
  \/ \E c \in Calls : \E v \in Aims[c] : Connect(c, v) \/ VoiceOn(c, v)
  \/ \E c \in Calls : Connect(c, NoVoice)
  \/ End

Spec == Init /\ [][Next]_vars
=============================================================================
