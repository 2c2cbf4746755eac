------------------------------- MODULE CallLine -------------------------------
(***************************************************************************)
(* What the phone's user agent promises to whoever drives it: one line     *)
(* that carries at most one call at a time.  The call that is connected is *)
(* the one that was dialled or the one that was offered and accepted; the  *)
(* voice path of a connected call is aimed once and not moved until the    *)
(* call ends; dialling does not last for ever.                             *)
(***************************************************************************)
CONSTANTS Local, Remote, Endpoint, None

VARIABLES
  phase,  (* Free, Dialling, Offered or Connected                           *)
  call,   (* the call on the line, None when it is free                     *)
  voice   (* where voice is sent, None when it is not                       *)

vars == <<phase, call, voice>>

Init == phase = "Free" /\ call = None /\ voice = None

Become(p, c, v) == phase' = p /\ call' = c /\ voice' = v

Dial(c)     == phase = "Free" /\ Become("Dialling", c, None)
DialFails   == phase = "Dialling" /\ Become("Free", None, None)
Answered(v) == phase = "Dialling" /\ Become("Connected", call, v)

Offered(c)  == phase = "Free" /\ Become("Offered", c, None)
Dropped     == phase = "Offered" /\ Become("Free", None, None)
Accept(v)   == phase = "Offered" /\ Become("Connected", call, v)

\* Only a call from outside may be connected first and learn its endpoint later.
VoiceOn(v) ==
  /\ phase = "Connected" /\ call \in Remote /\ voice = None
  /\ Become("Connected", call, v)

End == phase = "Connected" /\ Become("Free", None, None)

DialEnds == DialFails \/ \E v \in Endpoint \cup {None} : Answered(v)

Next ==
  \/ \E c \in Local : Dial(c)
  \/ DialEnds
  \/ \E c \in Remote : Offered(c)
  \/ Dropped
  \/ \E v \in Endpoint \cup {None} : Accept(v)
  \/ \E v \in Endpoint : VoiceOn(v)
  \/ End

Safety == Init /\ [][Next]_vars

Spec == Safety /\ WF_vars(DialEnds)
=============================================================================
