------------------------------ MODULE Registration ------------------------------
(***************************************************************************)
(* The phone's registration against its registrar, in time: registerExt()  *)
(* and maintainRegistration() of main/src/tincan_uac.cpp, called by the    *)
(* main loop of main/src/app_main.cpp, and the binding the PBX keeps.  The *)
(* registrar is not part of the program: it is modelled from what the      *)
(* comments at tincan_uac.cpp:700 and the requests of the phone say of it. *)
(* It drops a binding at the end of its lifetime, and one whose client has *)
(* missed the OPTIONS probes.                                              *)
(*                                                                         *)
(* A tick stands for the time the registrar waits for an answer to its     *)
(* probes.  The code's lifetimes, delays and waits are constants in the    *)
(* same order: probes < retry < dialling < half the lifetime.  A blocking  *)
(* registration (6 s at most) is one step; a call in any state but         *)
(* dialling leaves the loop polling.                                       *)
(***************************************************************************)
EXTENDS Integers

CONSTANTS
  Expires,      (* POC_SIP_REG_EXPIRES                                      *)
  RetryAfter,   (* the 60 s before another try                              *)
  DialMax,      (* the 120 s placeCall() blocks at most                     *)
  KeepAlive     (* ticks without an answer after which the registrar prunes *)

Half == Expires \div 2

ASSUME TimeAssumption ==
  /\ Expires \in Nat /\ RetryAfter \in Nat \ {0} /\ DialMax \in Nat
  /\ KeepAlive \in Nat \ {0}
  /\ RetryAfter <= Half

VARIABLES
  \* the phone
  mode,            (* "boot", "idle", "dialling" or "call"                  *)
  everRegistered,  (* _nextRegisterUs # 0                                   *)
  nextRegister,    (* ticks to _nextRegisterUs; 0 when it has passed        *)
  dialFor,         (* ticks placeCall() may still block                     *)
  lateOk,          (* a late 200, to the BYE of the last call or to an      *)
                   (* INVITE given up, is on its way                        *)
  \* the registrar
  binding,         (* ticks the binding still lives; 0 when there is none   *)
  silence,         (* ticks since the phone last answered a probe           *)
  \* history
  calm,            (* ticks since a datagram was last lost or left unread   *)
  busyFor          (* ticks since the phone was last idle                   *)

phone   == <<mode, everRegistered, nextRegister, dialFor, lateOk>>
pbx     == <<binding, silence>>
history == <<calm, busyFor>>
vars    == <<phone, pbx, history>>

\* Counters of history stay at Expires, which is past all the properties ask.
Up(n) == IF n < Expires THEN n + 1 ELSE n
Down(n) == IF n > 0 THEN n - 1 ELSE 0

Init ==
  /\ mode = "boot" /\ everRegistered = FALSE /\ nextRegister = 0 /\ dialFor = 0
  /\ lateOk = FALSE
  /\ binding = 0 /\ silence = 0
  /\ calm = Expires /\ busyFor = 0

-----------------------------------------------------------------------------
(* registerExt()                                                            *)

Calm == UNCHANGED calm
Trouble == calm' = 0

\* A REGISTER that reaches the registrar renews the binding.
Renew == binding' = Expires /\ silence' = 0

\* The code's _nextRegisterUs after a 200: half the lifetime from now.
\* Mutant: the refresh is due when the binding ends.
Refreshed_AtExpiry == everRegistered' = TRUE /\ nextRegister' = Expires

Refreshed == everRegistered' = TRUE /\ nextRegister' = Half

\* The REGISTER and its 200 arrive, on one of the six sends.
Registered == Renew /\ Refreshed /\ Calm /\ UNCHANGED lateOk

\* A late 200 to another request is taken for the registrar's:
\* neither Call-ID nor CSeq is compared.  The REGISTER sent before may be lost.
RegisteredByMistake ==
  /\ lateOk /\ lateOk' = FALSE
  /\ Refreshed
  /\ \/ Renew /\ Calm
     \/ UNCHANGED pbx /\ Trouble

\* No answer gets through, or the registrar refuses: with the binding renewed
\* when only the answers were lost.
NotRegistered ==
  /\ Trouble
  /\ Renew \/ UNCHANGED pbx
  /\ UNCHANGED <<everRegistered, lateOk>>

-----------------------------------------------------------------------------
(* The main loop                                                            *)

\* Boot registers once.  After a failure the loop runs all the same.
BootRegister ==
  /\ mode = "boot" /\ mode' = "idle"
  /\ \/ Registered \/ RegisteredByMistake
     \/ NotRegistered /\ UNCHANGED nextRegister
  /\ UNCHANGED <<dialFor, busyFor>>

\* maintainRegistration() has work: once registered, the time has come, no call.
Due == mode = "idle" /\ everRegistered /\ nextRegister = 0

InMaintain == Due /\ UNCHANGED <<mode, dialFor, busyFor>>

RefreshOk == InMaintain /\ Registered
RefreshByMistake == InMaintain /\ RegisteredByMistake

\* Mutant: a refresh that fails is not tried again.
RefreshFails_GivesUp ==
  /\ InMaintain /\ Trouble
  /\ Renew \/ UNCHANGED pbx
  /\ everRegistered' = FALSE
  /\ UNCHANGED <<nextRegister, lateOk>>

\* Failed: another try a minute later.
RefreshFails == InMaintain /\ NotRegistered /\ nextRegister' = RetryAfter

\* The key that dials is read after maintainRegistration() in the same pass, so
\* never while a refresh is due.
Dial ==
  /\ mode = "idle" /\ ~Due
  /\ mode' = "dialling"
  /\ dialFor' = DialMax
  /\ UNCHANGED <<everRegistered, nextRegister, lateOk, pbx, history>>

\* Answered, rejected or given up: then the callee, whom nothing cancels, may still
\* answer.
DialDone ==
  /\ mode = "dialling"
  /\ \/ mode' = "call" /\ UNCHANGED lateOk
     \/ mode' = "idle" /\ lateOk' \in BOOLEAN /\ (lateOk => lateOk')
  /\ dialFor' = 0
  /\ UNCHANGED <<everRegistered, nextRegister, pbx, history>>

\* The PBX rings the phones it has a binding of; poll() precedes the refresh.
CallComes ==
  /\ mode = "idle" /\ binding > 0
  /\ mode' = "call"
  /\ UNCHANGED <<everRegistered, nextRegister, dialFor, lateOk, pbx, history>>

\* When the phone ends it, the answer to its BYE is still to come.
CallEnds ==
  /\ mode = "call" /\ mode' = "idle"
  /\ lateOk' \in BOOLEAN
  /\ UNCHANGED <<everRegistered, nextRegister, dialFor, pbx, history>>

\* A reset comes back through boot, which outlasts every answer under way.
Reset ==
  /\ mode' = "boot" /\ everRegistered' = FALSE /\ nextRegister' = 0
  /\ dialFor' = 0 /\ lateOk' = FALSE
  /\ UNCHANGED <<pbx, history>>

-----------------------------------------------------------------------------
(* Time, probes and the registrar                                           *)

\* poll() answers OPTIONS in every state; placeCall() and registerExt() read and
\* drop it.
Answers == mode \in {"idle", "call"}

\* A pass takes 20 ms: no tick falls between a refresh that is due and its try,
\* nor into boot; placeCall() has a deadline.  A late answer that poll() reads is
\* dropped.
Waits == mode # "boot" /\ ~Due /\ (mode = "dialling" => dialFor > 0)

Pruned == silence' >= KeepAlive

Tick ==
  /\ Waits
  /\ \/ Answers /\ silence' = 0 /\ calm' = Up(calm)
     \/ silence' = (IF silence < KeepAlive THEN silence + 1 ELSE silence) /\ Trouble
  /\ binding' = IF Pruned THEN 0 ELSE Down(binding)
  /\ nextRegister' = Down(nextRegister)
  /\ dialFor' = Down(dialFor)
  /\ busyFor' = IF mode = "idle" THEN 0 ELSE Up(busyFor)
  /\ lateOk' \in BOOLEAN /\ (lateOk' => lateOk)
  /\ UNCHANGED <<mode, everRegistered>>

-----------------------------------------------------------------------------
(* The specification                                                        *)

Loop == BootRegister \/ RefreshOk \/ RefreshByMistake \/ RefreshFails

Next == Loop \/ Dial \/ DialDone \/ CallComes \/ CallEnds \/ Reset \/ Tick

Spec == Init /\ [][Next]_vars

\* The loop turns and time passes; placeCall() returns.  Of the refreshes that
\* fall due one gets through in the end; nothing makes a call end.
FairSpec ==
  Spec /\ WF_vars(Loop) /\ WF_vars(DialDone) /\ WF_vars(Tick) /\ SF_vars(RefreshOk)

-----------------------------------------------------------------------------
(* Properties                                                               *)

\* Every variable keeps its type.
TypeOK ==
  /\ mode \in {"boot", "idle", "dialling", "call"}
  /\ everRegistered \in BOOLEAN /\ lateOk \in BOOLEAN
  /\ nextRegister \in 0..Half /\ dialFor \in 0..DialMax
  /\ binding \in 0..Expires /\ silence \in 0..KeepAlive
  /\ calm \in 0..Expires /\ busyFor \in 0..Expires

\* docs/BENCH_TEST.md, step 10: a phone left idle "must still ring".  Whatever
\* went wrong before (refreshes lost, probes swallowed while dialling, a 200
\* that was another's), half a lifetime later an idle phone is bound again.
RecoversInTime ==
  mode = "idle" /\ everRegistered /\ nextRegister > 0 /\ calm >= Half => binding > 0

\* tincan_uac.cpp:465, "the binding has Expires/2 of slack, so deferring past the
\* call is safe": when nothing was lost for a lifetime, a binding lapses only
\* under one call, longer than that slack.
LapseNeedsLongCall ==
  [][everRegistered /\ binding > 0 /\ binding' = 0 /\ ~Pruned /\ calm = Expires
       => mode # "idle" /\ busyFor' >= Expires - Half]_vars

\* A phone that has registered once does not stay unreachable, if it does not
\* stay in a call for ever.  One that failed at boot does: it never tries again.
RegistrationHeals ==
  []<>(mode # "call") => (everRegistered /\ binding = 0 ~> binding > 0 \/ mode = "boot")

\* Why these hold.  A phone that boots has no registration of its own...
BootInv == mode = "boot" => ~everRegistered /\ ~lateOk

\* ...the refresh planned comes before the binding ends with the slack to spare,
\* or what went wrong is more recent than the refresh is far...
SlackInv ==
  everRegistered /\ nextRegister > 0 =>
    binding >= nextRegister + (Expires - Half) \/ calm + nextRegister <= Half

\* ...and what is missing from the slack was spent in the call that is on, or
\* what went wrong is more recent than the binding is old.
DeferralInv ==
  everRegistered /\ binding > 0 =>
    \/ calm + binding <= Expires
    \/ IF nextRegister > 0 THEN binding >= nextRegister + (Expires - Half)
                           ELSE binding + busyFor >= Expires - Half

RegInv == TypeOK /\ BootInv /\ SlackInv /\ DeferralInv
=============================================================================
