------------------------------ MODULE TincanUac ------------------------------
(***************************************************************************)
(* The SIP user agent of the phone: class TincanUac (main/src/             *)
(* tincan_uac.cpp), as its control thread sees it.  One caller drives the  *)
(* public operations in any order; one datagram socket delivers any        *)
(* datagram the PBX may send.  Two operations block (registerExt,          *)
(* placeCall): each is a loop of bounded receives, one step per attempt.   *)
(* Every other operation is one step, except poll(), which is two: the     *)
(* 200-OK retransmission tick and the receive that follows it.             *)
(*                                                                         *)
(* Data is kept to what the code compares.  A Call-ID stands for itself    *)
(* and for the tags generated with it; an endpoint is an (ip, port) pair;  *)
(* None is an empty string, an unset endpoint, a header that is absent.    *)
(* Clocks are abstract: while the 200 OK is not acknowledged, a tick finds *)
(* it not due, due for retransmission, or expired.                         *)
(***************************************************************************)
EXTENDS Integers

CONSTANTS
  LocalId,           (* Call-IDs placeCall() generates                      *)
  RemoteId,          (* Call-IDs of the calls offered to the phone          *)
  Endpoint,          (* usable RTP endpoints an SDP body can name           *)
  Number,            (* numbers the caller dials                            *)
  None,              (* nothing: an empty field                             *)
  RegisterAttempts,  (* receives registerExt() waits for: 12 in the code    *)
  InviteAttempts,    (* receives placeCall() waits for: 240 in the code     *)
  ResendWindow       (* attempts in which the INVITE may be resent: 6       *)

CallId == LocalId \cup RemoteId

ASSUME IdAssumption ==
  /\ LocalId \cap RemoteId = {}
  /\ None \notin CallId \cup Endpoint \cup Number
ASSUME AttemptAssumption ==
  /\ RegisterAttempts \in Nat \ {0}
  /\ InviteAttempts \in Nat \ {0}
  /\ ResendWindow \in Nat

VARIABLES
  at,                (* where the control thread is inside the UAC          *)
  state,             (* _state                                              *)
  dialog,            (* the dialog fields, see NoDialog                     *)
  mediaActive,       (* _mediaActive                                        *)
  mediaTarget,       (* _mediaIpBe and _mediaPortBe                         *)
  callEndedPending,  (* _callEndedPending                                   *)
  everRegistered,    (* _nextRegisterUs # 0                                 *)
  attempt,           (* loop counter of the blocking operation in progress  *)
  answered,          (* placeCall()'s `answered`                            *)
  ret,               (* what the last operation with a result returned      *)
  out                (* what the last step sent to the server               *)

media == <<mediaActive, mediaTarget>>
loop  == <<attempt, answered>>
vars  == <<at, state, dialog, media, callEndedPending, everRegistered, loop,
           ret, out>>

-----------------------------------------------------------------------------
(* Peers and messages                                                       *)

\* What _peerExt may name: the number dialled, the user part of the caller's
\* URI, or the display name the caller's From header carries.
Peer == [by : {"dialled"}, of : Number] \cup [by : {"user", "name"}, of : RemoteId]

Dialled(n) == [by |-> "dialled", of |-> n]
Caller(c, named) == [by |-> IF named THEN "name" ELSE "user", of |-> c]

\* A request the UAC originates inside the current dialog, and a response it
\* gives to a request of Call-ID c.
Request(method) ==
  [method |-> method, cid |-> dialog.callId, to |-> dialog.peerExt,
   tag |-> dialog.remoteTag]
Response(code, method, c) == [code |-> code, method |-> method, cid |-> c]
Register == [method |-> "REGISTER"]

Sends(messages) == out' = messages

-----------------------------------------------------------------------------
(* The dialog and the media endpoint                                        *)

NoDialog ==
  [callId |-> None,       \* _callId, and _fromTag assigned with it
   peerExt |-> None,      \* _peerExt
   remoteTag |-> None,    \* _remoteTag: the call whose message carried it
   inCallId |-> None,     \* _inCallId, with _inVia .. _ourToTag
   remoteRtp |-> None,    \* _remoteRtpIp and _remoteRtpPort
   awaitingAck |-> FALSE, \* _awaitingAck
   pendingOk |-> None]    \* _pendingOk: the call whose 200 OK it holds

\* learnRemoteMedia(): an endpoint in the message replaces the one known.
Learnt(d, ep) == IF ep = None THEN d ELSE [d EXCEPT !.remoteRtp = ep]

PublishMediaTarget(ep) == mediaTarget' = ep /\ mediaActive' = TRUE
RetireMediaTarget == mediaActive' = FALSE /\ UNCHANGED mediaTarget

\* Mutant: media armed without an endpoint (issue #48).
ArmIfKnown_Always(ep) == PublishMediaTarget(ep)

\* answer() and handleInboundAck() arm media only with an endpoint to aim at.
ArmIfKnown(ep) == IF ep # None THEN PublishMediaTarget(ep) ELSE UNCHANGED media

\* resetDialog() leaves the POD endpoint as it was, only disarmed.
ResetDialog == dialog' = NoDialog /\ RetireMediaTarget

\* Mutant: the teardown disarms the audio task and leaves the dialog behind.
TearDown_KeepsDialog ==
  /\ RetireMediaTarget /\ UNCHANGED dialog
  /\ state' = "Idle"
  /\ callEndedPending' = TRUE

\* The common ending of a call that was up: the caller is told once.
TearDown ==
  /\ ResetDialog
  /\ state' = "Idle"
  /\ callEndedPending' = TRUE

Enter(where) == at = "api" /\ at' = where
\* The locals of the operation end with it.
Return(v) == at' = "api" /\ ret' = v /\ attempt' = 0 /\ answered' = FALSE

\* One more attempt of a blocking loop, whose exhaustion ends in `giveUp`.
Exhausted(limit) == attempt + 1 >= limit

Init ==
  /\ at = "api" /\ state = "Idle" /\ dialog = NoDialog
  /\ mediaActive = FALSE /\ mediaTarget = None
  /\ callEndedPending = FALSE /\ everRegistered = FALSE
  /\ attempt = 0 /\ answered = FALSE /\ ret = FALSE /\ out = {}

-----------------------------------------------------------------------------
(* registerExt() and maintainRegistration()                                 *)

StartRegister ==
  /\ Enter("register")
  /\ attempt' = 0
  /\ Sends({})
  /\ UNCHANGED <<state, dialog, media, callEndedPending, everRegistered,
                 answered, ret>>

RegisterExt == StartRegister

\* A refresh that is due.  One that is not due, or finds a call, does nothing.
MaintainRegistration == everRegistered /\ state = "Idle" /\ StartRegister

\* What one attempt sends before it receives, on even attempts.
RegisterSends == Sends(IF attempt % 2 = 0 THEN {Register} ELSE {})

InRegister ==
  /\ at = "register"
  /\ RegisterSends
  /\ UNCHANGED <<state, dialog, media, callEndedPending>>

\* Nothing, an unparsable datagram, a request or a provisional response.
RegisterNoAnswer ==
  /\ InRegister
  /\ IF Exhausted(RegisterAttempts)
     THEN Return(FALSE)
     ELSE attempt' = attempt + 1 /\ UNCHANGED <<at, ret, answered>>
  /\ UNCHANGED everRegistered

\* A 200, of whatever request: neither Call-ID nor CSeq is compared.
RegisterOk ==
  /\ InRegister
  /\ everRegistered' = TRUE
  /\ Return(TRUE)

RegisterRejected ==
  /\ InRegister
  /\ Return(FALSE)
  /\ UNCHANGED everRegistered

-----------------------------------------------------------------------------
(* placeCall()                                                              *)

PlaceCallBusy ==
  /\ at = "api" /\ state # "Idle"
  /\ Return(FALSE)
  /\ Sends({})
  /\ UNCHANGED <<state, dialog, media, callEndedPending, everRegistered>>

PlaceCall(n, c) ==
  /\ Enter("place")
  /\ state = "Idle" /\ state' = "Calling"
  /\ dialog' = [NoDialog EXCEPT !.callId = c, !.peerExt = Dialled(n)]
  /\ RetireMediaTarget
  /\ attempt' = 0 /\ answered' = FALSE
  /\ Sends({})
  /\ UNCHANGED <<callEndedPending, everRegistered, ret>>

\* The INVITE goes out on even attempts of the window, until something is heard.
Invites ==
  IF ~answered /\ attempt < ResendWindow /\ attempt % 2 = 0
  THEN {Request("INVITE")} ELSE {}

InPlaceCall ==
  /\ at = "place"
  /\ UNCHANGED <<callEndedPending, everRegistered>>

\* Mutant: whatever is heard starts the wait afresh.
PlaceUndecided_Restarts(heard) ==
  /\ InPlaceCall
  /\ Sends(Invites)
  /\ IF Exhausted(InviteAttempts)
     THEN Return(FALSE) /\ state' = "Idle"
     ELSE /\ attempt' = IF heard THEN 0 ELSE attempt + 1
          /\ answered' = (answered \/ heard)
          /\ UNCHANGED <<at, ret, state>>
  /\ UNCHANGED <<dialog, media>>

\* A receive that decides nothing: it timed out or did not parse (heard is
\* FALSE), or it was a provisional response, a redirection or any request,
\* which all count as heard.
PlaceUndecided(heard) ==
  /\ InPlaceCall
  /\ Sends(Invites)
  /\ IF Exhausted(InviteAttempts)
     THEN Return(FALSE) /\ state' = "Idle"
     ELSE /\ attempt' = attempt + 1
          /\ answered' = (answered \/ heard)
          /\ UNCHANGED <<at, ret, state>>
  /\ UNCHANGED <<dialog, media>>

\* A 200 of Call-ID c, taken for the answer whatever c is.  Media is armed
\* whether or not it names an endpoint; the result says which.
PlaceAnswered(c, ep) ==
  /\ InPlaceCall
  /\ dialog' = Learnt([dialog EXCEPT !.remoteTag = c], ep)
  /\ Sends(Invites \cup {[Request("ACK") EXCEPT !.tag = c]})
  /\ PublishMediaTarget(dialog'.remoteRtp)
  /\ state' = "InCall"
  /\ Return(dialog'.remoteRtp # None)

PlaceFailed ==
  /\ InPlaceCall
  /\ Sends(Invites)
  /\ state' = "Idle"
  /\ Return(FALSE)
  /\ UNCHANGED <<dialog, media>>

-----------------------------------------------------------------------------
(* poll(), first half: tickOkRetransmit()                                   *)

TickQuiet ==
  /\ Enter("recv")
  /\ Sends({})
  /\ UNCHANGED <<state, dialog, media, callEndedPending, everRegistered, loop, ret>>

TickResend ==
  /\ Enter("recv")
  /\ dialog.awaitingAck
  /\ Sends({Response(200, "INVITE", dialog.pendingOk)})
  /\ UNCHANGED <<state, dialog, media, callEndedPending, everRegistered, loop, ret>>

\* Mutant: the BYE goes out and the call stays.
TickGiveUp_ByeOnly ==
  /\ Enter("recv")
  /\ dialog.awaitingAck
  /\ Sends({Request("BYE")})
  /\ UNCHANGED <<state, dialog, media, callEndedPending, everRegistered, loop, ret>>

\* Mutants: the expiry only ends the wait; the teardown forgets the BYE.
TickGiveUp_Keeps ==
  /\ Enter("recv")
  /\ dialog.awaitingAck
  /\ dialog' = [dialog EXCEPT !.awaitingAck = FALSE, !.pendingOk = None]
  /\ Sends({})
  /\ UNCHANGED <<state, media, callEndedPending, everRegistered, loop, ret>>
TickGiveUp_Silent ==
  /\ Enter("recv")
  /\ dialog.awaitingAck
  /\ Sends({}) /\ TearDown
  /\ UNCHANGED <<everRegistered, loop, ret>>

TickGiveUp ==
  /\ Enter("recv")
  /\ dialog.awaitingAck
  /\ IF state = "InCall"
     THEN Sends({Request("BYE")}) /\ TearDown
     ELSE /\ dialog' = [dialog EXCEPT !.awaitingAck = FALSE, !.pendingOk = None]
          /\ Sends({})
          /\ UNCHANGED <<state, media, callEndedPending>>
  /\ UNCHANGED <<everRegistered, loop, ret>>

-----------------------------------------------------------------------------
(* poll(), second half: one datagram at most                                *)

Received == at = "recv" /\ at' = "api" /\ UNCHANGED <<everRegistered, loop, ret>>

Unaffected == UNCHANGED <<state, dialog, media, callEndedPending>>

\* Nothing there, a response, or a method poll() does not dispatch.
RecvNothing == Received /\ Sends({}) /\ Unaffected

RecvOptions == Received /\ Sends({Response(200, "OPTIONS", None)}) /\ Unaffected

\* Mutant: only a call that is up makes the phone busy.
Busy_InCallOnly == state = "InCall"

Busy == state # "Idle"

RecvInvite(c, ep, named) ==
  /\ Received
  /\ IF Busy
     THEN Sends({Response(486, "INVITE", c)}) /\ Unaffected
     ELSE /\ dialog' = Learnt([NoDialog EXCEPT !.inCallId = c,
                                               !.peerExt = Caller(c, named)], ep)
          /\ RetireMediaTarget
          /\ state' = "Ringing"
          /\ Sends({Response(180, "INVITE", c)})
          /\ UNCHANGED callEndedPending

\* In a call, a BYE ends it whether or not its Call-ID matches.
RecvBye(c) ==
  /\ Received
  /\ Sends({Response(200, "BYE", c)})
  /\ IF state = "InCall" THEN TearDown ELSE Unaffected

\* Mutant: the CANCEL is matched against the dialog of a call that is up.
RecvCancel_OfDialog(c) ==
  /\ Received
  /\ IF state = "Ringing" /\ c = dialog.callId
     THEN /\ Sends({Response(200, "CANCEL", c), Response(487, "INVITE", c)})
          /\ TearDown
     ELSE Sends({Response(200, "CANCEL", c)}) /\ Unaffected

RecvCancel(c) ==
  /\ Received
  /\ IF state = "Ringing" /\ c = dialog.inCallId
     THEN /\ Sends({Response(200, "CANCEL", c), Response(487, "INVITE", c)})
          /\ TearDown
     ELSE Sends({Response(200, "CANCEL", c)}) /\ Unaffected

\* Mutant: every ACK that names an endpoint is learnt and published.
NeedsEndpoint_Always == state = "InCall"

NeedsEndpoint == ~mediaActive /\ state = "InCall"

\* The answer to a delayed offer comes in the ACK: media is armed here when it
\* is not yet, and stays off when the ACK names no endpoint.
RecvAck(c, ep) ==
  /\ Received
  /\ Sends({})
  /\ UNCHANGED <<state, callEndedPending>>
  /\ IF dialog.awaitingAck /\ c = dialog.callId
     THEN LET acked == [dialog EXCEPT !.awaitingAck = FALSE, !.pendingOk = None]
          IN IF NeedsEndpoint
             THEN dialog' = Learnt(acked, ep) /\ ArmIfKnown(ep)
             ELSE dialog' = acked /\ UNCHANGED media
     ELSE UNCHANGED <<dialog, media>>

-----------------------------------------------------------------------------
(* answer(), reject(), hangup(), callEnded()                                *)

Api == at = "api" /\ UNCHANGED <<at, everRegistered, loop>>

Answer ==
  /\ Api
  /\ ret' = (state = "Ringing")
  /\ UNCHANGED callEndedPending
  /\ IF state = "Ringing"
     THEN /\ dialog' = [dialog EXCEPT !.pendingOk = dialog.inCallId,
                                      !.awaitingAck = TRUE,
                                      !.callId = dialog.inCallId,
                                      !.remoteTag = dialog.inCallId]
          /\ Sends({Response(200, "INVITE", dialog.inCallId)})
          /\ state' = "InCall"
          /\ ArmIfKnown(dialog.remoteRtp)
     ELSE Sends({}) /\ UNCHANGED <<state, dialog, media>>

\* Mutants: the dialog is reset before the response is built; the unused state
\* Ending is entered.
DeclineRinging_ResetFirst ==
  /\ Sends({Response(486, "INVITE", None)})
  /\ ResetDialog
  /\ state' = "Idle"
DeclineRinging_Ending ==
  /\ Sends({Response(486, "INVITE", dialog.inCallId)})
  /\ ResetDialog
  /\ state' = "Ending"

DeclineRinging ==
  /\ Sends({Response(486, "INVITE", dialog.inCallId)})
  /\ ResetDialog
  /\ state' = "Idle"

Reject ==
  /\ Api
  /\ IF state = "Ringing" THEN DeclineRinging
                          ELSE Sends({}) /\ UNCHANGED <<state, dialog, media>>
  /\ UNCHANGED <<callEndedPending, ret>>

\* Mutant: the dialog is reset before the request is built.
GiveUp_ResetFirst(method) ==
  /\ Sends({[Request(method) EXCEPT !.cid = None, !.to = None, !.tag = None]})
  /\ ResetDialog
  /\ state' = "Idle"

GiveUp(method) == Sends({Request(method)}) /\ ResetDialog /\ state' = "Idle"

Hangup ==
  /\ Api
  /\ CASE state = "InCall"  -> GiveUp("BYE")
       [] state = "Calling" -> GiveUp("CANCEL")
       [] state = "Ringing" -> DeclineRinging
       [] OTHER             -> Sends({}) /\ UNCHANGED <<state, dialog, media>>
  /\ UNCHANGED <<callEndedPending, ret>>

CallEnded ==
  /\ Api
  /\ ret' = callEndedPending
  /\ callEndedPending' = FALSE
  /\ Sends({})
  /\ UNCHANGED <<state, dialog, media>>

-----------------------------------------------------------------------------
(* The specification                                                        *)

Offer == Endpoint \cup {None}

Registering == RegisterNoAnswer \/ RegisterOk \/ RegisterRejected

Placing ==
  \/ \E heard \in BOOLEAN : PlaceUndecided(heard)
  \/ \E c \in CallId \cup {None}, ep \in Offer : PlaceAnswered(c, ep)
  \/ PlaceFailed

Tick == TickQuiet \/ TickResend \/ TickGiveUp

Recv ==
  \/ RecvNothing
  \/ RecvOptions
  \/ \E c \in RemoteId, ep \in Offer, named \in BOOLEAN : RecvInvite(c, ep, named)
  \/ \E c \in CallId : RecvBye(c)
  \/ \E c \in CallId : RecvCancel(c)
  \/ \E c \in CallId, ep \in Offer : RecvAck(c, ep)

Operations ==
  \/ RegisterExt
  \/ MaintainRegistration
  \/ PlaceCallBusy
  \/ \E n \in Number, c \in LocalId : PlaceCall(n, c)
  \/ Answer
  \/ Reject
  \/ Hangup
  \/ CallEnded

Next == Operations \/ Registering \/ Placing \/ Tick \/ Recv

Spec == Init /\ [][Next]_vars

\* A receive of a blocking loop returns within its 500 ms socket timeout, so
\* the loops advance whatever the server and the caller do.
FairSpec == Spec /\ WF_vars(Registering) /\ WF_vars(Placing)
-----------------------------------------------------------------------------
(* Properties                                                               *)

Ids == CallId \cup {None}
Codes == {180, 200, 486, 487}

Dialogs ==
  [callId : Ids, peerExt : Peer \cup {None}, remoteTag : Ids, inCallId : RemoteId \cup {None},
   remoteRtp : Offer, awaitingAck : BOOLEAN, pendingOk : Ids]

Messages ==
  {Register}
  \cup [method : {"INVITE", "ACK", "BYE", "CANCEL"}, cid : Ids,
        to : Peer \cup {None}, tag : Ids]
  \cup [code : Codes, method : {"INVITE", "BYE", "CANCEL", "OPTIONS"}, cid : Ids]

\* Every variable keeps its type.
TypeOK ==
  /\ at \in {"api", "register", "place", "recv"}
  /\ state \in {"Idle", "Calling", "Ringing", "InCall"}
  /\ dialog \in Dialogs
  /\ mediaActive \in BOOLEAN
  /\ mediaTarget \in Offer
  /\ callEndedPending \in BOOLEAN
  /\ everRegistered \in BOOLEAN
  /\ attempt \in Nat
  /\ answered \in BOOLEAN
  /\ ret \in BOOLEAN
  /\ out \in SUBSET Messages

\* The audio task is armed only during a call, and then aims at the endpoint
\* negotiated for that call: every way out of a call disarms it, and no late
\* ACK or new dialog leaves it pointing at an earlier peer.
MediaFollowsDialog ==
  mediaActive => state = "InCall" /\ mediaTarget = dialog.remoteRtp

\* A call offered to the phone never arms media without an endpoint, whether
\* the endpoint came in the INVITE or comes in the ACK (issue #48).
InboundMediaHasEndpoint ==
  mediaActive /\ dialog.inCallId # None => mediaTarget \in Endpoint

\* A call that is up without media is an answered delayed offer whose endpoint
\* is still unknown: no established call is silent for another reason.
SilentCallLacksEndpoint ==
  state = "InCall" /\ ~mediaActive => dialog.inCallId # None /\ dialog.remoteRtp = None

\* What the audio task is told is true of the call that is up, and of no other.
MediaIsOfTheCall ==
  MediaFollowsDialog /\ InboundMediaHasEndpoint /\ SilentCallLacksEndpoint

\* The 200 OK held for retransmission is that of the call the phone is in, and
\* it is held exactly as long as the ACK is awaited: no retransmission, and no
\* give-up BYE, can outlive its call and hit the next one.
RetransmittedOkIsOfTheCall ==
  IF dialog.awaitingAck
  THEN /\ state = "InCall"
       /\ dialog.pendingOk = dialog.inCallId
       /\ dialog.pendingOk = dialog.callId
       /\ dialog.pendingOk # None
  ELSE dialog.pendingOk = None

\* State Calling is seen only inside placeCall(): whatever ends the wait, the
\* caller finds the UAC idle or in a call.  So hangup() can never send CANCEL.
CallingIsInsidePlaceCall == state = "Calling" <=> at = "place"

\* Whatever ends the ringing of an offered call, its INVITE gets a final
\* response under its own Call-ID: 200, 486 or 487.
RingingIsAnswered ==
  [][state = "Ringing" /\ state' # "Ringing" =>
       \E code \in {200, 486, 487} :
         Response(code, "INVITE", dialog.inCallId) \in out']_vars

\* The exception: a BYE of another call, late or stray, has ended the one that is
\* up (tincan_uac.cpp:646).
EndedByAnotherCall == \E c \in CallId \ {dialog.callId} : Response(200, "BYE", c) \in out'

\* A call is never left silently.  Its far end is sent a BYE of that very dialog, or
\* has sent one and is given its 200 -- unless a BYE of another call ended it, when
\* its own far end is told nothing.  And the user, where he did not hang up
\* himself, is told by the flag callEnded() reads.
CallEndIsSignalled ==
  [][state = "InCall" /\ state' # "InCall" =>
       /\ \/ Request("BYE") \in out' /\ dialog.callId # None
          \/ Response(200, "BYE", dialog.callId) \in out'
          \/ EndedByAnotherCall
       /\ callEndedPending' \/ Hangup]_vars

\* While the audio task is armed the control thread never rewrites the
\* endpoint it reads.
EndpointFrozenWhileArmed ==
  [][mediaActive /\ mediaActive' => mediaTarget' = mediaTarget]_vars

\* The blocking operations return, whatever datagrams come or do not come.
BlockingCallsReturn == at \in {"register", "place"} ~> at = "api"

\* What each state of the UAC says of its dialog: the facts beneath the
\* invariants above, which are not inductive without them.
DialogOfState ==
  /\ state = "Idle" => ~mediaActive
  /\ state = "Calling" =>
       /\ dialog.callId \in LocalId
       /\ dialog.inCallId = None /\ dialog.remoteRtp = None
       /\ ~mediaActive
  /\ state = "Ringing" => dialog.inCallId \in RemoteId /\ ~mediaActive
  /\ state = "InCall" =>
       /\ dialog.callId \in CallId
       /\ dialog.inCallId # None => dialog.callId = dialog.inCallId
       /\ dialog.inCallId = None => mediaActive

\* The inductive invariant: types, and how the fields of a call agree.
CallInv ==
  /\ MediaFollowsDialog
  /\ InboundMediaHasEndpoint
  /\ SilentCallLacksEndpoint
  /\ RetransmittedOkIsOfTheCall
  /\ CallingIsInsidePlaceCall
  /\ DialogOfState

IInv == TypeOK /\ CallInv

-----------------------------------------------------------------------------
(* The line it implements                                                   *)

Line == INSTANCE CallLine WITH
  Local  <- LocalId,
  Remote <- RemoteId,
  phase  <- CASE state = "Idle"    -> "Free"
              [] state = "Calling" -> "Dialling"
              [] state = "Ringing" -> "Offered"
              [] state = "InCall"  -> "Connected",
  call   <- IF state \in {"Calling", "InCall"} THEN dialog.callId
            ELSE IF state = "Ringing" THEN dialog.inCallId ELSE None,
  voice  <- IF mediaActive THEN mediaTarget ELSE None

\* The UAC is one line: never two calls, never a call swapped for another, never
\* a voice path moved in the middle of a call, no dialling without an end.
LineSpec == Line!Spec
LineSafety == Line!Safety

\* What of it concerns the audio task, MediaPath implements too: the voice path of
\* the call that is up, which leads where that call was told and nowhere else.
Path == INSTANCE VoicePath WITH
  Calls   <- CallId,
  Aims    <- [c \in CallId |-> Endpoint],
  NoCall  <- None,
  NoVoice <- None,
  line    <- IF state = "InCall" THEN dialog.callId ELSE None,
  voice   <- IF mediaActive THEN mediaTarget ELSE None
VoicePathSpec == Path!Spec

-----------------------------------------------------------------------------
(* What the sources say and the code does not do                            *)

\* tincan_uac.hpp, learnRemoteMedia(): "Callers must not publish media on a
\* false return."
MediaHasEndpoint == mediaActive => mediaTarget \in Endpoint
=============================================================================
