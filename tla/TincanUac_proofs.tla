--------------------------- MODULE TincanUac_proofs ---------------------------
(***************************************************************************)
(* Proofs about TincanUac, for every set of Call-IDs, endpoints and        *)
(* numbers and every bound on the attempts.  IInv is inductive: most       *)
(* actions either leave the call as it is (LEMMA Frame) or reset it        *)
(* (LEMMA ResetsCall); the others are treated one by one.                 *)
(***************************************************************************)
EXTENDS TincanUac, TLAPS

-----------------------------------------------------------------------------
(* What the UAC sends                                                       *)

\* The builders of tincan_uac.cpp produce messages of the declared types.
LEMMA MessageTypes ==
  /\ Register \in Messages
  /\ \A code \in Codes, method \in {"INVITE", "BYE", "CANCEL", "OPTIONS"}, c \in Ids :
       Response(code, method, c) \in Messages
  /\ dialog \in Dialogs => \A method \in {"INVITE", "ACK", "BYE", "CANCEL"} :
       Request(method) \in Messages
<1>1. Register \in Messages
  BY DEF Messages
<1>2. \A code \in Codes, method \in {"INVITE", "BYE", "CANCEL", "OPTIONS"}, c \in Ids :
       Response(code, method, c) \in Messages
  BY DEF Messages, Response
<1>3. dialog \in Dialogs => \A method \in {"INVITE", "ACK", "BYE", "CANCEL"} :
       Request(method) \in Messages
  BY DEF Messages, Request, Dialogs
<1> QED BY <1>1, <1>2, <1>3

\* The empty dialog is a dialog.
LEMMA NoDialogType == NoDialog \in Dialogs
  BY DEF NoDialog, Dialogs, Ids, Offer

-----------------------------------------------------------------------------
(* Steps that leave the call alone, and steps that reset it                 *)

\* A step that keeps the state, the dialog and the media endpoint keeps the
\* invariants of the call.
LEMMA Frame ==
  ASSUME IInv, TypeOK', UNCHANGED <<state, dialog, media>>, at = "place" <=> at' = "place"
  PROVE  IInv'
BY DEF IInv, CallInv, MediaFollowsDialog, InboundMediaHasEndpoint, SilentCallLacksEndpoint,
       RetransmittedOkIsOfTheCall, CallingIsInsidePlaceCall, DialogOfState, media

\* resetDialog() on the way to Idle establishes them.
LEMMA ResetsCall ==
  ASSUME IInv, TypeOK', ResetDialog, state' = "Idle", at' # "place"
  PROVE  IInv'
BY DEF IInv, CallInv, MediaFollowsDialog, InboundMediaHasEndpoint, SilentCallLacksEndpoint,
       RetransmittedOkIsOfTheCall, CallingIsInsidePlaceCall, DialogOfState, ResetDialog,
       RetireMediaTarget, NoDialog

\* resetDialog() keeps the types of what it touches.
LEMMA ResetTypes == ASSUME TypeOK, ResetDialog
                    PROVE  dialog' \in Dialogs /\ mediaActive' \in BOOLEAN /\ mediaTarget' \in Offer
BY NoDialogType DEF TypeOK, ResetDialog, RetireMediaTarget

-----------------------------------------------------------------------------
(* The initial state                                                        *)

\* The phone starts idle, with no dialog and nothing armed.
LEMMA InitInv == Init => IInv
<1> SUFFICES ASSUME Init PROVE IInv
  OBVIOUS
<1>1. TypeOK
  BY NoDialogType DEF Init, TypeOK, Offer
<1> QED
  BY <1>1 DEF IInv, CallInv, Init, NoDialog, MediaFollowsDialog, InboundMediaHasEndpoint,
     SilentCallLacksEndpoint, RetransmittedOkIsOfTheCall, CallingIsInsidePlaceCall,
     DialogOfState

\* A blocking operation that returns leaves its locals at their first values.
LEMMA ReturnTypes ==
  ASSUME NEW v \in BOOLEAN, Return(v)
  PROVE  attempt' \in Nat /\ answered' \in BOOLEAN /\ ret' \in BOOLEAN
<1>1. attempt' \in Nat
  BY SMT DEF Return
<1>2. answered' \in BOOLEAN /\ ret' \in BOOLEAN
  BY Zenon DEF Return
<1> QED BY <1>1, <1>2

-----------------------------------------------------------------------------
(* registerExt() and maintainRegistration()                                 *)

\* Registration never touches the call.
LEMMA RegisterStep ==
  ASSUME IInv, RegisterExt \/ MaintainRegistration \/ Registering
  PROVE  IInv'
<1>1. CASE RegisterExt \/ MaintainRegistration
  <2>1. StartRegister
    BY <1>1 DEF RegisterExt, MaintainRegistration
  <2>2. TypeOK'
    BY <2>1 DEF IInv, TypeOK, StartRegister, Enter, Sends, media
  <2> QED
    BY <2>1, <2>2, Frame DEF StartRegister, Enter
<1>2. CASE Registering
  <2>1. InRegister /\ RegisterSends /\ at' \in {"api", "register"}
    BY <1>2 DEF Registering, RegisterNoAnswer, RegisterOk, RegisterRejected, InRegister, Return
  <2>2. out' \in SUBSET Messages
    BY <2>1, MessageTypes DEF RegisterSends, Sends
  <2>3. /\ attempt' \in Nat /\ answered' \in BOOLEAN
        /\ everRegistered' \in BOOLEAN /\ ret' \in BOOLEAN
    <3>1. CASE RegisterNoAnswer
      <4>1. CASE Exhausted(RegisterAttempts)
        BY <3>1, <4>1, ReturnTypes DEF RegisterNoAnswer, IInv, TypeOK
      <4>2. CASE ~Exhausted(RegisterAttempts)
        <5>1. attempt' \in Nat
          BY <3>1, <4>2 DEF RegisterNoAnswer, IInv, TypeOK
        <5> QED BY <3>1, <4>2, <5>1 DEF RegisterNoAnswer, IInv, TypeOK
      <4> QED BY <4>1, <4>2
    <3>2. CASE RegisterOk
      BY <3>2, ReturnTypes DEF RegisterOk
    <3>3. CASE RegisterRejected
      BY <3>3, ReturnTypes DEF RegisterRejected, IInv, TypeOK
    <3> QED BY <1>2, <3>1, <3>2, <3>3 DEF Registering
  <2>4. TypeOK'
    BY <2>1, <2>2, <2>3 DEF IInv, TypeOK, InRegister, media
  <2> QED
    BY <2>1, <2>4, Frame DEF InRegister
<1> QED BY <1>1, <1>2

-----------------------------------------------------------------------------
(* placeCall()                                                              *)

\* What an attempt sends is a set of messages.
LEMMA InvitesType == IInv => Invites \in SUBSET Messages
BY MessageTypes DEF IInv, TypeOK, Invites

\* Dialling starts from a dialog of its own, with the audio task disarmed.
LEMMA PlaceCallStep ==
  ASSUME IInv, NEW n \in Number, NEW c \in LocalId, PlaceCall(n, c)
  PROVE  IInv'
<1>1. dialog' \in Dialogs
  BY DEF PlaceCall, NoDialog, Dialogs, Ids, CallId, Offer, Dialled, Peer
<1>2. TypeOK'
  BY <1>1 DEF IInv, TypeOK, PlaceCall, Enter, Sends, RetireMediaTarget
<1> QED
  BY <1>2 DEF IInv, CallInv, MediaFollowsDialog, InboundMediaHasEndpoint,
     SilentCallLacksEndpoint, RetransmittedOkIsOfTheCall, CallingIsInsidePlaceCall,
     DialogOfState, PlaceCall, Enter, RetireMediaTarget, NoDialog

\* Giving up on a call, or being refused one, leaves its dialog in place: no
\* acknowledgement is awaited in it, and the audio task is not armed.
LEMMA PlaceAbandoned ==
  ASSUME IInv, TypeOK', at = "place", at' = "api", state' = "Idle", UNCHANGED <<dialog, media>>
  PROVE  IInv'
BY DEF IInv, CallInv, MediaFollowsDialog, InboundMediaHasEndpoint, SilentCallLacksEndpoint,
       RetransmittedOkIsOfTheCall, CallingIsInsidePlaceCall, DialogOfState, media

\* One more attempt, or the last one.
LEMMA PlaceUndecidedStep ==
  ASSUME IInv, NEW heard \in BOOLEAN, PlaceUndecided(heard)
  PROVE  IInv'
<1>1. out' \in SUBSET Messages
  BY InvitesType DEF PlaceUndecided, Sends
<1>2. attempt' \in Nat /\ answered' \in BOOLEAN
  <2>1. CASE Exhausted(InviteAttempts)
    BY <2>1, ReturnTypes DEF PlaceUndecided
  <2>2. CASE ~Exhausted(InviteAttempts)
    <3>1. attempt' \in Nat
      BY <2>2 DEF PlaceUndecided, IInv, TypeOK
    <3> QED BY <2>2, <3>1 DEF PlaceUndecided, IInv, TypeOK
  <2> QED BY <2>1, <2>2
<1>3. TypeOK'
  BY <1>1, <1>2 DEF IInv, TypeOK, PlaceUndecided, InPlaceCall, Return, media
<1>4. CASE Exhausted(InviteAttempts)
  BY <1>3, <1>4, PlaceAbandoned DEF PlaceUndecided, InPlaceCall, Return
<1>5. CASE ~Exhausted(InviteAttempts)
  BY <1>3, <1>5, Frame DEF PlaceUndecided, InPlaceCall
<1> QED BY <1>4, <1>5

\* A final refusal.
LEMMA PlaceFailedStep == ASSUME IInv, PlaceFailed PROVE IInv'
<1>1. TypeOK'
  BY InvitesType DEF IInv, TypeOK, PlaceFailed, InPlaceCall, Return, Sends, media
<1> QED
  BY <1>1, PlaceAbandoned DEF PlaceFailed, InPlaceCall, Return

\* A 200: the call is up and media armed with what the dialog knows of it.
LEMMA PlaceAnsweredStep ==
  ASSUME IInv, NEW c \in Ids, NEW ep \in Offer, PlaceAnswered(c, ep)
  PROVE  IInv'
<1>1. dialog' \in Dialogs
  BY DEF IInv, TypeOK, PlaceAnswered, Learnt, Dialogs
<1>2. out' \in SUBSET Messages
  <2>1. [Request("ACK") EXCEPT !.tag = c] \in Messages
    BY DEF IInv, TypeOK, Messages, Request, Dialogs
  <2> QED BY <2>1, InvitesType DEF PlaceAnswered, Sends
<1>3. TypeOK'
  BY <1>1, <1>2 DEF IInv, TypeOK, PlaceAnswered, InPlaceCall, Return, PublishMediaTarget, Dialogs
<1> QED
  BY <1>3, IdAssumption DEF IInv, CallInv, MediaFollowsDialog, InboundMediaHasEndpoint,
     SilentCallLacksEndpoint, RetransmittedOkIsOfTheCall, CallingIsInsidePlaceCall,
     DialogOfState, PlaceAnswered, InPlaceCall, Return, Learnt, PublishMediaTarget,
     TypeOK, Dialogs, CallId

-----------------------------------------------------------------------------
(* poll()                                                                   *)

\* The retransmission tick, and the give-up that hangs up with a BYE.
LEMMA TickStep == ASSUME IInv, Tick PROVE IInv'
<1>1. CASE TickQuiet
  <2>1. TypeOK'
    BY <1>1 DEF IInv, TypeOK, TickQuiet, Enter, Sends, media, loop
  <2> QED BY <1>1, <2>1, Frame DEF TickQuiet, Enter
<1>2. CASE TickResend
  <2>1. dialog.pendingOk \in Ids
    BY DEF IInv, TypeOK, Dialogs
  <2>2. out' \in SUBSET Messages
    BY <1>2, <2>1, MessageTypes DEF TickResend, Sends, Codes
  <2>3. TypeOK'
    BY <1>2, <2>2 DEF IInv, TypeOK, TickResend, Enter, media, loop
  <2> QED BY <1>2, <2>3, Frame DEF TickResend, Enter
<1>3. CASE TickGiveUp
  <2>1. state = "InCall"
    BY <1>3 DEF TickGiveUp, IInv, CallInv, RetransmittedOkIsOfTheCall
  <2>2. Sends({Request("BYE")}) /\ TearDown /\ Enter("recv") /\ UNCHANGED <<everRegistered, loop, ret>>
    BY <1>3, <2>1 DEF TickGiveUp
  <2>3. out' \in SUBSET Messages
    BY <2>2, MessageTypes DEF IInv, TypeOK, Sends
  <2>4. TypeOK'
    BY <2>2, <2>3, ResetTypes DEF IInv, TypeOK, TearDown, Enter, loop
  <2> QED BY <2>2, <2>4, ResetsCall DEF TearDown, Enter
<1> QED BY <1>1, <1>2, <1>3 DEF Tick

\* A datagram that only gets its response, or none.
LEMMA RecvUnaffected ==
  ASSUME IInv, Received, Unaffected, out' \in SUBSET Messages
  PROVE  IInv'
<1>1. TypeOK'
  BY DEF IInv, TypeOK, Received, Unaffected, media, loop
<1> QED BY <1>1, Frame DEF Received, Unaffected

\* A datagram that ends the call.
LEMMA RecvTearsDown ==
  ASSUME IInv, Received, TearDown, out' \in SUBSET Messages
  PROVE  IInv'
<1>1. TypeOK'
  BY ResetTypes DEF IInv, TypeOK, Received, TearDown, loop
<1> QED BY <1>1, ResetsCall DEF Received, TearDown

\* An offered call takes the line only when it is free.
LEMMA RecvInviteStep ==
  ASSUME IInv, NEW c \in RemoteId, NEW ep \in Offer, NEW named \in BOOLEAN,
         RecvInvite(c, ep, named)
  PROVE  IInv'
<1>1. Response(486, "INVITE", c) \in Messages /\ Response(180, "INVITE", c) \in Messages
  BY MessageTypes DEF Codes, Ids, CallId
<1>2. CASE Busy
  BY <1>1, <1>2, RecvUnaffected DEF RecvInvite, Sends
<1>3. CASE ~Busy
  <2>1. dialog' \in Dialogs
    <3>1. Caller(c, named) \in Peer
      BY DEF Caller, Peer
    <3>2. [NoDialog EXCEPT !.inCallId = c, !.peerExt = Caller(c, named)] \in Dialogs
      BY <3>1 DEF NoDialog, Dialogs, Ids, Offer
    <3> QED BY <1>3, <3>2 DEF RecvInvite, Learnt, Dialogs
  <2>2. TypeOK'
    BY <1>1, <1>3, <2>1 DEF IInv, TypeOK, RecvInvite, Received, RetireMediaTarget, Sends, loop
  <2> QED
    BY <1>3, <2>2, IdAssumption DEF IInv, CallInv, MediaFollowsDialog, InboundMediaHasEndpoint,
       SilentCallLacksEndpoint, RetransmittedOkIsOfTheCall, CallingIsInsidePlaceCall,
       DialogOfState, RecvInvite, Received, Busy, Learnt, NoDialog, RetireMediaTarget
<1> QED BY <1>2, <1>3

\* The ACK ends the retransmissions, and arms media that lacked an endpoint.
LEMMA RecvAckStep ==
  ASSUME IInv, NEW c \in CallId, NEW ep \in Offer, RecvAck(c, ep)
  PROVE  IInv'
<1> DEFINE acked == [dialog EXCEPT !.awaitingAck = FALSE, !.pendingOk = None]
<1>1. CASE ~(dialog.awaitingAck /\ c = dialog.callId)
  <2>1. Unaffected /\ out' \in SUBSET Messages
    BY <1>1 DEF RecvAck, Unaffected, Sends
  <2> QED BY <2>1, RecvUnaffected DEF RecvAck
<1>2. CASE dialog.awaitingAck /\ c = dialog.callId
  <2>1. acked \in Dialogs
    BY DEF IInv, TypeOK, Dialogs, Ids
  <2>2. CASE NeedsEndpoint
    <3>1. dialog' = Learnt(acked, ep) /\ ArmIfKnown(ep)
      BY <1>2, <2>2 DEF RecvAck
    <3>2. dialog' \in Dialogs
      BY <2>1, <3>1 DEF Learnt, Dialogs
    <3>3. TypeOK'
      BY <3>1, <3>2 DEF IInv, TypeOK, RecvAck, Received, ArmIfKnown, PublishMediaTarget,
         Sends, media, loop
    <3> QED
      BY <1>2, <2>2, <3>1, <3>3, IdAssumption DEF IInv, CallInv, MediaFollowsDialog,
         InboundMediaHasEndpoint, SilentCallLacksEndpoint, RetransmittedOkIsOfTheCall,
         CallingIsInsidePlaceCall, DialogOfState, NeedsEndpoint, RecvAck, Received,
         Learnt, ArmIfKnown, PublishMediaTarget, TypeOK, Dialogs, Offer, media
  <2>3. CASE ~NeedsEndpoint
    <3>1. dialog' = acked /\ UNCHANGED media
      BY <1>2, <2>3 DEF RecvAck
    <3>2. TypeOK'
      BY <2>1, <3>1 DEF IInv, TypeOK, RecvAck, Received, Sends, media, loop
    <3> QED
      BY <1>2, <2>3, <3>1, <3>2 DEF IInv, CallInv, MediaFollowsDialog,
         InboundMediaHasEndpoint, SilentCallLacksEndpoint, RetransmittedOkIsOfTheCall,
         CallingIsInsidePlaceCall, DialogOfState, NeedsEndpoint, RecvAck, Received,
         TypeOK, Dialogs, media
  <2> QED BY <2>2, <2>3
<1> QED BY <1>1, <1>2

\* Any datagram.
LEMMA RecvStep == ASSUME IInv, Recv PROVE IInv'
<1>1. CASE RecvNothing
  BY <1>1, RecvUnaffected DEF RecvNothing, Sends
<1>2. CASE RecvOptions
  <2>1. out' \in SUBSET Messages
    BY <1>2, MessageTypes DEF RecvOptions, Sends, Codes, Ids
  <2> QED BY <1>2, <2>1, RecvUnaffected DEF RecvOptions
<1>3. ASSUME NEW c \in RemoteId, NEW ep \in Offer, NEW named \in BOOLEAN, RecvInvite(c, ep, named)
      PROVE  IInv'
  BY <1>3, RecvInviteStep
<1>4. ASSUME NEW c \in CallId, RecvBye(c) PROVE IInv'
  <2>1. out' \in SUBSET Messages
    BY <1>4, MessageTypes DEF RecvBye, Sends, Codes, Ids
  <2> QED BY <1>4, <2>1, RecvUnaffected, RecvTearsDown DEF RecvBye
<1>5. ASSUME NEW c \in CallId, RecvCancel(c) PROVE IInv'
  <2>1. /\ Response(200, "CANCEL", c) \in Messages
        /\ Response(487, "INVITE", c) \in Messages
    BY MessageTypes DEF Codes, Ids
  <2>2. out' \in SUBSET Messages
    BY <1>5, <2>1 DEF RecvCancel, Sends
  <2> QED BY <1>5, <2>2, RecvUnaffected, RecvTearsDown DEF RecvCancel
<1>6. ASSUME NEW c \in CallId, NEW ep \in Offer, RecvAck(c, ep) PROVE IInv'
  BY <1>6, RecvAckStep
<1> QED BY <1>1, <1>2, <1>3, <1>4, <1>5, <1>6 DEF Recv

-----------------------------------------------------------------------------
(* answer(), reject(), hangup(), callEnded()                                *)

\* An operation that resets the call after sending m.
LEMMA ApiResets ==
  ASSUME IInv, Api, ResetDialog, state' = "Idle", UNCHANGED <<callEndedPending, ret>>,
         NEW m \in Messages, Sends({m})
  PROVE  IInv'
<1>1. TypeOK'
  BY ResetTypes DEF IInv, TypeOK, Api, Sends, loop
<1>2. at' # "place"
  BY DEF IInv, CallInv, CallingIsInsidePlaceCall, Api
<1> QED BY <1>1, <1>2, ResetsCall

\* An operation that has nothing to do.
LEMMA ApiIdles ==
  ASSUME IInv, Api, Sends({}), UNCHANGED <<state, dialog, media>>,
         callEndedPending' \in BOOLEAN, ret' \in BOOLEAN
  PROVE  IInv'
<1>1. TypeOK'
  BY DEF IInv, TypeOK, Api, Sends, media, loop
<1> QED BY <1>1, Frame DEF Api

\* Answering turns the offered call into the call on the line.
LEMMA AnswerStep == ASSUME IInv, Answer PROVE IInv'
<1>1. CASE state # "Ringing"
  BY <1>1, ApiIdles DEF Answer, IInv, TypeOK
<1>2. CASE state = "Ringing"
  <2>1. dialog' \in Dialogs
    BY <1>2 DEF IInv, TypeOK, Answer, Dialogs, Ids, CallId
  <2>2. out' \in SUBSET Messages
    BY <1>2, MessageTypes DEF IInv, TypeOK, Answer, Sends, Dialogs, Codes, Ids, CallId
  <2>3. TypeOK'
    BY <1>2, <2>1, <2>2 DEF IInv, TypeOK, Answer, Api, ArmIfKnown, PublishMediaTarget,
       Dialogs, media, loop
  <2>4. /\ dialog'.awaitingAck
        /\ dialog'.pendingOk = dialog.inCallId
        /\ dialog'.callId = dialog.inCallId
        /\ dialog'.inCallId = dialog.inCallId
        /\ dialog'.remoteRtp = dialog.remoteRtp
    BY <1>2 DEF IInv, TypeOK, Answer, Dialogs
  <2>5. /\ dialog.inCallId \in RemoteId /\ dialog.inCallId # None
        /\ ~mediaActive
        /\ state' = "InCall"
        /\ at = "api" /\ at' = "api"
        /\ ArmIfKnown(dialog.remoteRtp)
    BY <1>2, IdAssumption DEF IInv, CallInv, DialogOfState, Answer, Api, CallId
  <2>6. IF dialog.remoteRtp # None
        THEN mediaActive' /\ mediaTarget' = dialog.remoteRtp /\ dialog.remoteRtp \in Endpoint
        ELSE ~mediaActive'
    BY <2>5 DEF ArmIfKnown, PublishMediaTarget, media, IInv, TypeOK, Dialogs, Offer
  <2> QED
    BY <2>3, <2>4, <2>5, <2>6 DEF IInv, CallInv, MediaFollowsDialog, InboundMediaHasEndpoint,
       SilentCallLacksEndpoint, RetransmittedOkIsOfTheCall, CallingIsInsidePlaceCall,
       DialogOfState, CallId
<1> QED BY <1>1, <1>2

\* A declined call: 486, whether by reject() or by hangup().
LEMMA DeclineStep ==
  ASSUME IInv, Api, state = "Ringing", DeclineRinging, UNCHANGED <<callEndedPending, ret>>
  PROVE  IInv'
<1>1. Response(486, "INVITE", dialog.inCallId) \in Messages
  BY MessageTypes DEF IInv, TypeOK, Dialogs, Codes, Ids, CallId
<1> QED BY <1>1, ApiResets DEF DeclineRinging

\* Hanging up, in each state.
LEMMA HangupStep == ASSUME IInv, Hangup PROVE IInv'
<1>1. CASE state = "InCall"
  BY <1>1, MessageTypes, ApiResets DEF Hangup, GiveUp, IInv, TypeOK
<1>2. CASE state = "Calling"
  BY <1>2, MessageTypes, ApiResets DEF Hangup, GiveUp, IInv, TypeOK
<1>3. CASE state = "Ringing"
  BY <1>3, DeclineStep DEF Hangup
<1>4. CASE state \notin {"InCall", "Calling", "Ringing"}
  BY <1>4, ApiIdles DEF Hangup, IInv, TypeOK
<1> QED BY <1>1, <1>2, <1>3, <1>4

\* Any operation of the caller.
LEMMA OperationStep == ASSUME IInv, Operations PROVE IInv'
<1>1. CASE RegisterExt \/ MaintainRegistration
  BY <1>1, RegisterStep
<1>2. CASE PlaceCallBusy
  <2>1. ret' \in BOOLEAN /\ out' \in SUBSET Messages
    BY <1>2 DEF PlaceCallBusy, Return, Sends
  <2>2. TypeOK'
    BY <1>2, <2>1 DEF IInv, TypeOK, PlaceCallBusy, Return, media, loop
  <2> QED BY <1>2, <2>2, Frame DEF PlaceCallBusy, Return
<1>3. ASSUME NEW n \in Number, NEW c \in LocalId, PlaceCall(n, c) PROVE IInv'
  BY <1>3, PlaceCallStep
<1>4. CASE Answer
  BY <1>4, AnswerStep
<1>5. CASE Reject
  <2>1. CASE state = "Ringing"
    BY <1>5, <2>1, DeclineStep DEF Reject
  <2>2. CASE state # "Ringing"
    BY <1>5, <2>2, ApiIdles DEF Reject, IInv, TypeOK
  <2> QED BY <2>1, <2>2
<1>6. CASE Hangup
  BY <1>6, HangupStep
<1>7. CASE CallEnded
  BY <1>7, ApiIdles DEF CallEnded, IInv, TypeOK
<1> QED BY <1>1, <1>2, <1>3, <1>4, <1>5, <1>6, <1>7 DEF Operations

-----------------------------------------------------------------------------
(* The inductive invariant                                                  *)

\* Every step keeps the inductive invariant.
LEMMA StepInv == IInv /\ [Next]_vars => IInv'
<1> SUFFICES ASSUME IInv, [Next]_vars PROVE IInv'
  OBVIOUS
<1>1. CASE Operations
  BY <1>1, OperationStep
<1>2. CASE Registering
  BY <1>2, RegisterStep
<1>3. CASE Placing
  BY <1>3, PlaceUndecidedStep, PlaceAnsweredStep, PlaceFailedStep DEF Placing, Ids
<1>4. CASE Tick
  BY <1>4, TickStep
<1>5. CASE Recv
  BY <1>5, RecvStep
<1>6. CASE UNCHANGED vars
  <2>1. TypeOK'
    BY <1>6 DEF vars, media, loop, IInv, TypeOK
  <2> QED BY <1>6, <2>1, Frame DEF vars, media
<1> QED BY <1>1, <1>2, <1>3, <1>4, <1>5, <1>6 DEF Next

\* The inductive invariant holds in every reachable state.
THEOREM Invariance == Spec => []IInv
<1> QED BY InitInv, StepInv, PTL DEF Spec

-----------------------------------------------------------------------------
(* The safety properties                                                    *)

\* Every variable keeps its type, in every reachable state.
THEOREM TypeCorrect == Spec => []TypeOK
<1> QED BY Invariance, PTL DEF IInv

\* Media follows the dialog: no way out of a call, and no late message, leaves
\* the audio task armed or aimed at another call's endpoint.
THEOREM MediaSafety == Spec => []MediaIsOfTheCall
<1>1. IInv => MediaIsOfTheCall
  BY DEF IInv, CallInv, MediaIsOfTheCall
<1> QED BY <1>1, Invariance, PTL

\* The 200 OK held for retransmission never outlives its call.
THEOREM RetransmissionSafety == Spec => []RetransmittedOkIsOfTheCall
<1>1. IInv => RetransmittedOkIsOfTheCall
  BY DEF IInv, CallInv
<1> QED BY <1>1, Invariance, PTL

\* hangup() can never find the UAC dialling: its CANCEL is never sent.
THEOREM CallingIsBlocking == Spec => []CallingIsInsidePlaceCall
<1>1. IInv => CallingIsInsidePlaceCall
  BY DEF IInv, CallInv
<1> QED BY <1>1, Invariance, PTL

-----------------------------------------------------------------------------
(* What a step may never do                                                 *)

\* However a call stops ringing, its INVITE has had a final response.
THEOREM RingingAnswered == Spec => RingingIsAnswered
<1> DEFINE Answered == \E code \in {200, 486, 487} :
                         Response(code, "INVITE", dialog.inCallId) \in out'
<1>1. ASSUME IInv, [Next]_vars, state = "Ringing", state' # "Ringing" PROVE Answered
  <2>1. ~dialog.awaitingAck /\ at # "place"
    BY <1>1 DEF IInv, CallInv, RetransmittedOkIsOfTheCall, CallingIsInsidePlaceCall
  <2>2. CASE Operations
    <3>1. CASE Answer
      BY <1>1, <3>1 DEF Answer, Sends
    <3>2. CASE Reject \/ Hangup
      BY <1>1, <3>2 DEF Reject, Hangup, DeclineRinging, Sends
    <3> QED
      BY <1>1, <2>2, <3>1, <3>2 DEF Operations, RegisterExt, MaintainRegistration,
         StartRegister, PlaceCallBusy, PlaceCall, CallEnded
  <2>3. CASE Recv
    <3>1. CASE \E c \in CallId : RecvCancel(c)
      BY <1>1, <3>1 DEF RecvCancel, Sends, Unaffected
    <3> QED
      BY <1>1, <2>3, <3>1 DEF Recv, RecvNothing, RecvOptions, RecvInvite, RecvBye, RecvAck,
         Unaffected, Busy
  <2> QED
    BY <1>1, <2>1, <2>2, <2>3 DEF Next, Registering, RegisterNoAnswer, RegisterOk,
       RegisterRejected, InRegister, Placing, PlaceUndecided, PlaceAnswered, PlaceFailed,
       InPlaceCall, Tick, TickQuiet, TickResend, TickGiveUp, vars
<1>2. IInv /\ [Next]_vars => [state = "Ringing" /\ state' # "Ringing" => Answered]_vars
  BY <1>1
<1> QED BY <1>2, Invariance, PTL DEF Spec, RingingIsAnswered

\* No call ends without a BYE sent to its far end or one received from it, the BYE of
\* another call excepted, and without its user being told or hanging up.
THEOREM CallEndSignalled == Spec => CallEndIsSignalled
<1> DEFINE Signalled == /\ \/ Request("BYE") \in out' /\ dialog.callId # None
                           \/ Response(200, "BYE", dialog.callId) \in out'
                           \/ EndedByAnotherCall
                        /\ callEndedPending' \/ Hangup
<1>1. ASSUME IInv, [Next]_vars, state = "InCall", state' # "InCall" PROVE Signalled
  <2>1. at # "place" /\ dialog.callId # None
    BY <1>1, IdAssumption DEF IInv, CallInv, DialogOfState, CallingIsInsidePlaceCall
  <2>2. CASE Operations
    <3>1. CASE Hangup
      <4>1. Request("BYE") \in out'
        BY <1>1, <3>1 DEF Hangup, GiveUp, Sends
      <4> QED BY <2>1, <3>1, <4>1
    <3> QED
      BY <1>1, <2>2, <3>1 DEF Operations, RegisterExt, MaintainRegistration,
         StartRegister, PlaceCallBusy, PlaceCall, Answer, Reject, CallEnded
  <2>3. CASE Tick
    BY <1>1, <2>1, <2>3 DEF Tick, TickQuiet, TickResend, TickGiveUp, TearDown, Sends
  <2>4. CASE Recv
    <3>1. CASE \E c \in CallId : RecvBye(c)
      <4>1. PICK c \in CallId : RecvBye(c)
        BY <3>1
      <4>2. Response(200, "BYE", c) \in out' /\ callEndedPending'
        BY <1>1, <4>1 DEF RecvBye, TearDown, Sends
      <4> QED BY <4>1, <4>2 DEF EndedByAnotherCall
    <3> QED
      BY <1>1, <2>4, <3>1 DEF Recv, RecvNothing, RecvOptions, RecvInvite, RecvCancel, RecvAck,
         Unaffected, Busy
  <2> QED
    BY <1>1, <2>1, <2>2, <2>3, <2>4 DEF Next, Registering, RegisterNoAnswer, RegisterOk,
       RegisterRejected, InRegister, Placing, PlaceUndecided, PlaceAnswered, PlaceFailed,
       InPlaceCall, vars
<1>2. IInv /\ [Next]_vars => [state = "InCall" /\ state' # "InCall" => Signalled]_vars
  BY <1>1
<1> QED BY <1>2, Invariance, PTL DEF Spec, CallEndIsSignalled

\* The endpoint never moves under an armed audio task.
THEOREM EndpointFrozen == Spec => EndpointFrozenWhileArmed
<1>1. ASSUME IInv, [Next]_vars, mediaActive, mediaActive' PROVE mediaTarget' = mediaTarget
  <2>1. state = "InCall" /\ at # "place"
    BY <1>1 DEF IInv, CallInv, MediaFollowsDialog, CallingIsInsidePlaceCall
  <2> QED
    BY <1>1, <2>1 DEF Next, Operations, RegisterExt, MaintainRegistration, StartRegister,
       PlaceCallBusy, PlaceCall, Answer, Reject, Hangup, GiveUp, DeclineRinging, CallEnded,
       Registering, RegisterNoAnswer, RegisterOk, RegisterRejected, InRegister,
       Placing, PlaceUndecided, PlaceAnswered, PlaceFailed, InPlaceCall,
       Tick, TickQuiet, TickResend, TickGiveUp,
       Recv, RecvNothing, RecvOptions, RecvInvite, RecvBye, RecvCancel, RecvAck,
       NeedsEndpoint, Unaffected, TearDown, ResetDialog, RetireMediaTarget, media, vars
<1>2. IInv /\ [Next]_vars => [mediaActive /\ mediaActive' => mediaTarget' = mediaTarget]_vars
  BY <1>1
<1> QED BY <1>2, Invariance, PTL DEF Spec, EndpointFrozenWhileArmed

-----------------------------------------------------------------------------
(* Refinement of CallLine                                                   *)

\* Where the line sends voice.
Voice == IF mediaActive THEN mediaTarget ELSE None

\* A step that keeps state, dialog and media is a stutter of the line.
LEMMA LineStutters == UNCHANGED <<state, dialog, media>> => UNCHANGED Line!vars
BY DEF Line!vars, media

\* From a busy state to Idle, the line is freed.
LEMMA LineFreed ==
  ASSUME IInv, state # "Idle", state' = "Idle", ~mediaActive'
  PROVE  [Line!Next]_(Line!vars)
BY DEF IInv, TypeOK, Line!Next, Line!DialEnds, Line!DialFails, Line!Dropped, Line!End, Line!Become

\* Every step of the UAC is a step of the line, or leaves the line as it is.
LEMMA LineStep == IInv /\ [Next]_vars => [Line!Next]_(Line!vars)
<1> SUFFICES ASSUME IInv, [Next]_vars PROVE [Line!Next]_(Line!vars)
  OBVIOUS
<1>0. IInv'
  BY StepInv
<1>1. CASE Operations
  <2>1. ASSUME NEW n \in Number, NEW c \in LocalId, PlaceCall(n, c)
        PROVE  [Line!Next]_(Line!vars)
    <3>1. Line!Dial(c)
      BY <2>1 DEF PlaceCall, NoDialog, RetireMediaTarget, Line!Dial, Line!Become
    <3> QED BY <3>1 DEF Line!Next
  <2>2. CASE Answer
    <3>1. CASE state # "Ringing"
      BY <2>2, <3>1, LineStutters DEF Answer
    <3>2. CASE state = "Ringing"
      <4>1. Voice' \in Offer /\ state' = "InCall" /\ dialog'.callId = dialog.inCallId
        BY <1>0, <2>2, <3>2 DEF Answer, IInv, TypeOK, Voice, Offer, Dialogs
      <4>2. Line!Accept(Voice')
        BY <3>2, <4>1 DEF Line!Accept, Line!Become, Voice
      <4> QED BY <4>1, <4>2 DEF Line!Next, Offer
    <3> QED BY <3>1, <3>2
  <2>3. CASE Reject \/ Hangup
    BY <2>3, LineStutters, LineFreed DEF Reject, Hangup, GiveUp, DeclineRinging, ResetDialog,
       RetireMediaTarget, IInv, TypeOK
  <2> QED
    BY <1>1, <2>1, <2>2, <2>3, LineStutters DEF Operations, RegisterExt, MaintainRegistration,
       StartRegister, PlaceCallBusy, CallEnded
<1>2. CASE Registering
  BY <1>2, LineStutters DEF Registering, RegisterNoAnswer, RegisterOk, RegisterRejected, InRegister
<1>3. CASE Placing
  <2>1. state = "Calling" /\ ~mediaActive
    BY <1>3 DEF Placing, PlaceUndecided, PlaceAnswered, PlaceFailed, InPlaceCall, IInv, CallInv,
       CallingIsInsidePlaceCall, DialogOfState
  <2>2. ASSUME NEW heard \in BOOLEAN, PlaceUndecided(heard) PROVE [Line!Next]_(Line!vars)
    BY <2>1, <2>2, LineStutters, LineFreed DEF PlaceUndecided, media
  <2>3. ASSUME NEW c \in Ids, NEW ep \in Offer, PlaceAnswered(c, ep)
        PROVE  [Line!Next]_(Line!vars)
    <3>1. Voice' \in Offer /\ state' = "InCall" /\ dialog'.callId = dialog.callId
      BY <1>0, <2>3 DEF PlaceAnswered, Learnt, IInv, TypeOK, Voice, Offer, Dialogs
    <3>2. Line!Answered(Voice')
      BY <2>1, <3>1 DEF Line!Answered, Line!Become, Voice
    <3> QED BY <3>1, <3>2 DEF Line!Next, Line!DialEnds, Offer
  <2>4. CASE PlaceFailed
    BY <2>1, <2>4, LineFreed DEF PlaceFailed, media
  <2> QED BY <1>3, <2>2, <2>3, <2>4 DEF Placing, Ids
<1>4. CASE Tick
  <2>1. CASE TickGiveUp
    BY <2>1, LineFreed DEF TickGiveUp, TearDown, ResetDialog, RetireMediaTarget, IInv, CallInv,
       RetransmittedOkIsOfTheCall
  <2> QED BY <1>4, <2>1, LineStutters DEF Tick, TickQuiet, TickResend
<1>5. CASE Recv
  <2>1. ASSUME NEW c \in RemoteId, NEW ep \in Offer, NEW named \in BOOLEAN,
               RecvInvite(c, ep, named)
        PROVE  [Line!Next]_(Line!vars)
    <3>1. CASE Busy
      BY <2>1, <3>1, LineStutters DEF RecvInvite, Unaffected
    <3>2. CASE ~Busy
      <4>1. Line!Offered(c)
        BY <2>1, <3>2 DEF RecvInvite, Busy, Learnt, NoDialog, RetireMediaTarget,
           Line!Offered, Line!Become
      <4> QED BY <4>1 DEF Line!Next
    <3> QED BY <3>1, <3>2
  <2>2. ASSUME NEW c \in CallId, RecvBye(c) \/ RecvCancel(c) PROVE [Line!Next]_(Line!vars)
    BY <2>2, LineStutters, LineFreed DEF RecvBye, RecvCancel, Unaffected, TearDown,
       ResetDialog, RetireMediaTarget
  <2>3. ASSUME NEW c \in CallId, NEW ep \in Offer, RecvAck(c, ep)
        PROVE  [Line!Next]_(Line!vars)
    <3>1. CASE UNCHANGED <<dialog, media>>
      BY <2>3, <3>1, LineStutters DEF RecvAck
    <3>2. CASE ~UNCHANGED <<dialog, media>>
      <4>1. /\ state = "InCall" /\ state' = "InCall"
            /\ dialog.callId \in RemoteId
        BY <2>3, <3>2 DEF RecvAck, IInv, CallInv, TypeOK, Dialogs, RetransmittedOkIsOfTheCall
      <4>2. dialog'.callId = dialog.callId
        BY <2>3, <3>2 DEF RecvAck, Learnt, IInv, TypeOK, Dialogs
      <4>3. \/ UNCHANGED media
            \/ ~mediaActive /\ ep \in Endpoint /\ PublishMediaTarget(ep)
        BY <2>3, <3>2 DEF RecvAck, NeedsEndpoint, ArmIfKnown, Offer
      <4>4. CASE UNCHANGED media
        BY <4>1, <4>2, <4>4 DEF Line!vars, media
      <4>5. CASE ~mediaActive /\ ep \in Endpoint /\ PublishMediaTarget(ep)
        <5>1. Line!VoiceOn(ep)
          BY <4>1, <4>2, <4>5 DEF PublishMediaTarget, Line!VoiceOn, Line!Become
        <5> QED BY <4>5, <5>1 DEF Line!Next
      <4> QED BY <4>3, <4>4, <4>5
    <3> QED BY <3>1, <3>2
  <2> QED BY <1>5, <2>1, <2>2, <2>3, LineStutters DEF Recv, RecvNothing, RecvOptions, Unaffected
<1>6. CASE UNCHANGED vars
  BY <1>6, LineStutters DEF vars
<1> QED BY <1>1, <1>2, <1>3, <1>4, <1>5, <1>6 DEF Next

\* The UAC implements the line: one call at a time, connected only as the call
\* dialled or offered, with a voice path that does not move until it ends.
THEOREM ImplementsLine == Spec => LineSafety
<1>1. Init => Line!Init
  BY DEF Init, Line!Init
<1> QED BY <1>1, Invariance, LineStep, PTL DEF Spec, LineSafety, Line!Safety

-----------------------------------------------------------------------------
(* Refinement of VoicePath                                                  *)

\* Every step of the line moves the voice path as VoicePath allows, or not at all.
LEMMA PathStep ==
  ASSUME IInv, IInv', [Line!Next]_(Line!vars)
  PROVE  [Path!Next]_(Path!vars)
<1> DEFINE line == IF state = "InCall" THEN dialog.callId ELSE None
<1>1. /\ state \in {"Idle", "Calling", "Ringing", "InCall"}
      /\ state' \in {"Idle", "Calling", "Ringing", "InCall"}
  BY DEF IInv, TypeOK
<1>2. /\ state # "InCall" => line = None /\ Voice = None
      /\ state = "InCall" => line \in CallId /\ line # None
  BY <1>1, IdAssumption DEF IInv, CallInv, DialogOfState, Voice
<1>3. /\ state' # "InCall" => line' = None /\ Voice' = None
      /\ state' = "InCall" => line' \in CallId
  BY <1>1 DEF IInv, CallInv, DialogOfState, Voice
<1>4. Voice' \in Endpoint \cup {None}
  BY DEF IInv, TypeOK, Offer, Voice
<1>5. CASE state # "InCall" /\ state' # "InCall"
  BY <1>2, <1>3, <1>5 DEF Path!vars, Voice
<1>6. CASE state # "InCall" /\ state' = "InCall"
  <2>1. Path!Connect(line', Voice')
    BY <1>2, <1>6 DEF Path!Connect, Voice
  <2> QED BY <1>3, <1>4, <1>6, <2>1 DEF Path!Next
<1>7. CASE state = "InCall" /\ state' # "InCall"
  <2>1. Path!End
    BY <1>2, <1>3, <1>7 DEF Path!End, Voice
  <2> QED BY <2>1 DEF Path!Next
<1>8. CASE state = "InCall" /\ state' = "InCall"
  <2>1. \/ dialog'.callId = dialog.callId /\ Voice' = Voice
        \/ \E v \in Endpoint : dialog'.callId = dialog.callId /\ Voice = None /\ Voice' = v
    BY <1>8 DEF Line!Next, Line!vars, Line!Dial, Line!DialEnds, Line!DialFails, Line!Answered,
       Line!Offered, Line!Dropped, Line!Accept, Line!VoiceOn, Line!End, Line!Become, Voice
  <2>2. CASE dialog'.callId = dialog.callId /\ Voice' = Voice
    BY <1>8, <2>2 DEF Path!vars, Voice
  <2>3. ASSUME NEW v \in Endpoint, dialog'.callId = dialog.callId, Voice = None, Voice' = v
        PROVE  Path!Next
    <3>1. Path!VoiceOn(line, v)
      BY <1>8, <2>3 DEF Path!VoiceOn, Voice
    <3> QED BY <1>2, <1>8, <3>1 DEF Path!Next
  <2> QED BY <2>1, <2>2, <2>3
<1> QED BY <1>1, <1>5, <1>6, <1>7, <1>8

\* The user agent implements the voice path that MediaPath implements for the
\* audio task: aimed at most once in a call, at an endpoint, and gone with it.
THEOREM AgentImplementsPath == Spec => VoicePathSpec
<1>1. Init => Path!Init
  BY DEF Init, Path!Init
<1>2. IInv /\ [Next]_vars => IInv' /\ [Path!Next]_(Path!vars)
  BY StepInv, LineStep, PathStep
<1> QED BY <1>1, <1>2, Invariance, PTL DEF Spec, VoicePathSpec, Path!Spec

=============================================================================
