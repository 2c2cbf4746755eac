---------------------------- MODULE SipDialog_proofs ----------------------------
(***************************************************************************)
(* Proofs about SipDialog, for every set of calls and every bound on the   *)
(* datagrams under way: the user agent keeps its invariants in front of    *)
(* the PBX, and what the two ends believe of a call agrees.                *)
(*                                                                         *)
(* DialogInv relates four things: what the phone holds of a call, the leg  *)
(* of the PBX, the datagrams under way, and the history.  Its step is      *)
(* proved in two halves.  What any step of the phone may do to the other   *)
(* three is PhoneEffect: each action of the phone has it, and whatever has *)
(* it keeps DialogInv.  PbxEffect is the same for a step of the PBX, which *)
(* moves one leg.                                                          *)
(***************************************************************************)
EXTENDS SipDialog, TincanUac_proofs

-----------------------------------------------------------------------------
(* The inductive invariant                                                  *)

ToPbx(code, method, c) == Datagram("pbx", code, method, c)

\* What may be under way, by who placed the call.
Datagrams ==
  [to : {"phone"}, code : {0}, method : {"INVITE", "CANCEL", "ACK"}, cid : RemoteId]
  \cup [to : {"phone"}, code : {200, 486}, method : {"INVITE"}, cid : LocalId]
  \cup [to : {"phone"}, code : {0, 200}, method : {"BYE"}, cid : CallId]
  \cup [to : {"pbx"}, code : {0}, method : {"INVITE", "ACK"}, cid : LocalId]
  \cup [to : {"pbx"}, code : Codes, method : {"INVITE"}, cid : RemoteId]
  \cup [to : {"pbx"}, code : {200}, method : {"CANCEL"}, cid : RemoteId]
  \cup [to : {"pbx"}, code : {0, 200}, method : {"BYE"}, cid : CallId]

LocalLegs == {"none", "ringing", "answered", "up", "bye", "down", "off"}
RemoteLegs ==
  {"none", "inviting", "ringing", "cancelling", "cancelled", "up", "bye", "down", "off"}

Over == {"bye", "down", "off"}
Accepted == {"answered", "up", "bye", "down"}

NetTypes ==
  /\ net \subseteq Datagrams
  /\ leg \in [CallId -> LocalLegs \cup RemoteLegs]
  /\ \A c \in LocalId : leg[c] \in LocalLegs
  /\ \A c \in RemoteId : leg[c] \in RemoteLegs

\* Of a call the phone has not met, its INVITE alone may be under way.
Unmet ==
  \A c \in CallId : c \notin met =>
    /\ leg[c] \in {"none", "inviting"}
    /\ \A m \in net : m.cid = c => m = Asks("INVITE", c)

\* The phone speaks of calls it has met, and meets those the PBX has offered.
MetKnown ==
  /\ dialog.callId \in met \cup {None} /\ dialog.inCallId \in met \cup {None}
  /\ \A c \in RemoteId :
       leg[c] = "none" => c \notin met /\ \A m \in net : m.cid # c

\* The PBX's answers and BYEs come from a leg that has agreed, or is over; its
\* acknowledgements, too, from one that was refused.
PbxWord ==
  \A c \in CallId :
    /\ ToPhone(200, "INVITE", c) \in net => Agreed(c)
    /\ Asks("ACK", c) \in net => Agreed(c) \/ leg[c] = "off"
    /\ Asks("BYE", c) \in net => leg[c] \in Over

\* Nothing has ended the call that is being dialled, so a 200 of its Call-ID
\* answers its INVITE.
DiallingIsFresh ==
  state = "Calling" =>
    /\ ToPbx(0, "BYE", dialog.callId) \notin net
    /\ ToPhone(200, "BYE", dialog.callId) \notin net

Pending180(c) == {Asks("INVITE", c), Asks("CANCEL", c), ToPbx(180, "INVITE", c)}

Waiting == {"inviting", "ringing", "cancelling"}

\* A call that rings from its only INVITE has had a 180 from the phone and no more.
RingingIsFresh ==
  state = "Ringing" /\ dialog.inCallId \notin repeated =>
    /\ leg[dialog.inCallId] \in Waiting
    /\ \A m \in net : m.cid = dialog.inCallId => m \in Pending180(m.cid)

Refusals(c) == {ToPbx(486, "INVITE", c), ToPbx(487, "INVITE", c)}

\* A call answered from its only INVITE was not refused, so an ACK of it is that
\* of the 200.
AnsweredIsFresh ==
  state = "InCall" /\ dialog.awaitingAck /\ dialog.callId \notin repeated =>
    /\ Refusals(dialog.callId) \cap net = {}
    /\ Asks("ACK", dialog.callId) \in net => Agreed(dialog.callId)

\* The far end has agreed, or was refused an INVITE that was handled twice.
Settled(c) == Agreed(c) \/ (leg[c] = "off" /\ c \in repeated)

\* The call that is up is settled, waits for its ACK, or was established by the
\* 200 of another call.
CallIsAgreed ==
  state = "InCall" =>
    /\ dialog.remoteTag = dialog.callId => dialog.awaitingAck \/ Settled(dialog.callId)
    /\ dialog.remoteTag # dialog.callId => dialog.callId \in cutOff

\* What the phone sends in a call it placed, it sends after the far end agreed.
Acked ==
  \A c \in LocalId :
    Mine(c) \/ ToPbx(0, "ACK", c) \in net \/ ToPbx(0, "BYE", c) \in net =>
      Agreed(c) \/ c \in cutOff

Told(c) == Mine(c) \/ c \in cutOff \/ ToPbx(0, "BYE", c) \in net

\* The far end is up, or about to be.
Connecting(c) ==
  leg[c] = "up" \/ ToPbx(0, "ACK", c) \in net \/ ToPbx(200, "INVITE", c) \in net

ConnectedIsTold == \A c \in CallId : Connecting(c) => Told(c) \/ leg[c] \in Over

DialogInv ==
  /\ IInv /\ NetTypes /\ Unmet /\ MetKnown /\ PbxWord /\ DiallingIsFresh /\ RingingIsFresh
  /\ AnsweredIsFresh /\ CallIsAgreed /\ Acked /\ ConnectedIsTold

-----------------------------------------------------------------------------
(* The steps of the phone are steps of the user agent                       *)

\* What the user agent sends, on the wire.
LEMMA Wires ==
  /\ \A method : Wire(Request(method)) = ToPbx(0, method, dialog.callId)
  /\ \A c : Wire([Request("ACK") EXCEPT !.tag = c]) = ToPbx(0, "ACK", dialog.callId)
  /\ \A code, method, c : Wire(Response(code, method, c)) = ToPbx(code, method, c)
BY DEF Wire, Request, Response, ToPbx, Datagram

\* The fields of a datagram.
LEMMA Fields ==
  \A to, code, method, c :
    /\ Datagram(to, code, method, c).to = to
    /\ Datagram(to, code, method, c).code = code
    /\ Datagram(to, code, method, c).method = method
    /\ Datagram(to, code, method, c).cid = c
BY DEF Datagram

\* A datagram is determined by its fields.
LEMMA Whole ==
  \A m \in Datagrams :
    /\ m = Datagram(m.to, m.code, m.method, m.cid)
    /\ m.cid \in CallId
    /\ m.to = "phone" => m = ToPhone(m.code, m.method, m.cid)
    /\ m.to = "pbx" => m = ToPbx(m.code, m.method, m.cid)
BY DEF Datagrams, Datagram, ToPhone, ToPbx, CallId

\* What the phone may read.
LEMMA PhoneHears ==
  \A m \in Datagrams : m.to = "phone" =>
    \/ m.code = 0 /\ m.method \in {"INVITE", "CANCEL", "ACK"} /\ m.cid \in RemoteId
    \/ m.code \in {200, 486} /\ m.method = "INVITE" /\ m.cid \in LocalId
    \/ m.code \in {0, 200} /\ m.method = "BYE" /\ m.cid \in CallId
BY DEF Datagrams

\* What the PBX may hear.
LEMMA PbxHears ==
  \A m \in Datagrams : m.to = "pbx" =>
    \/ m.code = 0 /\ m.method \in {"INVITE", "ACK"} /\ m.cid \in LocalId
    \/ m.code \in Codes /\ m.method = "INVITE" /\ m.cid \in RemoteId
    \/ m.code = 200 /\ m.method = "CANCEL" /\ m.cid \in RemoteId
    \/ m.code \in {0, 200} /\ m.method = "BYE" /\ m.cid \in CallId
BY DEF Datagrams

\* The endpoint that messages name is usable.
LEMMA Named == FarRtp \in Offer
BY EndpointAssumption DEF FarRtp, Offer

\* Every step of the dialog is one of the user agent, or leaves it as it is.
LEMMA UacSteps ==
  ASSUME net \subseteq Datagrams, DialogNext
  PROVE  [Next]_vars
<1>1. ASSUME NEW m \in net, PhoneReads(m) PROVE Next
  <2>1. m.to = "phone" /\ (Placed(m) \/ Polled(m))
    BY <1>1 DEF PhoneReads
  <2>2. m \in Datagrams
    BY DEF Datagrams
  <2>3. CASE Placed(m)
    <3>1. m.cid \in CallId \cup {None}
      BY <2>2, Whole
    <3>2. PlaceAnswered(m.cid, FarRtp) \/ PlaceFailed \/ PlaceUndecided(TRUE)
      BY <2>3 DEF Placed
    <3>3. Placing
      BY <3>1, <3>2, Named DEF Placing
    <3> QED BY <3>3 DEF Next
  <2>4. CASE Polled(m)
    <3>1. CASE m.code # 0
      BY <2>4, <3>1 DEF Polled, Next, Recv
    <3>2. CASE m.code = 0 /\ m.method = "INVITE"
      <4>1. RecvInvite(m.cid, FarRtp, FALSE)
        BY <2>4, <3>2 DEF Polled
      <4>2. m.cid \in RemoteId
        BY <2>1, <2>2, <3>2, PhoneHears
      <4> QED BY <4>1, <4>2, Named DEF Next, Recv
    <3>3. CASE m.code = 0 /\ m.method = "BYE"
      <4>1. RecvBye(m.cid) /\ m.cid \in CallId
        BY <2>2, <2>4, <3>3, Whole DEF Polled
      <4> QED BY <4>1 DEF Next, Recv
    <3>4. CASE m.code = 0 /\ m.method = "CANCEL"
      <4>1. RecvCancel(m.cid) /\ m.cid \in CallId
        BY <2>2, <2>4, <3>4, Whole DEF Polled
      <4> QED BY <4>1 DEF Next, Recv
    <3>5. CASE m.code = 0 /\ m.method = "ACK"
      <4>1. RecvAck(m.cid, None) /\ m.cid \in CallId
        BY <2>2, <2>4, <3>5, Whole DEF Polled
      <4>2. None \in Offer
        BY DEF Offer
      <4> QED BY <4>1, <4>2 DEF Next, Recv
    <3> QED BY <2>1, <2>2, <3>1, <3>2, <3>3, <3>4, <3>5, PhoneHears
  <2> QED BY <2>1, <2>3, <2>4
<1>2. CASE Places
  BY <1>2 DEF Places, Next, Operations
<1>3. CASE User
  BY <1>3 DEF User, Next, Operations
<1>4. CASE Polls
  BY <1>4 DEF Polls, Next
<1>5. CASE Waits
  BY <1>5 DEF Waits, Next, Recv, Placing
<1>6. CASE Pbx
  <2>1. PbxStep
    BY <1>6 DEF Pbx, FarAnswers, FarRejects, AckTimeout, Offers, CallerGivesUp, CancelTimeout,
       FarHangsUp, Acts, Resends, PbxReads, HearsRequest, HearsResponse, HearsOk,
       HearsRefusal, Hears
  <2> QED BY <2>1 DEF PbxStep
<1> QED BY <1>1, <1>2, <1>3, <1>4, <1>5, <1>6 DEF DialogNext, Phone

-----------------------------------------------------------------------------
(* What a step of the phone does                                            *)

\* Nothing is taken back: what is on its way to the PBX stays, and the history
\* grows.
Keeps ==
  /\ leg' = leg
  /\ met \subseteq met' /\ repeated \subseteq repeated' /\ cutOff \subseteq cutOff'
  /\ \A m \in net : m.to = "pbx" => m \in net'

\* What the phone sends, it has cause to send.
Sound(m) ==
  /\ m \in Datagrams /\ m.to = "pbx" /\ m.cid \in met'
  /\ m = ToPbx(0, "ACK", m.cid) \/ m = ToPbx(200, "INVITE", m.cid) => Mine(m.cid)'
  /\ m = ToPbx(0, "BYE", m.cid) => Mine(m.cid) /\ state' = "Idle"
  /\ state' = "Ringing" /\ m.cid = dialog'.inCallId =>
       m = ToPbx(180, "INVITE", m.cid) \/ m.cid \in repeated'
  /\ state' = "InCall" /\ m.cid = dialog'.callId /\ m \in Refusals(m.cid) => m.cid \in repeated'

SendsSound == \A m \in net' : m \in net \/ Sound(m)

\* The phone leaves a call by its own BYE, by one of the PBX, or cut off.
LeavesTold == \A c \in CallId : Mine(c) => Told(c)' \/ Asks("BYE", c) \in net

\* A call is met when it is placed or its INVITE arrives.
MeetsKnown ==
  /\ dialog'.callId \in met' \cup {None} /\ dialog'.inCallId \in met' \cup {None}
  /\ \A c \in met' : c \in met \/ c \in LocalId \/ Asks("INVITE", c) \in net

\* How a call comes to be dialled, offered or up; otherwise it was so before.
Dials ==
  state' = "Calling" =>
    \/ state = "Calling" /\ dialog'.callId = dialog.callId
    \/ dialog'.callId \in CallId \ met

Rings ==
  state' = "Ringing" =>
    \/ state = "Ringing" /\ dialog'.inCallId = dialog.inCallId
    \/ /\ Asks("INVITE", dialog'.inCallId) \in net /\ dialog'.inCallId \in RemoteId
       /\ dialog'.inCallId \in met => dialog'.inCallId \in repeated'

Connects ==
  state' = "InCall" =>
    \/ /\ Mine(dialog'.callId) /\ dialog'.remoteTag = dialog.remoteTag
       /\ dialog'.awaitingAck => dialog.awaitingAck
       /\ dialog'.awaitingAck \/ ~dialog.awaitingAck \/ Asks("ACK", dialog.callId) \in net
    \/ /\ state = "Ringing" /\ dialog'.callId = dialog.inCallId
       /\ dialog'.awaitingAck /\ dialog'.remoteTag = dialog'.callId
    \/ /\ dialog'.callId \in LocalId /\ ~dialog'.awaitingAck
       /\ \/ dialog'.remoteTag # dialog'.callId /\ dialog'.callId \in cutOff'
          \/ dialog'.remoteTag = dialog'.callId /\ ToPhone(200, "INVITE", dialog'.callId) \in net

PhoneEffect ==
  Keeps /\ SendsSound /\ LeavesTold /\ MeetsKnown /\ Dials /\ Rings /\ Connects

-----------------------------------------------------------------------------
(* Such a step keeps the invariant                                          *)

\* The parts that speak of the network and of what the phone has met.
LEMMA PhoneKeepsNet ==
  ASSUME DialogInv, IInv', PhoneEffect
  PROVE  NetTypes' /\ Unmet' /\ MetKnown' /\ PbxWord'
<1> USE DEF DialogInv, PhoneEffect
<1>1. NetTypes'
  BY DEF NetTypes, Keeps, SendsSound, Sound
<1>2. Unmet'
  BY DEF Unmet, Keeps, SendsSound, Sound
<1>3. MetKnown'
  <2>1. ASSUME NEW c \in RemoteId, leg'[c] = "none"
        PROVE  c \notin met' /\ \A m \in net' : m.cid # c
    <3>1. c \notin met /\ \A m \in net : m.cid # c
      BY <2>1 DEF MetKnown, Keeps
    <3>2. Asks("INVITE", c) \notin net
      BY <3>1, Fields DEF Asks, ToPhone
    <3>3. c \notin LocalId
      BY IdAssumption
    <3>4. c \notin met'
      BY <3>1, <3>2, <3>3 DEF MeetsKnown
    <3> QED BY <3>1, <3>4 DEF SendsSound, Sound
  <2> QED BY <2>1 DEF MetKnown, MeetsKnown
<1>4. PbxWord'
  <2>1. \A m \in net' : m.to = "phone" => m \in net
    BY DEF SendsSound, Sound
  <2>2. ASSUME NEW c \in CallId
        PROVE  /\ ToPhone(200, "INVITE", c) \in net' => ToPhone(200, "INVITE", c) \in net
               /\ Asks("ACK", c) \in net' => Asks("ACK", c) \in net
               /\ Asks("BYE", c) \in net' => Asks("BYE", c) \in net
    BY <2>1, Fields DEF Asks, ToPhone
  <2> QED BY <2>2 DEF PbxWord, Agreed, Keeps
<1> QED BY <1>1, <1>2, <1>3, <1>4

\* The parts that speak of the call the phone is in.
LEMMA PhoneKeepsCall ==
  ASSUME DialogInv, IInv', PhoneEffect
  PROVE  /\ DiallingIsFresh' /\ RingingIsFresh' /\ AnsweredIsFresh' /\ CallIsAgreed'
         /\ Acked' /\ ConnectedIsTold'
<1> USE DEF DialogInv, PhoneEffect
<1>1. DiallingIsFresh'
  <2> SUFFICES ASSUME state' = "Calling"
               PROVE  /\ ToPbx(0, "BYE", dialog'.callId) \notin net'
                      /\ ToPhone(200, "BYE", dialog'.callId) \notin net'
    BY DEF DiallingIsFresh
  <2> DEFINE c == dialog'.callId
  <2>1. ToPbx(0, "BYE", c) \notin net /\ ToPhone(200, "BYE", c) \notin net
    <3>1. CASE state = "Calling" /\ c = dialog.callId
      BY <3>1 DEF DiallingIsFresh
    <3>2. CASE c \in CallId \ met
      <4>1. ToPbx(0, "BYE", c).cid = c /\ ToPhone(200, "BYE", c).cid = c
        BY Fields DEF ToPbx, ToPhone
      <4>2. ToPbx(0, "BYE", c) # Asks("INVITE", c) /\ ToPhone(200, "BYE", c) # Asks("INVITE", c)
        BY DEF ToPbx, ToPhone, Asks, Datagram
      <4> QED BY <3>2, <4>1, <4>2 DEF Unmet
    <3> QED BY <3>1, <3>2 DEF Dials
  <2>2. ToPbx(0, "BYE", c).cid = c /\ ToPhone(200, "BYE", c).to # "pbx"
    BY Fields DEF ToPbx, ToPhone
  <2> QED BY <2>1, <2>2 DEF SendsSound, Sound
<1>2. RingingIsFresh'
  <2> DEFINE c == dialog'.inCallId
  <2> SUFFICES ASSUME state' = "Ringing", c \notin repeated'
               PROVE  leg'[c] \in Waiting /\ \A m \in net' : m.cid = c => m \in Pending180(m.cid)
    BY DEF RingingIsFresh
  <2>1. leg[c] \in Waiting /\ \A m \in net : m.cid = c => m \in Pending180(m.cid)
    <3>1. CASE state = "Ringing" /\ c = dialog.inCallId
      BY <3>1 DEF RingingIsFresh, Keeps
    <3>2. CASE Asks("INVITE", c) \in net /\ c \in RemoteId /\ c \notin met
      <4>1. c \in CallId /\ Asks("INVITE", c).cid = c
        BY <3>2, Fields DEF CallId, Asks, ToPhone
      <4>2. leg[c] # "none"
        BY <3>2, <4>1 DEF MetKnown
      <4> QED BY <3>2, <4>1, <4>2 DEF Unmet, Waiting, Pending180
    <3> QED BY <3>1, <3>2 DEF Rings
  <2> QED BY <2>1 DEF Keeps, SendsSound, Sound, Pending180
<1>3. CallIsAgreed'
  <2> SUFFICES ASSUME state' = "InCall"
               PROVE  /\ dialog'.remoteTag = dialog'.callId =>
                           dialog'.awaitingAck \/ Settled(dialog'.callId)
                      /\ dialog'.remoteTag # dialog'.callId => dialog'.callId \in cutOff'
    BY DEF CallIsAgreed, Settled, Agreed, Keeps
  <2>1. dialog'.callId \in CallId
    BY DEF IInv, CallInv, DialogOfState
  <2>2. CASE /\ Mine(dialog'.callId) /\ dialog'.remoteTag = dialog.remoteTag
             /\ dialog'.awaitingAck \/ ~dialog.awaitingAck \/ Asks("ACK", dialog.callId) \in net
    <3>1. dialog'.callId = dialog.callId /\ state = "InCall"
      BY <2>2 DEF Mine
    <3>2. dialog.awaitingAck /\ Asks("ACK", dialog.callId) \in net => Settled(dialog.callId)
      <4>1. Asks("ACK", dialog.callId) \in net => Agreed(dialog.callId) \/ leg[dialog.callId] = "off"
        BY <2>1, <3>1 DEF PbxWord
      <4> QED BY <3>1, <4>1 DEF AnsweredIsFresh, Settled
    <3>3. /\ dialog.remoteTag = dialog.callId => dialog.awaitingAck \/ Settled(dialog.callId)
          /\ dialog.remoteTag # dialog.callId => dialog.callId \in cutOff
      BY <3>1 DEF CallIsAgreed
    <3> QED BY <2>2, <3>1, <3>2, <3>3 DEF Keeps
  <2>3. CASE dialog'.awaitingAck /\ dialog'.remoteTag = dialog'.callId
    BY <2>3
  <2>4. CASE \/ dialog'.remoteTag # dialog'.callId /\ dialog'.callId \in cutOff'
             \/ /\ dialog'.remoteTag = dialog'.callId
                /\ ToPhone(200, "INVITE", dialog'.callId) \in net
    BY <2>1, <2>4 DEF PbxWord, Settled
  <2> QED BY <2>2, <2>3, <2>4 DEF Connects
<1>4. Acked'
  <2> SUFFICES ASSUME NEW c \in LocalId,
                      Mine(c)' \/ ToPbx(0, "ACK", c) \in net' \/ ToPbx(0, "BYE", c) \in net'
               PROVE  Agreed(c) \/ c \in cutOff'
    BY DEF Acked, Agreed, Keeps
  <2>1. c \in CallId /\ c \notin RemoteId
    BY IdAssumption DEF CallId
  <2>2. Mine(c)' => Mine(c) \/ c \in cutOff' \/ Agreed(c)
    <3>1. state = "Ringing" => dialog.inCallId \in RemoteId
      BY DEF IInv, CallInv, DialogOfState
    <3> QED BY <2>1, <3>1 DEF Connects, Mine, PbxWord
  <2>3. /\ ToPbx(0, "ACK", c) \in net' => ToPbx(0, "ACK", c) \in net \/ Mine(c)'
        /\ ToPbx(0, "BYE", c) \in net' => ToPbx(0, "BYE", c) \in net \/ Mine(c)
    BY Fields DEF SendsSound, Sound, ToPbx
  <2> QED BY <2>2, <2>3 DEF Acked, Keeps
<1>5. ConnectedIsTold'
  <2> SUFFICES ASSUME NEW c \in CallId, Connecting(c)'
               PROVE  Told(c)' \/ leg[c] \in Over
    BY DEF ConnectedIsTold, Keeps
  <2>1. Connecting(c) \/ Mine(c)'
    BY Fields DEF Connecting, Keeps, SendsSound, Sound, ToPbx
  <2>2. Told(c) => Told(c)' \/ leg[c] \in Over
    <3>1. ToPbx(0, "BYE", c).to = "pbx"
      BY Fields DEF ToPbx
    <3> QED BY <3>1 DEF Told, LeavesTold, PbxWord, Keeps
  <2> QED BY <2>1, <2>2 DEF ConnectedIsTold, Told
<1>6. AnsweredIsFresh'
  <2> DEFINE c == dialog'.callId
  <2> SUFFICES ASSUME state' = "InCall", dialog'.awaitingAck, c \notin repeated'
               PROVE  /\ Refusals(c) \cap net' = {}
                      /\ Asks("ACK", c) \in net' => Agreed(c)
    BY DEF AnsweredIsFresh, Refusals, Agreed, Keeps
  <2>1. Refusals(c) \cap net = {} /\ (Asks("ACK", c) \in net => Agreed(c))
    <3>1. CASE Mine(c) /\ dialog.awaitingAck
      BY <3>1 DEF Mine, AnsweredIsFresh, Keeps
    <3>2. CASE state = "Ringing" /\ c = dialog.inCallId
      <4>1. \A m \in net : m.cid = c => m \in Pending180(c)
        BY <3>2 DEF RingingIsFresh, Keeps
      <4>2. /\ \A m \in Refusals(c) : m.cid = c /\ m \notin Pending180(c)
            /\ Asks("ACK", c).cid = c /\ Asks("ACK", c) \notin Pending180(c)
        BY DEF Refusals, Pending180, Asks, ToPhone, ToPbx, Datagram
      <4> QED BY <4>1, <4>2
    <3> QED BY <3>1, <3>2 DEF Connects
  <2>2. \A m \in Refusals(c) : m.cid = c /\ m \in Refusals(m.cid)
    BY DEF Refusals, ToPbx, Datagram
  <2>3. Asks("ACK", c) \in net' => Asks("ACK", c) \in net
    BY Fields DEF SendsSound, Sound, Asks, ToPhone
  <2> QED BY <2>1, <2>2, <2>3 DEF SendsSound, Sound
<1> QED BY <1>1, <1>2, <1>3, <1>4, <1>5, <1>6

-----------------------------------------------------------------------------
(* Each step of the phone is such a step                                    *)

\* What is kept of the network and what is sent.
LEMMA Transmitted ==
  ASSUME NEW kept \in SUBSET net, Sent(kept), \A m \in net : m.to = "pbx" => m \in kept,
         met \subseteq met', repeated \subseteq repeated', cutOff \subseteq cutOff'
  PROVE  Keeps /\ \A m \in net' : m \in net \/ \E s \in out' : m = Wire(s)
<1>1. PICK through \in SUBSET {Wire(s) : s \in out'} : net' = kept \cup through
  BY DEF Sent, Transmit
<1>2. leg' = leg
  BY DEF Sent
<1> QED BY <1>1, <1>2 DEF Keeps

\* A step that reads nothing.
LEMMA AloneNet ==
  ASSUME Alone, met \subseteq met'
  PROVE  Keeps /\ \A m \in net' : m \in net \/ \E s \in out' : m = Wire(s)
<1>1. Sent(net) /\ repeated \subseteq repeated' /\ cutOff \subseteq cutOff'
  BY DEF Alone
<1> QED BY <1>1, Transmitted

\* A BYE is on its way, or its call is cut off.
LEMMA ByeTold ==
  ASSUME Alone, Request("BYE") \in out'
  PROVE  ToPbx(0, "BYE", dialog.callId) \in net' \/ dialog.callId \in cutOff'
<1> DEFINE b == Request("BYE")
<1>1. "code" \notin DOMAIN b /\ b.method = "BYE" /\ b.cid = dialog.callId
  BY DEF Request
<1>2. b \in Bye
  BY <1>1 DEF Bye
<1>3. Wire(b) \notin net' => dialog.callId \in LostBye
  BY <1>1, <1>2 DEF LostBye
<1> QED BY <1>3, Wires DEF Alone

\* A step that leaves state and dialog as they are.
LEMMA SameCall ==
  ASSUME DialogInv, UNCHANGED <<state, dialog>>, Keeps, SendsSound,
         \A c \in met' : c \in met \/ c \in LocalId \/ Asks("INVITE", c) \in net
  PROVE  PhoneEffect
BY DEF DialogInv, MetKnown, PhoneEffect, LeavesTold, MeetsKnown, Dials, Rings, Connects, Keeps,
       Told, Mine

\* A step to Idle.
LEMMA ToIdle ==
  ASSUME Keeps, SendsSound, LeavesTold, met' = met, state' = "Idle",
         dialog'.callId \in met \cup {None}, dialog'.inCallId \in met \cup {None}
  PROVE  PhoneEffect
BY DEF PhoneEffect, MeetsKnown, Dials, Rings, Connects

\* The dialog that resetDialog() leaves names no call.
LEMMA ResetIds == ResetDialog => dialog'.callId = None /\ dialog'.inCallId = None
BY DEF ResetDialog, NoDialog

\* The calls the phone is in, by state.
LEMMA CallIds ==
  ASSUME DialogInv
  PROVE  /\ state = "Calling" => dialog.callId \in LocalId /\ dialog.callId \in met
         /\ state = "Ringing" => dialog.inCallId \in RemoteId /\ dialog.inCallId \in met
         /\ state = "InCall" => dialog.callId \in CallId /\ dialog.callId \in met
BY IdAssumption DEF DialogInv, IInv, CallInv, DialogOfState, MetKnown, CallId

\* Placing a call: it is met, and nothing is sent yet.
LEMMA PlacesEffect == ASSUME DialogInv, Places PROVE PhoneEffect
<1>1. PICK n \in Number, c \in LocalId \ met : PlaceCall(n, c) /\ Alone /\ met' = met \cup {c}
  BY DEF Places
<1>2. /\ out' = {} /\ state = "Idle" /\ state' = "Calling"
      /\ dialog' = [NoDialog EXCEPT !.callId = c, !.peerExt = Dialled(n)]
  BY <1>1 DEF PlaceCall, Sends
<1>3. dialog'.callId = c /\ dialog'.inCallId = None
  BY <1>2 DEF NoDialog
<1>4. Keeps /\ \A m \in net' : m \in net \/ \E s \in out' : m = Wire(s)
  BY <1>1, AloneNet
<1>5. SendsSound
  BY <1>2, <1>4 DEF SendsSound
<1>6. c \in CallId
  BY DEF CallId
<1> QED
  BY <1>1, <1>2, <1>3, <1>4, <1>5, <1>6 DEF PhoneEffect, LeavesTold, MeetsKnown, Dials, Rings,
     Connects, Mine

\* Declining: the 486 of the call that rang.
LEMMA DeclineEffect ==
  ASSUME DialogInv, state = "Ringing", DeclineRinging, Alone, met' = met
  PROVE  PhoneEffect
<1> DEFINE c == dialog.inCallId
           w == ToPbx(486, "INVITE", c)
<1>1. c \in RemoteId /\ c \in met
  BY CallIds
<1>2. state' = "Idle" /\ out' = {Response(486, "INVITE", c)} /\ ResetDialog
  BY DEF DeclineRinging, Sends
<1>3. Keeps /\ \A m \in net' : m \in net \/ m = w
  BY <1>2, AloneNet, Wires
<1>4. Sound(w)
  BY <1>1, <1>2 DEF Sound, Refusals, Datagrams, ToPbx, Datagram, Codes
<1>5. SendsSound
  BY <1>3, <1>4 DEF SendsSound
<1>6. LeavesTold
  BY DEF LeavesTold, Mine
<1> QED BY <1>2, <1>3, <1>5, <1>6, ResetIds, ToIdle

\* Hanging up, by hangup() or by the tick that gives up on the ACK.
LEMMA ByeEffect ==
  ASSUME DialogInv, state = "InCall", out' = {Request("BYE")}, ResetDialog, state' = "Idle",
         Alone, met' = met
  PROVE  PhoneEffect
<1> DEFINE c == dialog.callId
           w == ToPbx(0, "BYE", c)
<1>1. c \in CallId /\ c \in met
  BY CallIds
<1>2. Keeps /\ \A m \in net' : m \in net \/ m = w
  BY AloneNet, Wires
<1>3. Sound(w)
  BY <1>1 DEF Sound, Refusals, Datagrams, ToPbx, Datagram, Mine
<1>4. LeavesTold
  BY ByeTold DEF LeavesTold, Told, Mine
<1> QED BY <1>2, <1>3, <1>4, ResetIds, ToIdle DEF SendsSound

\* Answering: the 200 of the call that rang, which is up and awaits its ACK.
LEMMA AnswerEffect ==
  ASSUME DialogInv, state = "Ringing", Answer, Alone, met' = met
  PROVE  PhoneEffect
<1> DEFINE c == dialog.inCallId
           w == ToPbx(200, "INVITE", c)
<1>1. c \in RemoteId /\ c \in met /\ c \in CallId
  BY CallIds DEF CallId
<1>2. dialog \in Dialogs
  BY DEF DialogInv, IInv, TypeOK
<1>3. /\ state' = "InCall" /\ out' = {Response(200, "INVITE", c)}
      /\ dialog' = [dialog EXCEPT !.pendingOk = c, !.awaitingAck = TRUE, !.callId = c,
                                  !.remoteTag = c]
  BY DEF Answer, Sends
<1>4. /\ dialog'.callId = c /\ dialog'.inCallId = c /\ dialog'.remoteTag = c
      /\ dialog'.awaitingAck
  BY <1>2, <1>3 DEF Dialogs
<1>5. Keeps /\ \A m \in net' : m \in net \/ m = w
  BY <1>3, AloneNet, Wires
<1>6. Sound(w)
  BY <1>1, <1>3, <1>4 DEF Sound, Refusals, Datagrams, ToPbx, Datagram, Codes, Mine
<1>7. SendsSound
  BY <1>5, <1>6 DEF SendsSound
<1>11. LeavesTold
  BY DEF LeavesTold, Mine
<1>8. MeetsKnown
  BY <1>1, <1>4 DEF MeetsKnown
<1>9. Dials /\ Rings
  BY <1>3 DEF Dials, Rings
<1>10. Connects
  BY <1>4 DEF Connects
<1> QED BY <1>5, <1>7, <1>8, <1>9, <1>10, <1>11 DEF PhoneEffect

\* The operations of the user.
LEMMA UserEffect == ASSUME DialogInv, User PROVE PhoneEffect
<1>1. Alone /\ met' = met /\ (Answer \/ Reject \/ Hangup)
  BY DEF User
<1>2. CASE out' = {} /\ UNCHANGED <<state, dialog>>
  BY <1>1, <1>2, AloneNet, SameCall DEF SendsSound
<1>3. CASE Answer
  BY <1>1, <1>2, <1>3, AnswerEffect DEF Answer, Sends
<1>4. CASE Reject
  BY <1>1, <1>2, <1>4, DeclineEffect DEF Reject, Sends
<1>5. CASE Hangup
  <2>1. state # "Calling"
    BY <1>5 DEF Hangup, Api, DialogInv, IInv, CallInv, CallingIsInsidePlaceCall
  <2>2. CASE state = "InCall"
    BY <1>1, <1>5, <2>2, ByeEffect DEF Hangup, GiveUp, Sends
  <2>3. CASE state = "Ringing"
    BY <1>1, <1>5, <2>3, DeclineEffect DEF Hangup
  <2>4. CASE state \notin {"InCall", "Calling", "Ringing"}
    BY <1>1, <1>2, <1>5, <2>4 DEF Hangup, Sends
  <2> QED BY <2>1, <2>2, <2>3, <2>4
<1> QED BY <1>1, <1>3, <1>4, <1>5

\* The tick: the 200 again, or the BYE that gives up.
LEMMA PollsEffect == ASSUME DialogInv, Polls PROVE PhoneEffect
<1>1. Tick /\ Alone /\ met' = met
  BY DEF Polls
<1>2. CASE TickQuiet
  BY <1>1, <1>2, AloneNet, SameCall DEF SendsSound, TickQuiet, Sends
<1>3. CASE TickResend
  <2> DEFINE c == dialog.callId
             w == ToPbx(200, "INVITE", c)
  <2>1. state = "InCall" /\ dialog.pendingOk = c /\ dialog.inCallId = c /\ c # None
    BY <1>3 DEF TickResend, DialogInv, IInv, CallInv, RetransmittedOkIsOfTheCall
  <2>2. c \in RemoteId /\ c \in met
    BY <2>1, CallIds DEF DialogInv, IInv, TypeOK, Dialogs
  <2>3. out' = {Response(200, "INVITE", c)} /\ UNCHANGED <<state, dialog>>
    BY <1>3, <2>1 DEF TickResend, Sends
  <2>4. Keeps /\ \A m \in net' : m \in net \/ m = w
    BY <1>1, <2>3, AloneNet, Wires
  <2>5. Sound(w)
    BY <1>1, <2>1, <2>2, <2>3 DEF Sound, Refusals, Datagrams, ToPbx, Datagram, Codes, Mine
  <2> QED BY <1>1, <2>3, <2>4, <2>5, SameCall DEF SendsSound
<1>4. CASE TickGiveUp
  <2>1. state = "InCall"
    BY <1>4 DEF TickGiveUp, DialogInv, IInv, CallInv, RetransmittedOkIsOfTheCall
  <2> QED BY <1>1, <1>4, <2>1, ByeEffect DEF TickGiveUp, TearDown, Sends
<1> QED BY <1>1, <1>2, <1>3, <1>4 DEF Tick

\* placeCall() that goes on waiting, or gives up.
LEMMA WaitsOn ==
  ASSUME DialogInv, Keeps, met' = met, NEW heard \in BOOLEAN, PlaceUndecided(heard) \/ PlaceFailed,
         \A m \in net' : m \in net \/ \E s \in out' : m = Wire(s)
  PROVE  PhoneEffect
<1> DEFINE c == dialog.callId
           w == ToPbx(0, "INVITE", c)
<1>1. state = "Calling" /\ dialog' = dialog /\ (state' = "Calling" \/ state' = "Idle")
  BY DEF PlaceUndecided, PlaceFailed, InPlaceCall, DialogInv, IInv, CallInv,
     CallingIsInsidePlaceCall
<1>2. c \in LocalId /\ c \in met
  BY <1>1, CallIds
<1>3. out' \subseteq {Request("INVITE")}
  BY DEF PlaceUndecided, PlaceFailed, Sends, Invites
<1>4. \A m \in net' : m \in net \/ m = w
  BY <1>3, Wires
<1>5. Sound(w)
  BY <1>1, <1>2 DEF Sound, Refusals, Datagrams, ToPbx, Datagram
<1>6. SendsSound
  BY <1>4, <1>5 DEF SendsSound
<1>7. CASE state' = "Calling"
  BY <1>1, <1>6, <1>7, SameCall
<1>8. CASE state' = "Idle"
  <2>1. LeavesTold
    BY <1>1 DEF LeavesTold, Mine
  <2>2. dialog.callId \in met \cup {None} /\ dialog.inCallId \in met \cup {None}
    BY DEF DialogInv, MetKnown
  <2> QED BY <1>1, <1>6, <1>8, <2>1, <2>2, ToIdle
<1> QED BY <1>1, <1>7, <1>8

\* Nothing arrives, or nothing that decides.
LEMMA WaitsEffect == ASSUME DialogInv, Waits PROVE PhoneEffect
<1>1. /\ Alone /\ met' = met
      /\ RecvNothing \/ \E heard \in BOOLEAN : PlaceUndecided(heard)
  BY DEF Waits
<1>2. Keeps /\ \A m \in net' : m \in net \/ \E s \in out' : m = Wire(s)
  BY <1>1, AloneNet
<1>3. CASE RecvNothing
  BY <1>1, <1>2, <1>3, SameCall DEF RecvNothing, Unaffected, Sends, SendsSound
<1>4. ASSUME NEW heard \in BOOLEAN, PlaceUndecided(heard) PROVE PhoneEffect
  BY <1>1, <1>2, <1>4, WaitsOn
<1> QED BY <1>1, <1>3, <1>4

\* What any read does to the network and the history.
LEMMA ReadNet ==
  ASSUME DialogInv, NEW m \in net, PhoneReads(m)
  PROVE  /\ m \in Datagrams /\ m.to = "phone" /\ m = ToPhone(m.code, m.method, m.cid)
         /\ Keeps
         /\ \A x \in net' : x \in net \/ \E s \in out' : x = Wire(s)
         /\ met' = IF Offered(m) THEN met \cup {m.cid} ELSE met
         /\ Offered(m) /\ m.cid \in met => m.cid \in repeated'
         /\ Crosses(m) => dialog.callId \in cutOff'
         /\ Offered(m) => m = Asks("INVITE", m.cid) /\ m.cid \in RemoteId
<1>1. PICK kept \in {net, net \ {m}} :
        /\ m.to = "phone" /\ (Placed(m) \/ Polled(m)) /\ Sent(kept)
        /\ met' = IF Offered(m) THEN met \cup {m.cid} ELSE met
        /\ repeated' = IF Offered(m) /\ m.cid \in met THEN repeated \cup {m.cid} ELSE repeated
        /\ cutOff' = IF Crosses(m) THEN cutOff \cup {dialog.callId} ELSE cutOff
  BY DEF PhoneReads
<1>2. m \in Datagrams /\ m = ToPhone(m.code, m.method, m.cid)
  BY <1>1, Whole DEF DialogInv, NetTypes
<1>3. /\ kept \in SUBSET net /\ \A x \in net : x.to = "pbx" => x \in kept
      /\ met \subseteq met' /\ repeated \subseteq repeated' /\ cutOff \subseteq cutOff'
  BY <1>1
<1>4. Keeps /\ \A x \in net' : x \in net \/ \E s \in out' : x = Wire(s)
  BY <1>1, <1>3, Transmitted
<1>5. Offered(m) => m = Asks("INVITE", m.cid) /\ m.cid \in RemoteId
  BY <1>1, <1>2, PhoneHears DEF Offered, Asks
<1> QED BY <1>1, <1>2, <1>4, <1>5

\* placeCall() reads: the 200 that establishes the call is its own, or the call
\* is marked as cut off.
LEMMA PlacedEffect ==
  ASSUME DialogInv, NEW m \in net, PhoneReads(m), Placed(m)
  PROVE  PhoneEffect
<1> DEFINE c == dialog.callId
<1>1. at = "place" /\ state = "Calling"
  BY DEF Placed, PlaceAnswered, PlaceFailed, PlaceUndecided, InPlaceCall, DialogInv, IInv,
     CallInv, CallingIsInsidePlaceCall
<1>2. met' = met
  BY <1>1, ReadNet DEF Offered
<1>3. CASE m.code # 200
  <2>1. PlaceUndecided(TRUE) \/ PlaceFailed
    BY <1>3 DEF Placed
  <2> QED BY <1>2, <2>1, ReadNet, WaitsOn
<1>4. CASE m.code = 200
  <2>1. PlaceAnswered(m.cid, FarRtp)
    BY <1>4 DEF Placed
  <2>2. c \in LocalId /\ c \in met /\ c \in CallId
    BY <1>1, CallIds DEF CallId
  <2>3. dialog' = Learnt([dialog EXCEPT !.remoteTag = m.cid], FarRtp) /\ state' = "InCall"
    BY <2>1 DEF PlaceAnswered
  <2>4. /\ dialog'.callId = c /\ dialog'.inCallId = dialog.inCallId /\ dialog'.remoteTag = m.cid
        /\ ~dialog'.awaitingAck
    <3>1. dialog \in Dialogs /\ dialog.awaitingAck = FALSE
      BY <1>1 DEF DialogInv, IInv, TypeOK, CallInv, RetransmittedOkIsOfTheCall, Dialogs
    <3>2. /\ dialog'.callId = c /\ dialog'.inCallId = dialog.inCallId
          /\ dialog'.remoteTag = m.cid
      BY <2>3, <3>1 DEF Learnt, Dialogs
    <3>3. dialog'.awaitingAck = dialog.awaitingAck
      BY <2>3, <3>1, Zenon DEF Learnt, Dialogs
    <3> QED BY <3>1, <3>2, <3>3
  <2>5. \A x \in net' : \/ x \in net
                        \/ x = ToPbx(0, "INVITE", c)
                        \/ x = ToPbx(0, "ACK", c)
    <3>1. \A s \in out' : s = Request("INVITE") \/ s = [Request("ACK") EXCEPT !.tag = m.cid]
      BY <2>1 DEF PlaceAnswered, Sends, Invites
    <3> QED BY <3>1, ReadNet, Wires
  <2>6. Sound(ToPbx(0, "INVITE", c)) /\ Sound(ToPbx(0, "ACK", c))
    BY <1>2, <2>2, <2>3, <2>4 DEF Sound, Refusals, Datagrams, ToPbx, Datagram, Mine
  <2>7. SendsSound
    BY <2>5, <2>6 DEF SendsSound
  <2>8. MeetsKnown
    BY <1>2, <2>2, <2>4 DEF MeetsKnown, DialogInv, MetKnown
  <2>9. Connects
    <3>1. CASE m.cid # c
      <4>1. c \in cutOff'
        BY <1>1, <1>4, <3>1, ReadNet DEF Crosses
      <4> QED BY <2>2, <2>4, <3>1, <4>1 DEF Connects
    <3>2. CASE m.cid = c
      <4>1. m # ToPhone(200, "BYE", c)
        BY <1>1 DEF DialogInv, DiallingIsFresh
      <4>2. m.method = "INVITE"
        BY <1>4, <3>2, <4>1, ReadNet, PhoneHears
      <4>3. ToPhone(200, "INVITE", c) \in net
        BY <1>4, <3>2, <4>2, ReadNet
      <4> QED BY <2>2, <2>4, <3>2, <4>3 DEF Connects
    <3> QED BY <3>1, <3>2
  <2>10. LeavesTold /\ Dials /\ Rings
    BY <1>1, <2>3 DEF LeavesTold, Dials, Rings, Mine
  <2> QED BY <2>7, <2>8, <2>9, <2>10, ReadNet DEF PhoneEffect
<1> QED BY <1>3, <1>4

\* poll() reads an INVITE: refused when busy, else the phone rings.
LEMMA InviteEffect ==
  ASSUME DialogInv, NEW m \in net, PhoneReads(m), m.code = 0, m.method = "INVITE",
         RecvInvite(m.cid, FarRtp, FALSE)
  PROVE  PhoneEffect
<1> DEFINE c == m.cid
<1>1. Offered(m)
  BY DEF RecvInvite, Received, Offered
<1>2. /\ m = Asks("INVITE", c) /\ c \in RemoteId /\ c \in CallId /\ met' = met \cup {c}
      /\ c \in met => c \in repeated'
  BY <1>1, ReadNet DEF CallId
<1>3. \A d \in met' : d \in met \/ d \in LocalId \/ Asks("INVITE", d) \in net
  BY <1>2
<1>4. CASE Busy
  <2>1. out' = {Response(486, "INVITE", c)} /\ UNCHANGED <<state, dialog>>
    BY <1>4 DEF RecvInvite, Sends, Unaffected
  <2>2. \A x \in net' : x \in net \/ x = ToPbx(486, "INVITE", c)
    BY <2>1, ReadNet, Wires
  <2>3. \/ state = "Ringing" /\ c = dialog.inCallId
        \/ state = "InCall" /\ c = dialog.callId
        => c \in repeated'
    BY <1>2, CallIds
  <2>4. Sound(ToPbx(486, "INVITE", c))
    BY <1>2, <2>1, <2>3 DEF Sound, Refusals, Datagrams, ToPbx, Datagram, Codes
  <2>5. SendsSound
    BY <2>2, <2>4 DEF SendsSound
  <2> QED BY <1>3, <2>1, <2>5, ReadNet, SameCall
<1>5. CASE ~Busy
  <2>1. /\ out' = {Response(180, "INVITE", c)} /\ state = "Idle" /\ state' = "Ringing"
        /\ dialog' = Learnt([NoDialog EXCEPT !.inCallId = c, !.peerExt = Caller(c, FALSE)], FarRtp)
    BY <1>5 DEF RecvInvite, Sends, Busy
  <2>2. dialog'.callId = None /\ dialog'.inCallId = c
    BY <2>1 DEF Learnt, NoDialog
  <2>3. \A x \in net' : x \in net \/ x = ToPbx(180, "INVITE", c)
    BY <2>1, ReadNet, Wires
  <2>4. Sound(ToPbx(180, "INVITE", c))
    BY <1>2, <2>1 DEF Sound, Refusals, Datagrams, ToPbx, Datagram, Codes
  <2>5. SendsSound
    BY <2>3, <2>4 DEF SendsSound
  <2>6. MeetsKnown
    BY <1>2, <1>3, <2>2 DEF MeetsKnown
  <2>7. LeavesTold /\ Dials /\ Connects
    BY <2>1 DEF LeavesTold, Dials, Connects, Mine
  <2>8. Rings
    BY <1>2, <2>2 DEF Rings
  <2> QED BY <2>5, <2>6, <2>7, <2>8, ReadNet DEF PhoneEffect
<1> QED BY <1>4, <1>5

\* A BYE or CANCEL the phone reads is of a call it has met; a call that rings
\* from its only INVITE gets no BYE.
LEMMA ReadIsMet ==
  ASSUME DialogInv, NEW m \in net, PhoneReads(m), m.code = 0, m.method \in {"BYE", "CANCEL"}
  PROVE  /\ m.cid \in met /\ met' = met
         /\ m.method = "BYE" /\ state = "Ringing" /\ m.cid = dialog.inCallId => m.cid \in repeated
<1>1. m.cid \in CallId /\ met' = met
  BY ReadNet, Whole DEF Offered
<1>2. m # Asks("INVITE", m.cid)
  BY Fields DEF Asks, ToPhone
<1>3. m.cid \in met
  BY <1>1, <1>2 DEF DialogInv, Unmet
<1>4. m.method = "BYE" => m \notin Pending180(m.cid)
  BY Fields DEF Pending180, Asks, ToPhone, ToPbx
<1> QED BY <1>1, <1>3, <1>4 DEF DialogInv, RingingIsFresh

\* poll() reads a BYE.
LEMMA ByeReadEffect ==
  ASSUME DialogInv, NEW m \in net, PhoneReads(m), m.code = 0, m.method = "BYE", RecvBye(m.cid)
  PROVE  PhoneEffect
<1> DEFINE c == m.cid
           w == ToPbx(200, "BYE", c)
<1>1. c \in met /\ met' = met /\ c \in CallId
  BY ReadIsMet, ReadNet, Whole
<1>2. out' = {Response(200, "BYE", c)} /\ at = "recv"
  BY DEF RecvBye, Sends, Received
<1>3. \A x \in net' : x \in net \/ x = w
  BY <1>2, ReadNet, Wires
<1>4. CASE state = "InCall"
  <2>1. ResetDialog /\ state' = "Idle"
    BY <1>4 DEF RecvBye, TearDown
  <2>2. Sound(w)
    BY <1>1, <2>1 DEF Sound, Refusals, Datagrams, ToPbx, Datagram
  <2>3. SendsSound
    BY <1>3, <2>2 DEF SendsSound
  <2>4. dialog.callId # c => dialog.callId \in cutOff'
    BY <1>2, <1>4, ReadNet DEF Crosses
  <2>5. Asks("BYE", c) \in net
    BY ReadNet DEF Asks
  <2>6. LeavesTold
    BY <2>4, <2>5 DEF LeavesTold, Told, Mine
  <2> QED BY <1>1, <2>1, <2>3, <2>6, ReadNet, ResetIds, ToIdle
<1>5. CASE state # "InCall"
  <2>1. UNCHANGED <<state, dialog>>
    BY <1>5 DEF RecvBye, Unaffected
  <2>2. state = "Ringing" /\ c = dialog.inCallId => c \in repeated'
    BY ReadIsMet, ReadNet DEF Keeps
  <2>3. Sound(w)
    BY <1>1, <2>1, <2>2 DEF Sound, Refusals, Datagrams, ToPbx, Datagram
  <2>4. SendsSound
    BY <1>3, <2>3 DEF SendsSound
  <2> QED BY <1>1, <2>1, <2>4, ReadNet, SameCall
<1> QED BY <1>4, <1>5

\* poll() reads a CANCEL.
LEMMA CancelEffect ==
  ASSUME DialogInv, NEW m \in net, PhoneReads(m), m.code = 0, m.method = "CANCEL",
         RecvCancel(m.cid)
  PROVE  PhoneEffect
<1> DEFINE c == m.cid
<1>1. c \in met /\ met' = met /\ c \in RemoteId
  BY ReadIsMet, ReadNet, PhoneHears
<1>2. CASE state = "Ringing" /\ c = dialog.inCallId
  <2>1. /\ out' = {Response(200, "CANCEL", c), Response(487, "INVITE", c)}
        /\ ResetDialog /\ state' = "Idle"
    BY <1>2 DEF RecvCancel, TearDown, Sends
  <2>2. \A x \in net' : x \in net \/ x = ToPbx(200, "CANCEL", c) \/ x = ToPbx(487, "INVITE", c)
    BY <2>1, ReadNet, Wires
  <2>3. Sound(ToPbx(200, "CANCEL", c)) /\ Sound(ToPbx(487, "INVITE", c))
    BY <1>1, <2>1 DEF Sound, Refusals, Datagrams, ToPbx, Datagram, Codes
  <2>4. SendsSound
    BY <2>2, <2>3 DEF SendsSound
  <2>5. LeavesTold
    BY <1>2 DEF LeavesTold, Mine
  <2> QED BY <1>1, <2>1, <2>4, <2>5, ReadNet, ResetIds, ToIdle
<1>3. CASE ~(state = "Ringing" /\ c = dialog.inCallId)
  <2>1. out' = {Response(200, "CANCEL", c)} /\ UNCHANGED <<state, dialog>>
    BY <1>3 DEF RecvCancel, Unaffected, Sends
  <2>2. \A x \in net' : x \in net \/ x = ToPbx(200, "CANCEL", c)
    BY <2>1, ReadNet, Wires
  <2>3. Sound(ToPbx(200, "CANCEL", c))
    BY <1>1, <1>3, <2>1 DEF Sound, Refusals, Datagrams, ToPbx, Datagram
  <2>4. SendsSound
    BY <2>2, <2>3 DEF SendsSound
  <2> QED BY <1>1, <2>1, <2>4, ReadNet, SameCall
<1> QED BY <1>2, <1>3

\* poll() reads an ACK.
LEMMA AckEffect ==
  ASSUME DialogInv, NEW m \in net, PhoneReads(m), m.code = 0, m.method = "ACK",
         RecvAck(m.cid, None)
  PROVE  PhoneEffect
<1> DEFINE c == m.cid
           acked == [dialog EXCEPT !.awaitingAck = FALSE, !.pendingOk = None]
<1>1. met' = met /\ m = Asks("ACK", c) /\ m \in net
  BY ReadNet DEF Offered, Asks
<1>2. out' = {} /\ state' = state
  BY DEF RecvAck, Sends
<1>3. SendsSound
  BY <1>2, ReadNet DEF SendsSound
<1>4. CASE ~(dialog.awaitingAck /\ c = dialog.callId)
  <2>1. dialog' = dialog
    BY <1>4 DEF RecvAck
  <2> QED BY <1>1, <1>2, <1>3, <2>1, ReadNet, SameCall
<1>5. CASE dialog.awaitingAck /\ c = dialog.callId
  <2>1. dialog' = acked
    BY <1>5 DEF RecvAck, Learnt
  <2>2. /\ dialog'.callId = dialog.callId /\ dialog'.inCallId = dialog.inCallId
        /\ dialog'.remoteTag = dialog.remoteTag
    BY <2>1 DEF DialogInv, IInv, TypeOK, Dialogs
  <2>3. MeetsKnown
    BY <1>1, <2>2 DEF MeetsKnown, DialogInv, MetKnown
  <2>4. LeavesTold /\ Dials /\ Rings
    BY <1>2, <2>2 DEF LeavesTold, Dials, Rings, Mine, Told
  <2>5. Connects
    BY <1>1, <1>2, <1>5, <2>2 DEF Connects, Mine
  <2> QED BY <1>3, <2>3, <2>4, <2>5, ReadNet DEF PhoneEffect
<1> QED BY <1>4, <1>5

\* Any datagram the phone reads.
LEMMA ReadEffect == ASSUME DialogInv, NEW m \in net, PhoneReads(m) PROVE PhoneEffect
<1>1. Placed(m) \/ Polled(m)
  BY DEF PhoneReads
<1>2. CASE Polled(m)
  <2>1. CASE m.code # 0
    <3>1. RecvNothing /\ met' = met
      BY <1>2, <2>1, ReadNet DEF Polled, Offered
    <3>2. SendsSound
      BY <3>1, ReadNet DEF SendsSound, RecvNothing, Sends
    <3> QED BY <3>1, <3>2, ReadNet, SameCall DEF RecvNothing, Unaffected
  <2>2. CASE m.code = 0 /\ m.method = "INVITE"
    BY <1>2, <2>2, InviteEffect DEF Polled
  <2>3. CASE m.code = 0 /\ m.method = "BYE"
    BY <1>2, <2>3, ByeReadEffect DEF Polled
  <2>4. CASE m.code = 0 /\ m.method = "CANCEL"
    BY <1>2, <2>4, CancelEffect DEF Polled
  <2>5. CASE m.code = 0 /\ m.method = "ACK"
    BY <1>2, <2>5, AckEffect DEF Polled
  <2> QED BY <2>1, <2>2, <2>3, <2>4, <2>5, ReadNet, PhoneHears
<1> QED BY <1>1, <1>2, PlacedEffect

\* Every step of the phone keeps the invariant.
LEMMA PhoneStep == ASSUME DialogInv, Phone PROVE DialogInv'
<1>1. IInv'
  BY UacSteps, StepInv DEF DialogInv, NetTypes, DialogNext
<1>2. PhoneEffect
  BY PlacesEffect, UserEffect, PollsEffect, WaitsEffect, ReadEffect DEF Phone
<1> QED BY <1>1, <1>2, PhoneKeepsNet, PhoneKeepsCall DEF DialogInv

-----------------------------------------------------------------------------
(* What a step of the PBX does                                              *)

\* The leg of c moves on, `sent` may be under way, `heard` may no longer be.
Moves(c, to, sent, heard) ==
  /\ PbxStep
  /\ c \in CallId /\ leg' = [leg EXCEPT ![c] = to]
  /\ net \ heard \subseteq net' /\ net' \subseteq net \cup sent

MovesTyped(c, to, sent, heard) ==
  /\ c \in LocalId => to \in LocalLegs
  /\ c \in RemoteId => to \in RemoteLegs
  /\ \A m \in sent : m \in Datagrams /\ m.to = "phone" /\ m.cid = c
  /\ \A m \in heard : m.to = "pbx" /\ m.cid = c

\* Before the phone has met a call, the PBX offers it and no more.
OffersFirst(c, to, sent) ==
  /\ c \in met \/ (to \in {"none", "inviting"} /\ sent \subseteq {Asks("INVITE", c)})
  /\ c \in RemoteId /\ to = "none" => leg[c] = "none" /\ sent = {}

\* A leg that has agreed, or is over, remains so, and it alone says so.
KeepsWord(c, to, sent) ==
  /\ Agreed(c) \/ ToPhone(200, "INVITE", c) \in sent => to \in Accepted
  /\ leg[c] = "off" => to = "off"
  /\ Asks("ACK", c) \in sent =>
       to \in Accepted \/ (to = "off" /\ Refusals(c) \cap net # {})
  /\ leg[c] \in Over \/ Asks("BYE", c) \in sent => to \in Over

\* A 200 to a BYE answers one; a leg is up because the phone said so; a BYE heard
\* ends the leg.
AnswersPhone(c, to, sent, heard) ==
  /\ ToPhone(200, "BYE", c) \in sent => ToPbx(0, "BYE", c) \in net
  /\ to = "up" => Connecting(c)
  /\ ToPbx(0, "BYE", c) \in heard => to \in Over \/ c \in cutOff

\* While the phone has only sent 180, the leg waits for it.
WaitsForPhone(c, to, sent) ==
  state = "Ringing" /\ c = dialog.inCallId /\ c \notin repeated =>
    to \in Waiting /\ sent \subseteq Pending180(c)

PbxEffect(c, to, sent, heard) ==
  /\ Moves(c, to, sent, heard) /\ MovesTyped(c, to, sent, heard) /\ OffersFirst(c, to, sent)
  /\ KeepsWord(c, to, sent) /\ AnswersPhone(c, to, sent, heard) /\ WaitsForPhone(c, to, sent)

\* Such a step keeps the invariant.
LEMMA PbxKeeps ==
  ASSUME DialogInv, NEW c, NEW to, NEW sent, NEW heard, PbxEffect(c, to, sent, heard)
  PROVE  DialogInv'
<1>1. /\ PbxStep /\ c \in CallId
      /\ net \ heard \subseteq net' /\ net' \subseteq net \cup sent
      /\ \A m \in sent : m \in Datagrams /\ m.to = "phone" /\ m.cid = c
      /\ \A m \in heard : m.to = "pbx" /\ m.cid = c
  BY DEF PbxEffect, Moves, MovesTyped
<1>2. leg'[c] = to /\ \A d \in CallId \ {c} : leg'[d] = leg[d]
  BY DEF PbxEffect, Moves, DialogInv, NetTypes
<1>3. UNCHANGED <<vars, met, repeated, cutOff>>
  BY <1>1 DEF PbxStep, history
<1>4. UNCHANGED <<state, dialog>>
  BY <1>3 DEF vars
<1>5. IInv'
  BY <1>3, StepInv DEF DialogInv
<1>6. NetTypes'
  <2>1. leg' \in [CallId -> LocalLegs \cup RemoteLegs]
    BY DEF PbxEffect, Moves, MovesTyped, DialogInv, NetTypes, CallId
  <2>2. (\A d \in LocalId : leg'[d] \in LocalLegs) /\ (\A d \in RemoteId : leg'[d] \in RemoteLegs)
    BY <1>2 DEF PbxEffect, MovesTyped, DialogInv, NetTypes, CallId
  <2>3. net' \subseteq Datagrams
    BY <1>1 DEF DialogInv, NetTypes
  <2> QED BY <2>1, <2>2, <2>3 DEF NetTypes
<1>7. Unmet'
  <2> SUFFICES ASSUME NEW d \in CallId, d \notin met
               PROVE  /\ leg'[d] \in {"none", "inviting"}
                      /\ \A m \in net' : m.cid = d => m = Asks("INVITE", d)
    BY <1>3 DEF Unmet
  <2> QED BY <1>1, <1>2 DEF PbxEffect, OffersFirst, DialogInv, Unmet
<1>8. MetKnown'
  <2>1. ASSUME NEW d \in RemoteId, leg'[d] = "none"
        PROVE  d \notin met /\ \A m \in net' : m.cid # d
    BY <1>1, <1>2, <2>1 DEF PbxEffect, OffersFirst, DialogInv, MetKnown, CallId
  <2> QED BY <1>3, <1>4, <2>1 DEF DialogInv, MetKnown
<1>9. PbxWord'
  <2> SUFFICES ASSUME NEW d \in CallId
               PROVE  /\ ToPhone(200, "INVITE", d) \in net' => leg'[d] \in Accepted
                      /\ Asks("ACK", d) \in net' => leg'[d] \in Accepted \cup {"off"}
                      /\ Asks("BYE", d) \in net' => leg'[d] \in Over
    BY DEF PbxWord, Agreed, Accepted
  <2>1. ToPhone(200, "INVITE", d).cid = d /\ Asks("ACK", d).cid = d /\ Asks("BYE", d).cid = d
    BY Fields DEF ToPhone, Asks
  <2> QED BY <1>1, <1>2, <2>1 DEF PbxEffect, KeepsWord, DialogInv, PbxWord, Agreed, Accepted
<1>10. DiallingIsFresh'
  <2> SUFFICES ASSUME state = "Calling"
               PROVE  /\ ToPbx(0, "BYE", dialog.callId) \notin net'
                      /\ ToPhone(200, "BYE", dialog.callId) \notin net'
    BY <1>4 DEF DiallingIsFresh
  <2>1. ToPbx(0, "BYE", dialog.callId).to = "pbx" /\ ToPhone(200, "BYE", dialog.callId).cid = dialog.callId
    BY Fields DEF ToPbx, ToPhone
  <2> QED BY <1>1, <2>1 DEF PbxEffect, AnswersPhone, DialogInv, DiallingIsFresh
<1>11. RingingIsFresh'
  <2> DEFINE r == dialog.inCallId
  <2> SUFFICES ASSUME state = "Ringing", r \notin repeated
               PROVE  leg'[r] \in Waiting /\ \A m \in net' : m.cid = r => m \in Pending180(m.cid)
    BY <1>3, <1>4 DEF RingingIsFresh
  <2>1. r \in CallId
    BY CallIds DEF CallId
  <2> QED BY <1>1, <1>2, <2>1 DEF PbxEffect, WaitsForPhone, DialogInv, RingingIsFresh
<1>12. CallIsAgreed'
  <2> SUFFICES ASSUME state = "InCall", dialog.remoteTag = dialog.callId, ~dialog.awaitingAck
               PROVE  \/ leg'[dialog.callId] \in Accepted
                      \/ leg'[dialog.callId] = "off" /\ dialog.callId \in repeated
    BY <1>3, <1>4 DEF CallIsAgreed, DialogInv, Settled, Agreed, Accepted
  <2>1. dialog.callId \in CallId
    BY CallIds
  <2> QED BY <1>2, <2>1 DEF PbxEffect, KeepsWord, DialogInv, CallIsAgreed, Settled, Agreed, Accepted
<1>13. ASSUME NEW d \in CallId
       PROVE  /\ Mine(d)' = Mine(d)
              /\ ToPbx(0, "ACK", d) \in net' => ToPbx(0, "ACK", d) \in net
              /\ ToPbx(0, "BYE", d) \in net' => ToPbx(0, "BYE", d) \in net
              /\ ToPbx(200, "INVITE", d) \in net' => ToPbx(200, "INVITE", d) \in net
  BY <1>1, <1>4, Fields DEF Mine, ToPbx
<1>14. Acked'
  <2> SUFFICES ASSUME NEW d \in LocalId,
                      Mine(d) \/ ToPbx(0, "ACK", d) \in net \/ ToPbx(0, "BYE", d) \in net
               PROVE  leg'[d] \in Accepted \/ d \in cutOff
    BY <1>3, <1>13 DEF Acked, Agreed, Accepted, CallId
  <2>1. Agreed(d) \/ d \in cutOff
    BY DEF DialogInv, Acked
  <2> QED BY <1>2, <2>1 DEF PbxEffect, KeepsWord, CallId, Agreed, Accepted
<1>15. ConnectedIsTold'
  <2> SUFFICES ASSUME NEW d \in CallId, Connecting(d)'
               PROVE  Told(d)' \/ leg'[d] \in Over
    BY DEF ConnectedIsTold
  <2>1. Connecting(d)
    BY <1>2, <1>13 DEF Connecting, PbxEffect, AnswersPhone
  <2>2. Told(d) \/ leg[d] \in Over
    BY <2>1 DEF DialogInv, ConnectedIsTold
  <2>3. leg[d] \in Over => leg'[d] \in Over
    BY <1>2 DEF PbxEffect, KeepsWord
  <2>4. CASE ToPbx(0, "BYE", d) \in heard
    <3>1. d = c
      BY <1>1, <2>4, Fields DEF ToPbx
    <3> QED BY <1>2, <1>3, <2>4, <3>1 DEF PbxEffect, AnswersPhone, Told
  <2>5. CASE ToPbx(0, "BYE", d) \notin heard
    BY <1>1, <1>3, <1>13, <2>2, <2>3, <2>5 DEF Told
  <2> QED BY <2>4, <2>5
<1>16. AnsweredIsFresh'
  <2> DEFINE d == dialog.callId
  <2> SUFFICES ASSUME state = "InCall", dialog.awaitingAck, d \notin repeated
               PROVE  /\ Refusals(d) \cap net' = {}
                      /\ Asks("ACK", d) \in net' => leg'[d] \in Accepted
    BY <1>3, <1>4 DEF AnsweredIsFresh, Refusals, Agreed, Accepted
  <2>1. d \in CallId
    BY CallIds
  <2>2. Refusals(d) \cap net = {} /\ (Asks("ACK", d) \in net => Agreed(d))
    BY DEF DialogInv, AnsweredIsFresh
  <2>3. (\A m \in Refusals(d) : m.to = "pbx") /\ Asks("ACK", d).cid = d
    BY DEF Refusals, ToPbx, Asks, ToPhone, Datagram
  <2>4. Agreed(d) => leg'[d] \in Accepted
    BY <1>2, <2>1 DEF PbxEffect, KeepsWord, Agreed, Accepted
  <2>5. Asks("ACK", d) \in sent => leg'[d] \in Accepted
    BY <1>1, <1>2, <2>2, <2>3 DEF PbxEffect, KeepsWord
  <2> QED BY <1>1, <2>2, <2>3, <2>4, <2>5
<1> QED
  BY <1>5, <1>6, <1>7, <1>8, <1>9, <1>10, <1>11, <1>12, <1>14, <1>15, <1>16 DEF DialogInv

-----------------------------------------------------------------------------
(* Each step of the PBX is such a step                                      *)

\* What any datagram tells of its call: it is met unless the datagram is the
\* INVITE that offers it.
LEMMA CallsHeard ==
  ASSUME DialogInv, NEW m \in net, m.to = "pbx"
  PROVE  /\ m \in Datagrams /\ m.cid \in CallId /\ m.cid \in met
         /\ m = ToPbx(m.code, m.method, m.cid)
         /\ m.cid \in RemoteId => leg[m.cid] # "none"
         /\ state = "Ringing" /\ m.cid = dialog.inCallId /\ m.cid \notin repeated =>
              m.code = 180 /\ leg[m.cid] \in Waiting
<1>1. m \in Datagrams /\ m.cid \in CallId /\ m = ToPbx(m.code, m.method, m.cid)
  BY Whole DEF DialogInv, NetTypes
<1>2. m # Asks("INVITE", m.cid)
  BY Fields DEF Asks, ToPhone
<1>3. m.cid \in met
  BY <1>1, <1>2 DEF DialogInv, Unmet
<1>4. m.cid \in RemoteId => leg[m.cid] # "none"
  BY DEF DialogInv, MetKnown
<1>5. m \in Pending180(m.cid) => m.code = 180
  BY Fields DEF Pending180, Asks, ToPhone, ToPbx
<1> QED BY <1>1, <1>3, <1>4, <1>5 DEF DialogInv, RingingIsFresh

\* The leg of a call that rings from its only INVITE.
LEMMA LegOfRinging ==
  ASSUME DialogInv, state = "Ringing", dialog.inCallId \notin repeated
  PROVE  leg[dialog.inCallId] \in Waiting
BY DEF DialogInv, RingingIsFresh

\* A leg that has left its first states is of a call the phone has met.
LEMMA LegMet ==
  ASSUME DialogInv, NEW c \in CallId, leg[c] \notin {"none", "inviting"}
  PROVE  c \in met
BY DEF DialogInv, Unmet

\* What Acts and Hears do to the network.
LEMMA ActsMoves ==
  ASSUME DialogInv, NEW c \in CallId, NEW from, NEW to, NEW sent, Acts(c, from, to, sent)
  PROVE  leg[c] \in from /\ Moves(c, to, sent, {})
<1>1. PICK through \in SUBSET sent : net' = net \cup through
  BY DEF Acts, Transmit
<1> QED BY <1>1 DEF Acts, Becomes, Moves

LEMMA HearsMoves ==
  ASSUME DialogInv, NEW m \in net, m.to = "pbx", NEW to, NEW replies, Hears(m, to, replies)
  PROVE  Moves(m.cid, to, replies, {m})
<1>1. PICK through \in SUBSET replies : net' = (net \ {m}) \cup through
  BY DEF Hears, Transmit
<1> QED BY <1>1, CallsHeard DEF Hears, Becomes, Moves

\* The PBX acts of its own.
LEMMA ActsStep ==
  ASSUME DialogInv, NEW c \in CallId,
         \/ FarAnswers(c) \/ FarRejects(c) \/ AckTimeout(c) \/ Offers(c) \/ CallerGivesUp(c)
         \/ CancelTimeout(c) \/ FarHangsUp(c)
  PROVE  DialogInv'
<1> USE Fields DEF MovesTyped, OffersFirst, KeepsWord, AnswersPhone, WaitsForPhone
<1>1. /\ c \in LocalId => leg[c] \in LocalLegs
      /\ c \in RemoteId => leg[c] \in RemoteLegs
      /\ c \in LocalId => c \notin RemoteId
      /\ state = "Ringing" => dialog.inCallId \in RemoteId
  BY IdAssumption, CallIds DEF DialogInv, NetTypes
<1>2. CASE FarAnswers(c)
  <2>1. leg[c] = "ringing" /\ Moves(c, "answered", {ToPhone(200, "INVITE", c)}, {}) /\ c \in LocalId
    BY <1>2, ActsMoves DEF FarAnswers
  <2>2. PbxEffect(c, "answered", {ToPhone(200, "INVITE", c)}, {})
    BY <1>1, <2>1, LegMet DEF PbxEffect, LocalLegs, Accepted, Over, Agreed, Datagrams,
       ToPhone, Datagram, Asks
  <2> QED BY <2>2, PbxKeeps
<1>3. CASE FarRejects(c)
  <2>1. leg[c] = "ringing" /\ Moves(c, "off", {ToPhone(486, "INVITE", c)}, {}) /\ c \in LocalId
    BY <1>3, ActsMoves DEF FarRejects
  <2>2. PbxEffect(c, "off", {ToPhone(486, "INVITE", c)}, {})
    BY <1>1, <2>1, LegMet DEF PbxEffect, LocalLegs, Accepted, Over, Agreed, Datagrams,
       ToPhone, Datagram, Asks
  <2> QED BY <2>2, PbxKeeps
<1>4. CASE AckTimeout(c)
  <2>1. leg[c] = "answered" /\ Moves(c, "bye", {Asks("BYE", c)}, {})
    BY <1>4, ActsMoves DEF AckTimeout
  <2>2. PbxEffect(c, "bye", {Asks("BYE", c)}, {})
    BY <1>1, <2>1, LegMet, LegOfRinging DEF PbxEffect, LocalLegs, RemoteLegs, Accepted, Over,
       Agreed, Waiting, Datagrams, ToPhone, Datagram, Asks
  <2> QED BY <2>2, PbxKeeps
<1>5. CASE Offers(c)
  <2>1. leg[c] = "none" /\ Moves(c, "inviting", {Asks("INVITE", c)}, {}) /\ c \in RemoteId
    BY <1>5, ActsMoves DEF Offers
  <2>2. PbxEffect(c, "inviting", {Asks("INVITE", c)}, {})
    BY <1>1, <2>1 DEF PbxEffect, RemoteLegs, Accepted, Over, Agreed, Waiting, Pending180,
       Datagrams, ToPhone, Datagram, Asks
  <2> QED BY <2>2, PbxKeeps
<1>6. CASE CallerGivesUp(c)
  <2>1. leg[c] = "ringing" /\ Moves(c, "cancelling", {Asks("CANCEL", c)}, {}) /\ c \in RemoteId
    BY <1>6, ActsMoves DEF CallerGivesUp
  <2>2. PbxEffect(c, "cancelling", {Asks("CANCEL", c)}, {})
    BY <1>1, <2>1, LegMet DEF PbxEffect, RemoteLegs, Accepted, Over, Agreed, Waiting, Pending180,
       Datagrams, ToPhone, Datagram, Asks
  <2> QED BY <2>2, PbxKeeps
<1>7. CASE CancelTimeout(c)
  <2>1. leg[c] = "cancelled" /\ Moves(c, "off", {}, {})
    BY <1>7, ActsMoves DEF CancelTimeout
  <2>2. PbxEffect(c, "off", {}, {})
    BY <1>1, <2>1, LegMet, LegOfRinging DEF PbxEffect, LocalLegs, RemoteLegs, Accepted, Over,
       Agreed, Waiting
  <2> QED BY <2>2, PbxKeeps
<1>8. CASE FarHangsUp(c)
  <2>1. leg[c] = "up" /\ Moves(c, "bye", {Asks("BYE", c)}, {})
    BY <1>8, ActsMoves DEF FarHangsUp
  <2>2. PbxEffect(c, "bye", {Asks("BYE", c)}, {})
    BY <1>1, <2>1, LegMet, LegOfRinging DEF PbxEffect, LocalLegs, RemoteLegs, Accepted, Over,
       Agreed, Waiting, Datagrams, ToPhone, Datagram, Asks
  <2> QED BY <2>2, PbxKeeps
<1> QED BY <1>2, <1>3, <1>4, <1>5, <1>6, <1>7, <1>8

\* The PBX sends again.
LEMMA ResendStep == ASSUME DialogInv, NEW c \in CallId, Resends(c) PROVE DialogInv'
<1> DEFINE sent == Pending(c)
<1>1. /\ c \in LocalId => leg[c] \in LocalLegs
      /\ c \in RemoteId => leg[c] \in RemoteLegs
      /\ c \in LocalId \cup RemoteId
      /\ c \in LocalId => c \notin RemoteId
      /\ state = "Ringing" => dialog.inCallId \in RemoteId
  BY IdAssumption, CallIds DEF DialogInv, NetTypes, CallId
<1>2. Moves(c, leg[c], sent, {})
  BY DEF Resends, Moves, DialogInv, NetTypes
<1>3. \/ leg[c] = "inviting" /\ c \in RemoteId /\ sent = {Asks("INVITE", c)}
      \/ leg[c] = "cancelling" /\ c \in RemoteId /\ sent = {Asks("CANCEL", c)}
      \/ leg[c] = "answered" /\ c \in LocalId /\ sent = {ToPhone(200, "INVITE", c)}
      \/ leg[c] = "bye" /\ sent = {Asks("BYE", c)}
      \/ leg[c] \notin {"inviting", "cancelling", "answered", "bye"} /\ sent = {}
  BY <1>1 DEF Pending, LocalLegs, RemoteLegs
<1>4. MovesTyped(c, leg[c], sent, {})
  BY <1>1, <1>3, Fields DEF MovesTyped, Datagrams, ToPhone, Datagram, Asks, CallId
<1>5. OffersFirst(c, leg[c], sent)
  BY <1>1, <1>3, LegMet DEF OffersFirst
<1>6. KeepsWord(c, leg[c], sent)
  BY <1>3, Fields DEF KeepsWord, Agreed, Accepted, Over, ToPhone, Asks, Datagram
<1>7. AnswersPhone(c, leg[c], sent, {})
  BY <1>3, Fields DEF AnswersPhone, Connecting, ToPhone, Asks, Datagram
<1>8. WaitsForPhone(c, leg[c], sent)
  BY <1>3, LegOfRinging DEF WaitsForPhone, Waiting, Pending180
<1> QED BY <1>2, <1>4, <1>5, <1>6, <1>7, <1>8, PbxKeeps DEF PbxEffect

\* The PBX hears a request of the phone.
LEMMA RequestStep ==
  ASSUME DialogInv, NEW m \in net, m.to = "pbx", m.code = 0, HearsRequest(m)
  PROVE  DialogInv'
<1> DEFINE c == m.cid
<1>1. /\ c \in LocalId => leg[c] \in LocalLegs
      /\ c \in RemoteId => leg[c] \in RemoteLegs
      /\ c \in CallId /\ c \in met /\ m \in Datagrams
      /\ c \in LocalId => c \notin RemoteId
      /\ m = ToPbx(0, m.method, c)
      /\ c \in RemoteId => leg[c] # "none"
  BY IdAssumption, CallsHeard DEF DialogInv, NetTypes
<1>2. ~(state = "Ringing" /\ c = dialog.inCallId /\ c \notin repeated)
  BY CallsHeard
<1>3. m.method \in {"INVITE", "ACK"} => c \in LocalId
  BY <1>1, PbxHears, 0 \notin Codes DEF Codes
<1>4. CASE m.method = "INVITE"
  <2> DEFINE to == IF leg[c] = "none" THEN "ringing" ELSE leg[c]
  <2>1. Moves(c, to, {}, {m})
    BY <1>4, HearsMoves DEF HearsRequest
  <2>2. ToPbx(0, "BYE", c) # m
    BY <1>4, Fields DEF ToPbx
  <2>3. PbxEffect(c, to, {}, {m})
    BY <1>1, <1>2, <1>3, <1>4, <2>1, <2>2 DEF PbxEffect, MovesTyped, OffersFirst, KeepsWord,
       AnswersPhone, WaitsForPhone, LocalLegs, Agreed, Accepted, Over, Connecting
  <2> QED BY <2>3, PbxKeeps
<1>5. CASE m.method = "ACK"
  <2> DEFINE to == IF leg[c] = "answered" THEN "up" ELSE leg[c]
  <2>1. Moves(c, to, {}, {m})
    BY <1>5, HearsMoves DEF HearsRequest
  <2>2. ToPbx(0, "BYE", c) # m /\ m = ToPbx(0, "ACK", c)
    BY <1>1, <1>5, Fields DEF ToPbx
  <2>3. PbxEffect(c, to, {}, {m})
    BY <1>1, <1>2, <1>3, <1>5, <2>1, <2>2 DEF PbxEffect, MovesTyped, OffersFirst, KeepsWord,
       AnswersPhone, WaitsForPhone, LocalLegs, Agreed, Accepted, Over, Connecting
  <2> QED BY <2>3, PbxKeeps
<1>6. CASE m.method = "BYE"
  <2> DEFINE to == IF leg[c] = "none" THEN "none" ELSE IF Agreed(c) THEN "down" ELSE "off"
             sent == {ToPhone(200, "BYE", c)}
  <2>1. Moves(c, to, sent, {m})
    BY <1>6, HearsMoves DEF HearsRequest
  <2>2. m = ToPbx(0, "BYE", c)
    BY <1>1, <1>6
  <2>3. MovesTyped(c, to, sent, {m})
    BY <1>1, <1>6 DEF MovesTyped, Datagrams, ToPhone, Datagram, LocalLegs, RemoteLegs
  <2>4. OffersFirst(c, to, sent)
    BY <1>1 DEF OffersFirst
  <2>5. KeepsWord(c, to, sent)
    BY DEF KeepsWord, Agreed, Accepted, Over, ToPhone, Asks, Datagram
  <2>6. leg[c] = "none" => c \in LocalId /\ c \in cutOff
    <3>1. leg[c] = "none" => ~Agreed(c) /\ c \in LocalId
      BY <1>1 DEF Agreed, Accepted, Over, CallId
    <3> QED BY <2>2, <3>1 DEF DialogInv, Acked
  <2>7. AnswersPhone(c, to, sent, {m})
    BY <2>2, <2>6 DEF AnswersPhone, Over
  <2>8. WaitsForPhone(c, to, sent)
    BY <1>2 DEF WaitsForPhone
  <2> QED BY <2>1, <2>3, <2>4, <2>5, <2>7, <2>8, PbxKeeps DEF PbxEffect
<1> QED BY <1>4, <1>5, <1>6 DEF HearsRequest

\* The PBX hears an answer of the phone.
LEMMA ResponseStep ==
  ASSUME DialogInv, NEW m \in net, m.to = "pbx", m.code # 0, HearsResponse(m)
  PROVE  DialogInv'
<1> DEFINE c == m.cid
<1>1. /\ c \in LocalId => leg[c] \in LocalLegs
      /\ c \in RemoteId => leg[c] \in RemoteLegs
      /\ c \in CallId /\ c \in met /\ m \in Datagrams
      /\ c \in LocalId => c \notin RemoteId
      /\ m = ToPbx(m.code, m.method, c)
      /\ c \in RemoteId => leg[c] # "none"
  BY IdAssumption, CallsHeard DEF DialogInv, NetTypes
<1>2. state = "Ringing" /\ c = dialog.inCallId /\ c \notin repeated =>
        m.code = 180 /\ leg[c] \in Waiting
  BY CallsHeard
<1>3. ToPbx(0, "BYE", c) # m
  BY Fields DEF ToPbx
<1>4. c \in RemoteId \/ (m.code = 200 /\ m.method = "BYE")
  BY <1>1, PbxHears
<1>5. ASSUME NEW to \in LocalLegs \cup RemoteLegs, Moves(c, to, {}, {m}),
             \/ to = leg[c]
             \/ leg[c] = "inviting" /\ to = "ringing"
             \/ leg[c] = "cancelling" /\ to = "cancelled" /\ m.code # 180
             \/ leg[c] = "bye" /\ to = "down"
      PROVE  DialogInv'
  <2>1. MovesTyped(c, to, {}, {m})
    BY <1>1, <1>5 DEF MovesTyped, LocalLegs, RemoteLegs
  <2>2. OffersFirst(c, to, {}) /\ KeepsWord(c, to, {})
    BY <1>1, <1>5 DEF OffersFirst, KeepsWord, Agreed, Accepted, Over
  <2>3. AnswersPhone(c, to, {}, {m})
    BY <1>3, <1>5 DEF AnswersPhone, Connecting
  <2>4. WaitsForPhone(c, to, {})
    BY <1>2, <1>5 DEF WaitsForPhone, Waiting
  <2> QED BY <1>5, <2>1, <2>2, <2>3, <2>4, PbxKeeps DEF PbxEffect
<1>6. CASE m.code = 180
  <2> DEFINE to == IF leg[c] = "inviting" THEN "ringing" ELSE leg[c]
  <2>1. Moves(c, to, {}, {m})
    BY <1>6, HearsMoves DEF HearsResponse, HearsRefusal
  <2>2. to \in LocalLegs \cup RemoteLegs
    BY <1>1 DEF LocalLegs, RemoteLegs, CallId
  <2> QED BY <1>5, <2>1, <2>2
<1>7. CASE m.code = 200 /\ m.method = "CANCEL"
  <2> DEFINE to == IF leg[c] = "cancelling" THEN "cancelled" ELSE leg[c]
  <2>1. Moves(c, to, {}, {m})
    BY <1>7, HearsMoves DEF HearsResponse
  <2>2. to \in LocalLegs \cup RemoteLegs
    BY <1>1 DEF LocalLegs, RemoteLegs, CallId
  <2> QED BY <1>5, <1>7, <2>1, <2>2
<1>8. CASE m.code = 200 /\ m.method = "BYE"
  <2> DEFINE to == IF leg[c] = "bye" THEN "down" ELSE leg[c]
  <2>1. Moves(c, to, {}, {m})
    BY <1>8, HearsMoves DEF HearsResponse
  <2>2. to \in LocalLegs \cup RemoteLegs
    BY <1>1 DEF LocalLegs, RemoteLegs, CallId
  <2> QED BY <1>5, <2>1, <2>2
<1>9. ASSUME NEW to \in RemoteLegs, NEW sent, Moves(c, to, sent, {m}), c \in RemoteId,
             m.code # 180, sent \subseteq {Asks("ACK", c), Asks("BYE", c)},
             to \in Accepted \/ (to = "off" /\ m \in Refusals(c)),
             Agreed(c) => to \in Accepted, leg[c] = "off" => to = "off",
             leg[c] \in Over \/ Asks("BYE", c) \in sent => to \in Over,
             to = "up" => Connecting(c)
      PROVE  DialogInv'
  <2>1. MovesTyped(c, to, sent, {m})
    BY <1>1, <1>9 DEF MovesTyped, Datagrams, Asks, ToPhone, Datagram, CallId
  <2>2. to # "none"
    BY <1>9 DEF Accepted
  <2>3. OffersFirst(c, to, sent)
    BY <1>1, <1>9, <2>2 DEF OffersFirst
  <2>7. KeepsWord(c, to, sent)
    <3>1. ToPhone(200, "INVITE", c) \notin sent
      BY <1>9 DEF Asks, ToPhone, Datagram
    <3> QED BY <1>9, <3>1 DEF KeepsWord
  <2>4. ToPhone(200, "BYE", c) \notin sent
    BY <1>9 DEF Asks, ToPhone, Datagram
  <2>5. AnswersPhone(c, to, sent, {m})
    BY <1>3, <1>9, <2>4 DEF AnswersPhone
  <2>6. WaitsForPhone(c, to, sent)
    BY <1>2, <1>9 DEF WaitsForPhone
  <2> QED BY <1>9, <2>1, <2>3, <2>5, <2>6, <2>7, PbxKeeps DEF PbxEffect
<1>10. CASE m.code = 200 /\ m.method = "INVITE"
  <2>1. c \in RemoteId /\ HearsOk(m) /\ Connecting(c)
    BY <1>1, <1>4, <1>10 DEF HearsResponse, Connecting
  <2>2. Asks("ACK", c) # Asks("BYE", c)
    BY Fields DEF Asks, ToPhone
  <2>3. CASE leg[c] \in {"inviting", "ringing", "up"} /\ Hears(m, "up", {Asks("ACK", c)})
    <3>1. Moves(c, "up", {Asks("ACK", c)}, {m})
      BY <2>3, HearsMoves
    <3>2. "up" \in RemoteLegs /\ "up" \in Accepted
      BY DEF RemoteLegs, Accepted
    <3>3. m.code # 180 /\ leg[c] # "off" /\ leg[c] \notin Over /\ Asks("BYE", c) \notin {Asks("ACK", c)}
      BY <1>10, <2>2, <2>3 DEF Over
    <3> QED BY <1>9, <2>1, <3>1, <3>2, <3>3
  <2>4. CASE /\ leg[c] \in {"cancelling", "cancelled"}
             /\ Hears(m, "bye", {Asks("ACK", c), Asks("BYE", c)})
    <3>1. Moves(c, "bye", {Asks("ACK", c), Asks("BYE", c)}, {m})
      BY <2>4, HearsMoves
    <3>2. "bye" \in RemoteLegs /\ "bye" \in Accepted /\ "bye" \in Over
      BY DEF RemoteLegs, Accepted, Over
    <3>3. m.code # 180 /\ leg[c] # "off"
      BY <1>10, <2>4
    <3> QED BY <1>9, <2>1, <3>1, <3>2, <3>3
  <2>5. CASE leg[c] \in {"bye", "down", "off"} /\ Hears(m, leg[c], {})
    BY <1>5, <2>5, HearsMoves DEF RemoteLegs
  <2> QED BY <2>1, <2>3, <2>4, <2>5 DEF HearsOk
<1>11. CASE m.code \in {486, 487}
  <2> DEFINE to == IF leg[c] \in {"inviting", "ringing", "cancelling", "cancelled"}
                   THEN "off" ELSE leg[c]
  <2>1. Moves(c, to, {Asks("ACK", c)}, {m})
    BY <1>11, HearsMoves DEF HearsResponse, HearsRefusal
  <2>2. c \in RemoteId
    BY <1>4, <1>11
  <2>3. /\ to \in RemoteLegs /\ to \in Accepted \cup {"off"} /\ (leg[c] \in Over => to \in Over)
        /\ Agreed(c) => to \in Accepted
        /\ leg[c] = "off" => to = "off"
    BY <1>1, <2>2 DEF RemoteLegs, Agreed, Accepted, Over
  <2>6. m \in Refusals(c)
    <3>1. m.method = "INVITE"
      BY <1>1, <1>11, PbxHears
    <3> QED BY <1>1, <1>11, <3>1 DEF Refusals
  <2>4. to = "up" => Connecting(c)
    BY DEF Connecting
  <2>5. Asks("BYE", c) \notin {Asks("ACK", c)}
    BY Fields DEF Asks, ToPhone
  <2> QED BY <1>9, <1>11, <2>1, <2>2, <2>3, <2>4, <2>5, <2>6
<1> QED BY <1>6, <1>7, <1>8, <1>10, <1>11 DEF HearsResponse

\* Every step of the PBX keeps the invariant.
LEMMA PbxStepInv == ASSUME DialogInv, Pbx PROVE DialogInv'
<1>1. ASSUME NEW m \in net, PbxReads(m) PROVE DialogInv'
  BY <1>1, RequestStep, ResponseStep DEF PbxReads
<1> QED BY <1>1, ActsStep, ResendStep DEF Pbx

-----------------------------------------------------------------------------
(* The theorems                                                             *)

\* Nothing is under way at first.
LEMMA DialogInitInv == DialogInit => DialogInv
<1> SUFFICES ASSUME DialogInit PROVE DialogInv
  OBVIOUS
<1>1. IInv
  BY InitInv DEF DialogInit
<1>2. /\ state = "Idle" /\ dialog.callId = None /\ dialog.inCallId = None
      /\ leg = [c \in CallId |-> "none"] /\ net = {} /\ met = {}
  BY DEF DialogInit, Init, NoDialog
<1>3. NetTypes
  BY <1>2 DEF NetTypes, LocalLegs, RemoteLegs, CallId
<1> QED
  BY <1>1, <1>2, <1>3 DEF DialogInv, Unmet, MetKnown, PbxWord, DiallingIsFresh, RingingIsFresh,
     AnsweredIsFresh, CallIsAgreed, Acked, ConnectedIsTold, Connecting, Mine, CallId

\* A step that changes nothing.
LEMMA DialogStutter == ASSUME DialogInv, UNCHANGED all PROVE DialogInv'
<1>1. IInv'
  BY StepInv DEF DialogInv, all
<1> QED
  BY <1>1 DEF DialogInv, all, vars, peers, history, NetTypes, Unmet, MetKnown, PbxWord,
     DiallingIsFresh, RingingIsFresh, AnsweredIsFresh, CallIsAgreed, Settled, Acked,
     ConnectedIsTold, Connecting, Told, Mine, Agreed

\* The inductive invariant of phone, PBX and network.
THEOREM DialogInvariance == DialogSpec => []DialogInv
<1>1. DialogInv /\ [DialogNext]_all => DialogInv'
  BY PhoneStep, PbxStepInv, DialogStutter DEF DialogNext
<1> QED BY <1>1, DialogInitInv, PTL DEF DialogSpec

\* In front of the PBX the user agent takes steps of its own specification only:
\* what TincanUac_proofs shows of it holds over this network too.
THEOREM DialogKeepsUac == DialogSpec => Spec
<1>1. DialogInit => Init
  BY DEF DialogInit
<1>2. DialogInv /\ [DialogNext]_all => [Next]_vars
  BY UacSteps DEF DialogInv, NetTypes, all, vars
<1> QED BY <1>1, <1>2, DialogInvariance, PTL DEF DialogSpec, Spec

\* A call the phone takes for established is one the other end has agreed to, or
\* one of the two exceptions: the 200 of another call, the ACK of a refusal of an
\* INVITE that was handled twice.
THEOREM EstablishedAgreed == DialogSpec => []EstablishedIsAgreed
<1>1. DialogInv => EstablishedIsAgreed
  BY DEF DialogInv, CallIsAgreed, EstablishedIsAgreed, Settled
<1> QED BY <1>1, DialogInvariance, PTL

\* The phone does not ring for a caller it knows to be gone.
THEOREM GhostFree == DialogSpec => []NoGhostRing
<1>1. DialogInv => NoGhostRing
  BY DEF DialogInv, RingingIsFresh, NoGhostRing, Waiting
<1> QED BY <1>1, DialogInvariance, PTL

\* A far end that is alone in a call has the phone's BYE coming.
THEOREM FarEndTold == DialogSpec => []FarEndIsTold
<1>1. DialogInv => FarEndIsTold
  BY DEF DialogInv, ConnectedIsTold, FarEndIsTold, Connecting, Told, ToPbx, Over
<1> QED BY <1>1, DialogInvariance, PTL

=============================================================================
