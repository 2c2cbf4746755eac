------------------------------- MODULE SipDialog -------------------------------
(***************************************************************************)
(* The user agent against the PBX over a network that loses, repeats and   *)
(* reorders datagrams: what the two ends of a call believe of each other.  *)
(* The phone is TincanUac, action by action; its receives now take what    *)
(* the PBX has sent, and what it sends is on its way to the PBX.           *)
(*                                                                         *)
(* The PBX is not part of the program.  It is modelled as a SIP peer of    *)
(* the calls of the phone: it resends INVITE, CANCEL, BYE and the 200 to   *)
(* an INVITE until they are answered, acknowledges final responses, gives  *)
(* up on a 200 that is never acknowledged, and ends a leg at any BYE.  The *)
(* phone resends only the INVITE it places and the 200 it answers with.    *)
(***************************************************************************)
EXTENDS TincanUac, FiniteSets

CONSTANT NetMax  (* bound on the datagrams under way *)

ASSUME EndpointAssumption == Endpoint # {}

\* The endpoint that messages name, which decides nothing here.
FarRtp == CHOOSE ep \in Endpoint : TRUE

VARIABLES
  leg,       (* the PBX's side of each call                                 *)
  net,       (* datagrams under way                                         *)
  met,       (* history: calls placed, or whose INVITE reached the phone    *)
  repeated,  (* history: calls whose INVITE reached the phone twice         *)
  cutOff     (* history: calls whose one BYE was lost, or that a message of
                another call ended or established                           *)

peers   == <<leg, net>>
history == <<met, repeated, cutOff>>
all     == <<vars, peers, history>>

\* A request has code 0, a response the code and method it answers.
Datagram(to, code, method, c) == [to |-> to, code |-> code, method |-> method, cid |-> c]
ToPhone(code, method, c) == Datagram("phone", code, method, c)
Asks(method, c) == ToPhone(0, method, c)

\* What a message of the user agent is on the wire.
Wire(m) == Datagram("pbx", IF "code" \in DOMAIN m THEN m.code ELSE 0, m.method, m.cid)

\* Each datagram sent gets through or is lost; a full network loses it.
Transmit(kept, sent) ==
  \E through \in SUBSET sent :
    /\ net' = kept \cup through
    /\ Cardinality(net') <= NetMax


DialogInit ==
  /\ Init
  /\ leg = [c \in CallId |-> "none"] /\ net = {}
  /\ met = {} /\ repeated = {} /\ cutOff = {}

-----------------------------------------------------------------------------
(* The phone                                                                *)

Mine(c) == state = "InCall" /\ dialog.callId = c

\* The BYE the phone sends in this step.
Bye == {m \in out' : "code" \notin DOMAIN m /\ m.method = "BYE"}

\* The datagrams of a step of the user agent leave; a BYE that is lost is noted.
Sent(kept) ==
  /\ Transmit(kept, {Wire(m) : m \in out'})
  /\ UNCHANGED leg

LostBye == {m.cid : m \in {b \in Bye : Wire(b) \notin net'}}

\* A step that reads nothing.
Alone == Sent(net) /\ cutOff' = cutOff \cup LostBye /\ UNCHANGED repeated

\* Every call placed has a Call-ID of its own.
Places ==
  \E n \in Number, c \in LocalId \ met : PlaceCall(n, c) /\ Alone /\ met' = met \cup {c}

User == (Answer \/ Reject \/ Hangup) /\ Alone /\ UNCHANGED met

Polls == Tick /\ Alone /\ UNCHANGED met

\* Nothing comes within the receive, or one of the PBX's provisional responses,
\* which decide nothing and are not kept under way.
Waits ==
  (RecvNothing \/ \E heard \in BOOLEAN : PlaceUndecided(heard)) /\ Alone /\ UNCHANGED met

\* placeCall() reads the datagram: an answer, a refusal, or whatever else.
Placed(m) ==
  IF m.code = 200 THEN PlaceAnswered(m.cid, FarRtp)
  ELSE IF m.code >= 400 THEN PlaceFailed
  ELSE PlaceUndecided(TRUE)

\* poll() reads it: requests are handled, responses ignored.
Polled(m) ==
  IF m.code # 0 THEN RecvNothing
  ELSE CASE m.method = "INVITE" -> RecvInvite(m.cid, FarRtp, FALSE)
         [] m.method = "BYE"    -> RecvBye(m.cid)
         [] m.method = "CANCEL" -> RecvCancel(m.cid)
         [] m.method = "ACK"    -> RecvAck(m.cid, None)

\* An INVITE that poll() reads; placeCall() drops the one it reads.
Offered(m) == at = "recv" /\ m.code = 0 /\ m.method = "INVITE"

\* A message of one call ends another, or is taken for its answer: poll() does
\* not compare the Call-ID of a BYE, nor placeCall() that of a 200.
Crosses(m) ==
  /\ m.cid # dialog.callId
  /\ \/ at = "recv" /\ state = "InCall" /\ m.code = 0 /\ m.method = "BYE"
     \/ at = "place" /\ m.code = 200

PhoneReads(m) ==
  \E kept \in {net, net \ {m}} :  \* it may arrive again
    /\ m \in net /\ m.to = "phone"
    /\ Placed(m) \/ Polled(m)
    /\ Sent(kept)
    /\ met' = IF Offered(m) THEN met \cup {m.cid} ELSE met
    /\ repeated' = IF Offered(m) /\ m.cid \in met THEN repeated \cup {m.cid} ELSE repeated
    /\ cutOff' = IF Crosses(m) THEN cutOff \cup {dialog.callId} ELSE cutOff

-----------------------------------------------------------------------------
(* The PBX: calls the phone places                                          *)

PbxStep == UNCHANGED <<vars, history>>

Becomes(c, to) == leg' = [leg EXCEPT ![c] = to]

\* The far end has agreed to the call, whatever became of it: it answered, or it
\* acknowledged the phone's 200.  A leg that ends before that is "off".
Agreed(c) == leg[c] \in {"answered", "up", "bye", "down"}

\* Something happens at the PBX: the leg moves on and a datagram is sent.
Acts(c, from, to, sent) ==
  /\ PbxStep
  /\ leg[c] \in from /\ Becomes(c, to)
  /\ Transmit(net, sent)

FarAnswers(c) == c \in LocalId /\ Acts(c, {"ringing"}, "answered", {ToPhone(200, "INVITE", c)})
FarRejects(c) == c \in LocalId /\ Acts(c, {"ringing"}, "off", {ToPhone(486, "INVITE", c)})
AckTimeout(c) == Acts(c, {"answered"}, "bye", {Asks("BYE", c)})

(* Calls offered to the phone                                               *)
Offers(c) == c \in RemoteId /\ Acts(c, {"none"}, "inviting", {Asks("INVITE", c)})
CallerGivesUp(c) == c \in RemoteId /\ Acts(c, {"ringing"}, "cancelling", {Asks("CANCEL", c)})
CancelTimeout(c) == Acts(c, {"cancelled"}, "off", {})

(* Both                                                                     *)
FarHangsUp(c) == Acts(c, {"up"}, "bye", {Asks("BYE", c)})

\* What is not answered is sent again; a full network delays it.
Pending(c) ==
  CASE leg[c] = "inviting"   -> {Asks("INVITE", c)}
    [] leg[c] = "cancelling" -> {Asks("CANCEL", c)}
    [] leg[c] = "answered"   -> {ToPhone(200, "INVITE", c)}
    [] leg[c] = "bye"        -> {Asks("BYE", c)}
    [] OTHER                 -> {}

Resends(c) ==
  /\ PbxStep /\ UNCHANGED leg
  /\ net' = net \cup Pending(c) /\ Cardinality(net') <= NetMax

-----------------------------------------------------------------------------
(* The PBX: what it hears from the phone                                    *)

Hears(m, to, replies) ==
  /\ PbxStep
  /\ Becomes(m.cid, to)
  /\ m \in net /\ Transmit(net \ {m}, replies)

HearsRequest(m) ==
  LET c == m.cid IN
  \/ m.method = "INVITE" /\ Hears(m, IF leg[c] = "none" THEN "ringing" ELSE leg[c], {})
  \/ m.method = "ACK" /\ Hears(m, IF leg[c] = "answered" THEN "up" ELSE leg[c], {})
  \/ m.method = "BYE"
       /\ Hears(m, IF leg[c] = "none" THEN "none" ELSE IF Agreed(c) THEN "down" ELSE "off",
                {ToPhone(200, "BYE", c)})

\* The 200 to an INVITE of the PBX: acknowledged, and undone if the caller is gone.
HearsOk(m) ==
  LET c == m.cid IN
  \/ leg[c] \in {"inviting", "ringing", "up"} /\ Hears(m, "up", {Asks("ACK", c)})
  \/ leg[c] \in {"cancelling", "cancelled"} /\ Hears(m, "bye", {Asks("ACK", c), Asks("BYE", c)})
  \/ leg[c] \in {"bye", "down", "off"} /\ Hears(m, leg[c], {})

\* A refusal is final, and acknowledged too.
HearsRefusal(m) ==
  Hears(m, IF leg[m.cid] \in {"inviting", "ringing", "cancelling", "cancelled"}
           THEN "off" ELSE leg[m.cid],
        {Asks("ACK", m.cid)})

HearsResponse(m) ==
  LET c == m.cid IN
  \/ m.code = 180 /\ Hears(m, IF leg[c] = "inviting" THEN "ringing" ELSE leg[c], {})
  \/ m.code = 200 /\ m.method = "INVITE" /\ HearsOk(m)
  \/ m.code = 200 /\ m.method = "CANCEL"
       /\ Hears(m, IF leg[c] = "cancelling" THEN "cancelled" ELSE leg[c], {})
  \/ m.code = 200 /\ m.method = "BYE" /\ Hears(m, IF leg[c] = "bye" THEN "down" ELSE leg[c], {})
  \/ m.code \in {486, 487} /\ HearsRefusal(m)

PbxReads(m) == m.to = "pbx" /\ IF m.code = 0 THEN HearsRequest(m) ELSE HearsResponse(m)

-----------------------------------------------------------------------------
(* The specification                                                        *)

Phone == Places \/ User \/ Polls \/ Waits \/ \E m \in net : PhoneReads(m)

Pbx ==
  \/ \E c \in CallId :
       \/ FarAnswers(c) \/ FarRejects(c) \/ AckTimeout(c) \/ Offers(c) \/ CallerGivesUp(c)
       \/ CancelTimeout(c) \/ FarHangsUp(c) \/ Resends(c)
  \/ \E m \in net : PbxReads(m)

DialogNext == Phone \/ Pbx

DialogSpec == DialogInit /\ [][DialogNext]_all

-----------------------------------------------------------------------------
(* Properties                                                               *)

\* When the phone takes a call for established, the other end has agreed to it:
\* the caller acknowledged its 200, the callee answered, however late or often
\* their messages came.  The code allows two exceptions.  A 200 of another call is
\* taken for the answer (tincan_uac.cpp:531).  And an INVITE handled twice may be
\* refused and answered at once (tincan_uac.cpp:557): the ACK of the refusal, which
\* ends the call for the far end, is taken for that of the 200 (tincan_uac.cpp:728).
EstablishedIsAgreed ==
  state = "InCall" /\ ~dialog.awaitingAck =>
    \/ Agreed(dialog.callId)
    \/ leg[dialog.callId] = "off" /\ dialog.callId \in repeated
    \/ dialog.remoteTag # dialog.callId

\* The phone does not ring for a caller who is gone, once it has answered his
\* CANCEL or he its refusal (tincan_uac.cpp:666) -- unless the INVITE was handled
\* twice: the code has no transactions, and rings again (tincan_uac.cpp:557).
\* Ringing has no timer, so nothing else would ever stop it.
NoGhostRing ==
  state = "Ringing" /\ leg[dialog.inCallId] \in {"cancelled", "down", "off"} =>
    dialog.inCallId \in repeated

\* app_main.cpp:226, "don't leave the far end talking to a corpse": a far end that
\* is up in a call the phone is not in has the phone's BYE coming, unless that
\* one BYE was lost, or a message of another call ended or established this one
\* (tincan_uac.cpp:646, 531).
FarEndIsTold ==
  \A c \in CallId :
    leg[c] = "up" /\ ~Mine(c) =>
      c \in cutOff \/ Datagram("pbx", 0, "BYE", c) \in net
=============================================================================
