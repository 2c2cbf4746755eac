------------------------------ MODULE MediaPath ------------------------------
(***************************************************************************)
(* The audio task and the control thread of the phone, at the grain of     *)
(* their accesses to the memory they share.  The control thread publishes  *)
(* and retires the media endpoint (publishMediaTarget(), resetDialog() of  *)
(* main/src/tincan_uac.cpp) in the order in which placeCall(), answer(),   *)
(* handleInboundAck() and the ends of a call do; the audio task            *)
(* (audio_task() of main/src/app_main.cpp) pumps a frame at a time with    *)
(* flushRtpBacklog(), sendAudioFrame() and recvAudioFrame().               *)
(*                                                                         *)
(* Calls are numbered.  Each word of the endpoint and of the RTP stream    *)
(* holds the number of the call that wrote it, 0 when it is unset, so a    *)
(* mixture of two calls is visible.  The words are not atomic variables;   *)
(* each is read and written whole.                                         *)
(***************************************************************************)
EXTENDS Integers, Sequences

CONSTANTS
  Calls,       (* bound: calls made in a behaviour                          *)
  Backlog,     (* datagrams the RTP socket queues; later ones are dropped   *)
  CountMax     (* bound: where the counters of this model stay              *)

ASSUME MediaAssumption ==
  /\ Calls \in Nat \ {0}
  /\ Backlog \in Nat \ {0}
  /\ CountMax \in Nat \ {0}

VARIABLES
  \* shared
  inCall,       (* _state = State::InCall                                   *)
  active,       (* _mediaActive                                             *)
  ip, port,     (* _mediaIpBe, _mediaPortBe                                 *)
  ssrc,         (* _rtpSsrc, with _rtpSeq and _rtpTs                        *)
  tx,           (* _rtpTx                                                   *)
  queue,        (* the RTP socket: for each datagram, the call in which it  *)
                (* came, and whether it then had an endpoint, and media     *)
  \* the control thread
  cpc, call, awaitingAck, known,
  \* the audio task
  apc, pumping,
  frame,        (* the words the frame in progress has read                 *)
  txRead,       (* _rtpTx as read by the increment in progress              *)
  stalls,       (* whether, on this board, the audio task may stop in the    *)
                (* middle of a frame for as long as it takes to end a call  *)
                (* and begin another; it never changes                      *)
  \* history
  sent,         (* frames sent since the endpoint was published             *)
  straddled,    (* the counters were reset while a frame was being counted  *)
  late,         (* frames sent since the media of a call was retired        *)
  pumpedFor,    (* the call for which pumping was set                       *)
  played        (* what the last step played: at most one datagram          *)

target  == <<ip, port>>
control == <<cpc, call, awaitingAck, known>>
audio   == <<apc, pumping, frame, txRead>>
counted == <<sent, straddled>>
history == <<counted, late, pumpedFor, played>>
vars    == <<inCall, active, target, ssrc, tx, queue, control, audio, stalls, history>>

NoFrame == [ssrc |-> 0, ip |-> 0, port |-> 0]

\* Counters stay at CountMax.
Up(n) == IF n < CountMax THEN n + 1 ELSE n

Init ==
  /\ inCall = FALSE /\ active = FALSE /\ ip = 0 /\ port = 0 /\ ssrc = 0 /\ tx = 0
  /\ queue = <<>>
  /\ cpc = "idle" /\ call = 0 /\ awaitingAck = FALSE /\ known = 0
  /\ apc = "check" /\ pumping = FALSE /\ frame = NoFrame /\ txRead = 0
  /\ stalls \in BOOLEAN
  /\ sent = 0 /\ straddled = FALSE /\ late = 0 /\ pumpedFor = 0 /\ played = {}

-----------------------------------------------------------------------------
(* The control thread                                                       *)

\* Between the load of the flag and the last use of what it guards.
InFrame == apc \in {"guard", "header", "ip", "port", "sendto", "count", "store"}

\* A new call is 20 ms and more after the end of the last one, and nothing
\* outranks the audio task on its core: unless it stalls, it has left the frame.
Settled == stalls \/ ~InFrame

Step(from, to) == cpc = from /\ cpc' = to

\* A 200 to our INVITE, which may lack an endpoint: it is published all the same.
PlaceAnswered ==
  /\ Step("idle", "counters") /\ ~inCall
  /\ Settled
  /\ call < Calls /\ call' = call + 1
  /\ known' \in {call', 0}
  /\ ssrc' = call'
  /\ UNCHANGED <<inCall, active, target, tx, queue, awaitingAck, audio, history>>

\* answer(): in the call first, then published if the INVITE had an offer.
Answer ==
  /\ cpc = "idle" /\ ~inCall
  /\ Settled
  /\ call < Calls /\ call' = call + 1
  /\ known' \in {call', 0}
  /\ cpc' = IF known' # 0 THEN "counters" ELSE "idle"
  /\ ssrc' = call'
  /\ awaitingAck' = TRUE
  /\ inCall' = TRUE
  /\ UNCHANGED <<active, target, tx, queue, audio, history>>

\* handleInboundAck(): the first one, with or without an answer in it.
Ack ==
  /\ cpc = "idle" /\ inCall /\ awaitingAck
  /\ awaitingAck' = FALSE
  /\ IF active THEN UNCHANGED <<cpc, known>>
     ELSE /\ known' \in {call, 0}
          /\ cpc' = IF known' # 0 THEN "counters" ELSE "idle"
  /\ UNCHANGED <<inCall, active, target, ssrc, tx, queue, call, audio, history>>

Publish(step) ==
  step /\ UNCHANGED <<inCall, ssrc, queue, call, awaitingAck, known, audio,
                      late, pumpedFor, played>>

\* A frame sent before is yet to be counted.
Counting == apc \in {"count", "store"}

\* Mutant: the counters of the last call are kept.
ResetCounters_Not ==
  Publish(Step("counters", "ip") /\ sent' = 0 /\ straddled' = Counting
          /\ UNCHANGED <<active, target, tx>>)

ResetCounters ==
  Publish(Step("counters", "ip") /\ tx' = 0 /\ sent' = 0 /\ straddled' = Counting
          /\ UNCHANGED <<active, target>>)

\* Mutant: the flag is raised before the port is written.
WriteIp_ArmsToo ==
  Publish(Step("ip", "port") /\ ip' = known /\ active' = TRUE /\ UNCHANGED <<port, tx, counted>>)

WriteIp ==
  Publish(Step("ip", "port") /\ ip' = known /\ UNCHANGED <<active, port, tx, counted>>)

WritePort ==
  Publish(Step("port", "arm") /\ port' = known /\ UNCHANGED <<active, ip, tx, counted>>)

\* The store of the flag; placeCall() enters the call after it.
Arm ==
  /\ Step("arm", IF inCall THEN "idle" ELSE "enter")
  /\ active' = TRUE
  /\ UNCHANGED <<inCall, target, ssrc, tx, queue, call, awaitingAck, known, audio, history>>

Enter ==
  /\ Step("enter", "idle")
  /\ inCall' = TRUE
  /\ UNCHANGED <<active, target, ssrc, tx, queue, call, awaitingAck, known, audio, history>>

\* Mutant: the call ends and the flag stays up.
Retire_Not ==
  /\ Step("idle", "leave") /\ inCall
  /\ late' = 0
  /\ awaitingAck' = FALSE /\ known' = 0
  /\ UNCHANGED <<inCall, active, target, ssrc, tx, queue, call, audio, counted, pumpedFor, played>>

\* resetDialog(): however the call ends, the flag goes down first.
Retire ==
  /\ Step("idle", "leave") /\ inCall
  /\ active' = FALSE
  /\ late' = 0
  /\ awaitingAck' = FALSE /\ known' = 0
  /\ UNCHANGED <<inCall, target, ssrc, tx, queue, call, audio, counted, pumpedFor, played>>

Leave ==
  /\ Step("leave", "idle")
  /\ inCall' = FALSE
  /\ UNCHANGED <<active, target, ssrc, tx, queue, call, awaitingAck, known, audio, history>>

-----------------------------------------------------------------------------
(* The audio task: the top of its loop                                      *)

At(from, to) == apc = from /\ apc' = to

\* What the audio task leaves alone everywhere.
Foreign == UNCHANGED <<inCall, active, target, ssrc, control>>

\* Not in a call: idle politely.
Rest ==
  /\ At("check", "check") /\ ~inCall
  /\ pumping' = FALSE
  /\ played' = {}
  /\ Foreign /\ UNCHANGED <<tx, queue, frame, txRead, counted, late, pumpedFor>>

Pump ==
  /\ At("check", IF pumping THEN "mic" ELSE "flush") /\ inCall
  /\ played' = {}
  /\ Foreign /\ UNCHANGED <<tx, queue, pumping, frame, txRead, counted, late, pumpedFor>>

\* Mutant: what was queued before the call is kept.
FlushRtpBacklog_Keeps ==
  /\ At("flush", "mic")
  /\ pumping' = TRUE /\ pumpedFor' = call
  /\ Foreign /\ UNCHANGED <<tx, queue, frame, txRead, counted, late, played>>

\* Every datagram there is; the bound of 201 exceeds what the socket queues.
FlushRtpBacklog ==
  /\ At("flush", "mic")
  /\ queue' = <<>>
  /\ pumping' = TRUE /\ pumpedFor' = call
  /\ Foreign /\ UNCHANGED <<tx, frame, txRead, counted, late, played>>

\* The read is the clock of the loop; it gives a frame, or fails.
MicFrame ==
  /\ At("mic", "send")
  /\ Foreign /\ UNCHANGED <<tx, queue, pumping, frame, txRead, history>>
MicFails ==
  /\ At("mic", "recv")
  /\ Foreign /\ UNCHANGED <<tx, queue, pumping, frame, txRead, history>>

-----------------------------------------------------------------------------
(* sendAudioFrame()                                                         *)

Quiet == Foreign /\ UNCHANGED <<queue, pumping, history>>

LoadFlag == At("send", IF active THEN "guard" ELSE "recv") /\ Quiet /\ UNCHANGED <<tx, frame, txRead>>

\* Mutant: the backstop refuses the endpoints it should let pass.
Guard_RefusesSet ==
  /\ At("guard", IF port # 0 \/ ip # 0 THEN "recv" ELSE "header")
  /\ Quiet /\ UNCHANGED <<tx, frame, txRead>>

\* The backstop against an unset endpoint.
Guard ==
  /\ At("guard", IF port = 0 \/ ip = 0 THEN "recv" ELSE "header")
  /\ Quiet /\ UNCHANGED <<tx, frame, txRead>>

Header   == At("header", "ip") /\ frame' = [frame EXCEPT !.ssrc = ssrc] /\ Quiet /\ UNCHANGED <<tx, txRead>>
LoadIp   == At("ip", "port") /\ frame' = [frame EXCEPT !.ip = ip] /\ Quiet /\ UNCHANGED <<tx, txRead>>
LoadPort == At("port", "sendto") /\ frame' = [frame EXCEPT !.port = port] /\ Quiet /\ UNCHANGED <<tx, txRead>>

\* A call is over and no other is being set up.
Over == cpc = "leave" \/ (cpc = "idle" /\ ~inCall)

\* sendto() fails, which leaves an errno, or the frame is on its way.
SendFails == At("sendto", "recv") /\ frame' = NoFrame /\ Quiet /\ UNCHANGED <<tx, txRead>>
SendTo ==
  /\ At("sendto", "count")
  /\ sent' = Up(sent)
  /\ late' = IF Over THEN Up(late) ELSE late
  /\ frame' = NoFrame
  /\ Foreign /\ UNCHANGED <<tx, queue, pumping, txRead, straddled, pumpedFor, played>>

\* _rtpTx++ is a load and a store.
CountLoad  == At("count", "store") /\ txRead' = tx /\ Quiet /\ UNCHANGED <<tx, frame>>
CountStore == At("store", "recv") /\ tx' = Up(txRead) /\ txRead' = 0 /\ Quiet /\ UNCHANGED frame

-----------------------------------------------------------------------------
(* recvAudioFrame()                                                         *)

\* Media is not armed, or nothing is queued: silence is played.
RecvNothing ==
  /\ At("recv", "check")
  /\ ~active \/ queue = <<>>
  /\ Foreign /\ UNCHANGED <<tx, queue, pumping, frame, txRead, history>>

RecvFrame ==
  /\ At("recv", "check")
  /\ active /\ queue # <<>>
  /\ played' = {Head(queue)}
  /\ queue' = Tail(queue)
  /\ Foreign /\ UNCHANGED <<tx, pumping, frame, txRead, counted, late, pumpedFor>>

-----------------------------------------------------------------------------
(* The network and the specification                                        *)

\* A datagram on the RTP port, at any time.
Arrives ==
  /\ Len(queue) < Backlog
  /\ queue' = Append(queue, [call |-> call, aimed |-> known # 0, armed |-> active])
  /\ UNCHANGED <<inCall, active, target, ssrc, tx, control, audio, history>>

Events == PlaceAnswered \/ Answer \/ Ack \/ Retire
Underway == ResetCounters \/ WriteIp \/ WritePort \/ Arm \/ Enter \/ Leave
Control == Events \/ Underway

Audio ==
  \/ Rest \/ Pump \/ FlushRtpBacklog \/ MicFrame \/ MicFails
  \/ LoadFlag \/ Guard \/ Header \/ LoadIp \/ LoadPort \/ SendFails \/ SendTo
  \/ CountLoad \/ CountStore \/ RecvNothing \/ RecvFrame

SameBoard == UNCHANGED stalls

Next == SameBoard /\ (Control \/ Audio \/ Arrives)

Spec == Init /\ [][Next]_vars

\* Each thread finishes what it is doing.  With a codec that works and a route to
\* the peer, the reads of the microphone and the sends do not fail for ever.
FairSpec ==
  /\ Spec
  /\ WF_vars(Underway /\ SameBoard) /\ WF_vars(Audio /\ SameBoard)
  /\ SF_vars(MicFrame /\ SameBoard) /\ SF_vars(SendTo /\ SameBoard)

-----------------------------------------------------------------------------
(* Properties                                                               *)

Words == 0..Calls
Datagrams == [call : Words, aimed : BOOLEAN, armed : BOOLEAN]

\* Every variable keeps its type.
TypeOK ==
  /\ inCall \in BOOLEAN /\ active \in BOOLEAN
  /\ ip \in Words /\ port \in Words /\ ssrc \in Words
  /\ tx \in 0..CountMax /\ txRead \in 0..CountMax
  /\ sent \in 0..CountMax /\ late \in 0..CountMax
  /\ queue \in Seq(Datagrams) /\ Len(queue) <= Backlog
  /\ cpc \in {"idle", "counters", "ip", "port", "arm", "enter", "leave"}
  /\ call \in Words /\ known \in Words /\ pumpedFor \in Words
  /\ straddled \in BOOLEAN /\ awaitingAck \in BOOLEAN /\ pumping \in BOOLEAN /\ stalls \in BOOLEAN
  /\ apc \in {"check", "flush", "mic", "send", "guard", "header", "ip", "port",
              "sendto", "count", "store", "recv"}
  /\ frame \in [ssrc : Words, ip : Words, port : Words]
  /\ played \in SUBSET Datagrams

\* A frame that leaves the board goes to the whole endpoint of one call, in the
\* RTP stream of that call: the words are written before the flag is raised and
\* not disturbed before it is down.  Needs an audio task that does not stall.
FrameIsOfOneCall ==
  apc = "sendto" /\ ~stalls =>
    frame.ip = frame.port /\ frame.ip = frame.ssrc /\ frame.ip # 0

\* At most one frame leaves after the call's media is retired: the one that was
\* under way, even if the audio task stalls in it until the next call is up.
AtMostOneLateFrame == late <= 1

\* The census counts frames of this call only, although the control thread resets
\* a counter that the audio task increments in two accesses: a frame is counted in
\* the next call only if the task stalls between its send and the store, and just
\* there the reset comes (tincan_uac.cpp:175, 893).
CensusIsOfThisCall == tx <= sent \/ (stalls /\ straddled)

\* When the audio task has seen the call begin, nothing that was queued before
\* that call is played in it.
BacklogIsFlushed ==
  \A d \in played : pumpedFor = call => d.call = call

\* An armed call is heard: a frame goes out, or its media is retired first -- or
\* it was armed on a 200 without an endpoint (tincan_uac.cpp:538), when the backstop
\* drops every frame (tincan_uac.cpp:874) and the call stays silent.
ArmedCallSpeaks == (active /\ sent = 0) ~> (sent # 0 \/ ~active \/ ip = 0)

\* Why the two hold when the audio task does not stall.  The control thread fills
\* the words only while the flag is down and no frame is under way...
Publishing == cpc \in {"counters", "ip", "port", "arm"}
Exclusion ==
  /\ Publishing => ~active /\ ~InFrame
  /\ awaitingAck /\ ~active => ~InFrame
  /\ active => inCall \/ cpc = "enter"
  /\ cpc = "leave" => ~active
  /\ ~straddled

\* ...so a raised flag finds them filled by the call that is up...
Filled ==
  /\ Publishing \/ inCall \/ cpc = "enter" => ssrc = call /\ known \in {0, call}
  /\ cpc \in {"port", "arm"} => ip = known
  /\ cpc = "arm" => port = known
  /\ active => ip = port /\ ip \in {0, ssrc}

\* ...and a frame reads them as the flag announced them.
FrameSoFar ==
  /\ InFrame => ip = port /\ ip \in {0, ssrc}
  /\ apc \in {"header", "ip", "port", "sendto"} => ip # 0
  /\ apc \in {"ip", "port", "sendto"} => frame.ssrc = ssrc
  /\ apc \in {"port", "sendto"} => frame.ip = ip
  /\ apc = "sendto" => frame.port = port

\* A call that is over is disarmed, and no frame begins under a flag that is down.
Ended == /\ active => inCall \/ cpc = "enter"
         /\ cpc = "leave" => ~active
         /\ late <= 1
         /\ Over /\ late = 1 => apc \notin {"guard", "header", "ip", "port", "sendto"}

\* What is queued since the flush of this call came in this call.
Flushed ==
  /\ pumpedFor = call => \A i \in 1..Len(queue) : queue[i].call = call
  /\ \A d \in played : pumpedFor = call => d.call = call
  /\ pumpedFor <= call
  /\ apc = "flush" => played = {}

\* An increment under way counts a frame sent since the reset.
CountSoFar ==
  ~straddled =>
    /\ tx <= sent
    /\ apc = "count" => Up(tx) <= sent
    /\ apc = "store" => Up(txRead) <= sent

Undisturbed == Exclusion /\ Filled /\ FrameSoFar

MediaInv == TypeOK /\ CountSoFar /\ (stalls \/ Undisturbed)

-----------------------------------------------------------------------------
(* The voice path it implements                                             *)

\* The call that is up: from the step that begins it, or arms it, to Retire.
LineUp == (inCall /\ cpc # "leave") \/ active

Path == INSTANCE VoicePath WITH
  Calls   <- 1..Calls,
  Aims    <- [c \in 1..Calls |-> {<<c, c>>}],
  NoCall  <- 0,
  NoVoice <- <<>>,
  line    <- IF LineUp THEN call ELSE 0,
  voice   <- IF active /\ ip # 0 THEN target ELSE <<>>

\* Through the flag, the two words are one: the endpoint appears whole, with the
\* call it belongs to, is not touched until that call ends, and is gone with it,
\* on every board.
VoicePathSpec == Path!Spec

\* Why: the words are written by the call that is under way, under a lowered flag.
Written ==
  /\ Publishing => ~active
  /\ active => inCall \/ cpc = "enter"
  /\ cpc = "leave" => inCall /\ ~active
  /\ cpc = "enter" => active /\ ~inCall
  /\ Publishing \/ inCall \/ cpc = "enter" => call > 0
  /\ Publishing => known \in {0, call} /\ (inCall => known = call)
  /\ cpc \in {"port", "arm"} => ip = known
  /\ cpc = "arm" => port = known
  /\ active => ip = port /\ ip \in {0, call}

=============================================================================
