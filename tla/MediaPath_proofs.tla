--------------------------- MODULE MediaPath_proofs ---------------------------
(***************************************************************************)
(* Proofs about MediaPath, for any number of calls, any socket backlog and *)
(* any bound on the counters.                                              *)
(***************************************************************************)
EXTENDS MediaPath, TLAPS

\* The saturating increment is monotone and stays in range.
LEMMA UpMonotone ==
  ASSUME NEW m \in 0..CountMax, NEW n \in 0..CountMax
  PROVE  Up(m) \in 0..CountMax /\ (m <= n => Up(m) <= Up(n)) /\ m <= Up(m)
BY MediaAssumption DEF Up

\* What the socket holds stays a queue of datagrams of the declared size.
LEMMA QueueTypes ==
  ASSUME TypeOK
  PROVE  /\ <<>> \in Seq(Datagrams) /\ Len(<<>>) <= Backlog
         /\ queue # <<>> => /\ Head(queue) \in Datagrams
                            /\ Tail(queue) \in Seq(Datagrams)
                            /\ Len(Tail(queue)) <= Backlog
         /\ Len(queue) < Backlog =>
              LET d == [call |-> call, aimed |-> known # 0, armed |-> active]
              IN  /\ Append(queue, d) \in Seq(Datagrams)
                  /\ Len(Append(queue, d)) <= Backlog
<1>1. <<>> \in Seq(Datagrams) /\ Len(<<>>) <= Backlog
  BY SMT, MediaAssumption
<1>2. queue # <<>> => /\ Head(queue) \in Datagrams
                      /\ Tail(queue) \in Seq(Datagrams)
                      /\ Len(Tail(queue)) <= Backlog
  BY MediaAssumption DEF TypeOK
<1>3. ASSUME Len(queue) < Backlog, NEW d, d = [call |-> call, aimed |-> known # 0, armed |-> active]
      PROVE  Append(queue, d) \in Seq(Datagrams) /\ Len(Append(queue, d)) <= Backlog
  <2>1. d \in Datagrams
    <3>1. (known # 0) \in BOOLEAN /\ active \in BOOLEAN /\ call \in Words
      BY DEF TypeOK
    <3> QED BY <1>3, <3>1 DEF Datagrams
  <2>2. queue \in Seq(Datagrams)
    BY DEF TypeOK
  <2> QED BY <1>3, <2>1, <2>2, MediaAssumption
<1> QED BY <1>1, <1>2, <1>3

\* The board starts with nothing armed and nothing sent.
LEMMA InitMedia == Init => MediaInv
<1> SUFFICES ASSUME Init PROVE MediaInv
  OBVIOUS
<1>1. TypeOK
  <2>1. NoFrame \in [ssrc : Words, ip : Words, port : Words] /\ 0 \in Words /\ 0 \in 0..CountMax
    BY MediaAssumption DEF NoFrame, Words
  <2>2. queue \in Seq(Datagrams) /\ Len(queue) <= Backlog /\ played \in SUBSET Datagrams
    BY MediaAssumption DEF Init
  <2>3. stalls \in BOOLEAN
    BY DEF Init
  <2> QED BY <2>1, <2>2, <2>3 DEF Init, TypeOK
<1>2. CountSoFar
  BY DEF Init, CountSoFar
<1>3. Exclusion /\ Filled /\ FrameSoFar
  BY DEF Init, Exclusion, Filled, FrameSoFar, Publishing, InFrame
<1> QED BY <1>1, <1>2, <1>3 DEF MediaInv, Undisturbed

-----------------------------------------------------------------------------
(* Types                                                                    *)

\* The control thread's steps keep the types.
LEMMA ControlTypes == ASSUME TypeOK, Control, SameBoard PROVE TypeOK'
<1> USE DEF TypeOK, SameBoard, Step, target, control, audio, history, counted
<1>1. CASE PlaceAnswered
  <2>1. call' \in Words /\ 0 \in Words
    BY <1>1, MediaAssumption DEF PlaceAnswered, Words
  <2>2. known' \in Words
    BY <1>1, <2>1 DEF PlaceAnswered
  <2> QED BY <1>1, <2>1, <2>2 DEF PlaceAnswered
<1>2. CASE Answer
  <2>1. call' \in Words /\ 0 \in Words
    BY <1>2, MediaAssumption DEF Answer, Words
  <2>2. known' \in Words
    BY <1>2, <2>1 DEF Answer
  <2> QED BY <1>2, <2>1, <2>2 DEF Answer
<1>3. CASE Ack
  <2>1. 0 \in Words
    BY MediaAssumption DEF Words
  <2> QED BY <1>3, <2>1 DEF Ack
<1>4. CASE Retire
  <2>1. 0 \in Words /\ 0 \in 0..CountMax
    BY MediaAssumption DEF Words
  <2> QED BY <1>4, <2>1 DEF Retire
<1>5. CASE ResetCounters
  <2>1. 0 \in 0..CountMax
    BY MediaAssumption
  <2>2. straddled' \in BOOLEAN
    <3>1. straddled' = Counting
      BY <1>5, Zenon DEF ResetCounters, Publish
    <3>2. Counting \in BOOLEAN
      BY DEF Counting
    <3> QED BY <3>1, <3>2, Zenon
  <2> QED BY <1>5, <2>1, <2>2 DEF ResetCounters, Publish
<1>6. CASE WriteIp \/ WritePort
  BY <1>6 DEF WriteIp, WritePort, Publish
<1>7. CASE Arm \/ Enter \/ Leave
  BY <1>7, ZenonT(40) DEF Arm, Enter, Leave
<1> QED BY <1>1, <1>2, <1>3, <1>4, <1>5, <1>6, <1>7 DEF Control, Events, Underway

\* The audio task's steps keep the types.
LEMMA AudioTypes == ASSUME TypeOK, Audio, SameBoard PROVE TypeOK'
<1> USE DEF TypeOK, SameBoard, At, Foreign, target, control, audio, history, counted
<1>1. CASE Rest \/ Pump
  BY <1>1 DEF Rest, Pump
<1>2. CASE FlushRtpBacklog
  BY <1>2, QueueTypes DEF FlushRtpBacklog
<1>3. CASE MicFrame \/ MicFails
  BY <1>3 DEF MicFrame, MicFails
<1>4. CASE LoadFlag \/ Guard
  BY <1>4 DEF LoadFlag, Guard, Quiet
<1>5. CASE Header \/ LoadIp \/ LoadPort
  BY <1>5 DEF Header, LoadIp, LoadPort, Quiet
<1>6. CASE SendFails \/ SendTo
  <2>1. NoFrame \in [ssrc : Words, ip : Words, port : Words]
    BY MediaAssumption DEF NoFrame, Words
  <2>2. Up(sent) \in 0..CountMax /\ Up(late) \in 0..CountMax
    BY UpMonotone
  <2> QED BY <1>6, <2>1, <2>2 DEF SendFails, SendTo, Quiet
<1>7. CASE CountLoad \/ CountStore
  <2>1. Up(txRead) \in 0..CountMax /\ 0 \in 0..CountMax
    BY UpMonotone, MediaAssumption
  <2> QED BY <1>7, <2>1 DEF CountLoad, CountStore, Quiet
<1>8. CASE RecvNothing
  BY <1>8 DEF RecvNothing
<1>9. CASE RecvFrame
  BY <1>9, QueueTypes DEF RecvFrame
<1> QED BY <1>1, <1>2, <1>3, <1>4, <1>5, <1>6, <1>7, <1>8, <1>9 DEF Audio

\* Every step keeps the types.
LEMMA TypeStep == TypeOK /\ [Next]_vars => TypeOK'
<1> SUFFICES ASSUME TypeOK, [Next]_vars PROVE TypeOK'
  OBVIOUS
<1>0. stalls' = stalls
  BY DEF Next, SameBoard, vars
<1>1. CASE Arrives
  BY <1>0, <1>1, QueueTypes DEF Arrives, TypeOK, target, control, audio, history, counted
<1>2. CASE UNCHANGED vars
  BY <1>2 DEF vars, TypeOK, target, control, audio, history, counted
<1> QED BY <1>0, <1>1, <1>2, ControlTypes, AudioTypes DEF Next, SameBoard

-----------------------------------------------------------------------------
(* The words of the endpoint                                                *)

\* A new call begins with no frame under way: its words and its counters may be
\* written.
LEMMA BeginInv ==
  ASSUME MediaInv, ~stalls, PlaceAnswered \/ Answer
  PROVE  Exclusion' /\ Filled' /\ FrameSoFar'
<1>1. ~InFrame /\ ~InFrame' /\ ~active /\ ~active' /\ apc' = apc /\ ~straddled'
  BY DEF MediaInv, Undisturbed, Exclusion, PlaceAnswered, Answer, Step, Settled, InFrame, audio,
     history, counted
<1>2. Exclusion'
  BY <1>1 DEF Exclusion, PlaceAnswered, Answer, Step, Publishing
<1>3. Filled'
  BY <1>1 DEF Filled, PlaceAnswered, Answer, Step, Publishing
<1>4. FrameSoFar'
  BY <1>1 DEF FrameSoFar, InFrame
<1> QED BY <1>2, <1>3, <1>4

\* Filling the words: no frame is under way, and none can begin.
LEMMA PublishInv ==
  ASSUME MediaInv, ~stalls, ResetCounters \/ WriteIp \/ WritePort
  PROVE  Exclusion' /\ Filled' /\ FrameSoFar'
<1>1. /\ ~InFrame /\ ~InFrame' /\ ~active /\ ~active' /\ apc' = apc
      /\ Publishing /\ Publishing'
      /\ UNCHANGED <<inCall, ssrc, call, known>>
  BY DEF MediaInv, Undisturbed, Exclusion, ResetCounters, WriteIp, WritePort, Publish, Step, Publishing,
     InFrame, audio
<1>2. Exclusion'
  <2>1. CASE ResetCounters
    <3>1. ~Counting
      BY <1>1 DEF Counting, InFrame
    <3>2. ~straddled'
      BY <2>1, <3>1, Zenon DEF ResetCounters, Publish
    <3> QED BY <1>1, <3>2 DEF Exclusion, Publishing
  <2>2. CASE WriteIp \/ WritePort
    <3>1. ~straddled'
      BY <2>2 DEF MediaInv, Undisturbed, Exclusion, WriteIp, WritePort, Publish, counted
    <3> QED BY <1>1, <3>1 DEF Exclusion, Publishing
  <2> QED BY <2>1, <2>2
<1>3. Filled'
  BY <1>1 DEF MediaInv, Undisturbed, Filled, ResetCounters, WriteIp, WritePort, Publish, Step, Publishing
<1>4. FrameSoFar'
  BY <1>1 DEF FrameSoFar, InFrame
<1> QED BY <1>2, <1>3, <1>4

\* The other steps of the control thread touch neither words nor counters.
LEMMA FlagInv ==
  ASSUME MediaInv, ~stalls, Ack \/ Arm \/ Enter \/ Retire \/ Leave
  PROVE  Exclusion' /\ Filled' /\ FrameSoFar'
<1>1. UNCHANGED <<apc, frame, txRead, ip, port, ssrc, tx, straddled, call>>
  BY DEF Ack, Arm, Enter, Retire, Leave, target, audio, history, counted
<1>2. Exclusion'
  BY <1>1 DEF MediaInv, Undisturbed, Exclusion, Filled, Ack, Arm, Enter, Retire, Leave, Step, Publishing, InFrame
<1>3. Filled'
  BY <1>1 DEF MediaInv, Undisturbed, Exclusion, Filled, Ack, Arm, Enter, Retire, Leave, Step, Publishing
<1>4. FrameSoFar'
  BY <1>1 DEF MediaInv, Undisturbed, FrameSoFar, InFrame
<1> QED BY <1>2, <1>3, <1>4

\* A frame begins only under a raised flag, and then reads what stays put.
LEMMA AudioInv ==
  ASSUME MediaInv, ~stalls, Audio
  PROVE  Exclusion' /\ Filled' /\ FrameSoFar'
<1>1. UNCHANGED <<inCall, active, ip, port, ssrc, cpc, call, awaitingAck, known, straddled>>
  BY DEF Audio, Rest, Pump, FlushRtpBacklog, MicFrame, MicFails, LoadFlag, Guard, Header, LoadIp,
     LoadPort, SendFails, SendTo, CountLoad, CountStore, RecvNothing, RecvFrame, Quiet, Foreign,
     target, control, history, counted
<1>2. InFrame' => InFrame \/ active
  BY DEF Audio, Rest, Pump, FlushRtpBacklog, MicFrame, MicFails, LoadFlag, Guard, Header, LoadIp,
     LoadPort, SendFails, SendTo, CountLoad, CountStore, RecvNothing, RecvFrame, At, InFrame
<1>3. Exclusion'
  BY <1>1, <1>2 DEF MediaInv, Undisturbed, Exclusion, Publishing
<1>4. Filled'
  BY <1>1 DEF MediaInv, Undisturbed, Filled, Publishing
<1>5. FrameSoFar'
  <2>1. InFrame' => ip = port /\ ip \in {0, ssrc}
    BY <1>2 DEF MediaInv, Undisturbed, Filled, FrameSoFar
  <2>2. CASE Header \/ LoadIp \/ LoadPort
    BY <1>1, <2>1, <2>2 DEF MediaInv, Undisturbed, TypeOK, FrameSoFar, Header, LoadIp, LoadPort, At, InFrame
  <2>3. CASE Guard
    BY <1>1, <2>1, <2>3 DEF FrameSoFar, Guard, At
  <2>4. CASE ~(Header \/ LoadIp \/ LoadPort \/ Guard)
    <3>1. apc' \notin {"header", "ip", "port", "sendto"}
      BY <2>4 DEF Audio, Rest, Pump, FlushRtpBacklog, MicFrame, MicFails, LoadFlag, SendFails,
         SendTo, CountLoad, CountStore, RecvNothing, RecvFrame, At
    <3> QED BY <1>1, <2>1, <3>1 DEF FrameSoFar
  <2> QED BY <2>2, <2>3, <2>4
<1> QED BY <1>3, <1>4, <1>5

\* Between two resets the census follows the frames sent, unless the reset came
\* between the send of a frame and its count.
LEMMA CountStep == TypeOK /\ CountSoFar /\ [Next]_vars => CountSoFar'
<1> SUFFICES ASSUME TypeOK, CountSoFar, [Next]_vars PROVE CountSoFar'
  OBVIOUS
<1>1. CASE ResetCounters
  <2>1. tx' = 0 /\ sent' = 0 /\ apc' = apc
    BY <1>1 DEF ResetCounters, Publish, audio
  <2>2. straddled' \/ ~Counting
    BY <1>1, Zenon DEF ResetCounters, Publish
  <2> QED BY <2>1, <2>2 DEF CountSoFar, Counting
<1>2. CASE SendTo
  <2>1. tx \in 0..CountMax /\ sent \in 0..CountMax
    BY DEF TypeOK
  <2>2. tx <= sent => tx <= Up(sent) /\ Up(tx) <= Up(sent)
    BY <2>1, UpMonotone DEF Up
  <2>3. tx' = tx /\ sent' = Up(sent) /\ straddled' = straddled /\ apc' = "count"
    BY <1>2 DEF SendTo, At
  <2> QED BY <2>2, <2>3 DEF CountSoFar, Up
<1>3. CASE CountLoad
  BY <1>3 DEF CountSoFar, CountLoad, At, Quiet, history, counted, Up
<1>4. CASE CountStore
  BY <1>4 DEF CountSoFar, CountStore, At, Quiet, history, counted
<1>5. CASE Audio /\ ~(SendTo \/ CountLoad \/ CountStore)
  <2>1. UNCHANGED <<tx, sent, straddled>> /\ apc' \notin {"count", "store"}
    BY <1>5 DEF Audio, Rest, Pump, FlushRtpBacklog, MicFrame, MicFails, LoadFlag, Guard, Header,
       LoadIp, LoadPort, SendFails, RecvNothing, RecvFrame, At, Quiet, history, counted
  <2> QED BY <2>1 DEF CountSoFar
<1>6. CASE Control /\ ~ResetCounters
  <2>1. UNCHANGED <<tx, sent, straddled, apc, txRead>>
    BY <1>6 DEF Control, Events, Underway, PlaceAnswered, Answer, Ack, Retire, WriteIp, WritePort,
       Arm, Enter, Leave, Publish, audio, history, counted
  <2> QED BY <2>1 DEF CountSoFar, Up
<1>7. CASE Arrives \/ UNCHANGED vars
  <2>1. UNCHANGED <<tx, sent, straddled, apc, txRead>>
    BY <1>7 DEF Arrives, vars, audio, history, counted
  <2> QED BY <2>1 DEF CountSoFar, Up
<1> QED BY <1>1, <1>2, <1>3, <1>4, <1>5, <1>6, <1>7 DEF Next

\* Every step keeps the inductive invariant.
LEMMA MediaStep == MediaInv /\ [Next]_vars => MediaInv'
<1> SUFFICES ASSUME MediaInv, [Next]_vars PROVE MediaInv'
  OBVIOUS
<1>1. TypeOK' /\ CountSoFar' /\ stalls' = stalls
  BY TypeStep, CountStep DEF MediaInv, Next, SameBoard, vars
<1>2. CASE stalls
  BY <1>1, <1>2 DEF MediaInv
<1>3. CASE ~stalls /\ Control
  <2>1. Exclusion' /\ Filled' /\ FrameSoFar'
    BY <1>3, BeginInv, PublishInv, FlagInv DEF Control, Events, Underway
  <2> QED BY <1>1, <2>1 DEF MediaInv, Undisturbed
<1>4. CASE ~stalls /\ Audio
  BY <1>1, <1>4, AudioInv DEF MediaInv, Undisturbed
<1>5. CASE ~stalls /\ (Arrives \/ UNCHANGED vars)
  <2>1. UNCHANGED <<inCall, active, ip, port, ssrc, cpc, call, awaitingAck, known,
                    apc, frame, straddled>>
    BY <1>5 DEF Arrives, vars, target, control, audio, history, counted
  <2>2. Exclusion' /\ Filled'
    BY <1>5, <2>1 DEF MediaInv, Undisturbed, Exclusion, Filled, Publishing, InFrame
  <2>3. FrameSoFar'
    BY <1>5, <2>1 DEF MediaInv, Undisturbed, FrameSoFar, InFrame
  <2> QED BY <1>1, <2>2, <2>3 DEF MediaInv, Undisturbed
<1> QED BY <1>2, <1>3, <1>4, <1>5 DEF Next

-----------------------------------------------------------------------------
(* Theorems                                                                 *)

\* The types hold whether or not the audio task stalls.
THEOREM MediaTypeCorrect == Spec => []TypeOK
<1>1. Init => TypeOK
  BY InitMedia DEF MediaInv
<1> QED BY <1>1, TypeStep, PTL DEF Spec

\* A step that begins no frame and counts none keeps what is known of the end.
LEMMA EndedStep == TypeOK /\ Ended /\ [Next]_vars => Ended'
<1> SUFFICES ASSUME TypeOK, Ended, [Next]_vars PROVE Ended'
  OBVIOUS
<1>1. CASE PlaceAnswered \/ Answer \/ Ack \/ Retire
  BY <1>1 DEF Ended, Over, PlaceAnswered, Answer, Ack, Retire, Step, audio, history, counted
<1>2. CASE Underway
  BY <1>2 DEF Ended, Over, Underway, ResetCounters, WriteIp, WritePort, Arm, Enter, Leave, Publish,
     Step, audio, history, counted
<1>3. CASE SendTo
  <2>1. late' = (IF Over THEN Up(late) ELSE late) /\ apc = "sendto" /\ apc' = "count"
        /\ UNCHANGED <<inCall, active, cpc>>
    BY <1>3 DEF SendTo, At, Foreign, control
  <2>2. Over => late = 0
    BY <2>1 DEF Ended, TypeOK
  <2>3. late' <= 1
    BY <2>1, <2>2, MediaAssumption DEF Ended, Up
  <2> QED BY <2>1, <2>3 DEF Ended, Over
<1>4. CASE LoadFlag
  BY <1>4 DEF Ended, Over, LoadFlag, At, Quiet, Foreign, control, history, counted
<1>5. CASE Audio /\ ~SendTo /\ ~LoadFlag
  <2>1. UNCHANGED <<inCall, active, cpc, late>>
    BY <1>5 DEF Audio, Rest, Pump, FlushRtpBacklog, MicFrame, MicFails, Guard, Header, LoadIp,
       LoadPort, SendFails, CountLoad, CountStore, RecvNothing, RecvFrame, Quiet, Foreign, control,
       history, counted
  <2>2. apc' \in {"guard", "header", "ip", "port", "sendto"} =>
          apc \in {"guard", "header", "ip", "port", "sendto"}
    BY <1>5 DEF Audio, Rest, Pump, FlushRtpBacklog, MicFrame, MicFails, Guard, Header, LoadIp,
       LoadPort, SendFails, CountLoad, CountStore, RecvNothing, RecvFrame, At
  <2> QED BY <2>1, <2>2 DEF Ended, Over
<1>6. CASE Arrives \/ UNCHANGED vars
  BY <1>6 DEF Ended, Over, Arrives, vars, control, audio, history, counted
<1> QED BY <1>1, <1>2, <1>3, <1>4, <1>5, <1>6 DEF Next, Control, Events

\* After the media of a call is retired at most one frame still leaves, even if
\* the audio task stalls in it for any time.
THEOREM LateFrames == Spec => []AtMostOneLateFrame
<1>1. Init => TypeOK /\ Ended
  BY InitMedia DEF MediaInv, Init, Ended, Over
<1>2. TypeOK /\ Ended /\ [Next]_vars => (TypeOK /\ Ended)'
  BY TypeStep, EndedStep
<1>3. TypeOK /\ Ended => AtMostOneLateFrame
  BY DEF Ended, AtMostOneLateFrame
<1> QED BY <1>1, <1>2, <1>3, PTL DEF Spec

\* The queue changes by arrivals of the call that is on, by the flush, and by the
\* datagram that is played.
LEMMA FlushedStep == TypeOK /\ Flushed /\ [Next]_vars => Flushed'
<1> SUFFICES ASSUME TypeOK, Flushed, [Next]_vars PROVE Flushed'
  OBVIOUS
<1>0. queue \in Seq(Datagrams) /\ call \in Int /\ pumpedFor \in Int
  BY DEF TypeOK, Words
<1>1. CASE PlaceAnswered \/ Answer
  <2>1. call' = call + 1 /\ UNCHANGED <<queue, pumpedFor, played, apc>>
    BY <1>1 DEF PlaceAnswered, Answer, audio, history, counted
  <2> QED BY <1>0, <2>1 DEF Flushed
<1>2. CASE Ack \/ Retire \/ Underway
  BY <1>2 DEF Flushed, Ack, Retire, Underway, ResetCounters, WriteIp, WritePort, Arm, Enter, Leave,
     Publish, audio, history, counted
<1>3. CASE FlushRtpBacklog
  <2>1. queue' = <<>> /\ apc' = "mic" /\ pumpedFor' = call /\ call' = call /\ played' = {}
    BY <1>3 DEF Flushed, FlushRtpBacklog, At, Foreign, control
  <2>2. Len(queue') = 0
    BY <2>1
  <2> QED BY <1>0, <2>1, <2>2 DEF Flushed
<1>4. CASE RecvFrame
  <2>1. queue # <<>> /\ queue' = Tail(queue) /\ played' = {queue[1]} /\ apc' = "check"
        /\ UNCHANGED <<call, pumpedFor>>
    BY <1>0, <1>4 DEF RecvFrame, At, Foreign, control
  <2>2. 1 \in 1..Len(queue) /\ Len(queue') = Len(queue) - 1
        /\ \A i \in 1..Len(queue') : queue'[i] = queue[i + 1] /\ i + 1 \in 1..Len(queue)
    BY <1>0, <2>1
  <2> QED BY <1>0, <2>1, <2>2 DEF Flushed
<1>5. CASE Arrives
  <2> DEFINE d == [call |-> call, aimed |-> known # 0, armed |-> active]
  <2>1. queue' = Append(queue, d) /\ d.call = call /\ UNCHANGED <<call, pumpedFor, played, apc>>
    BY <1>5 DEF Arrives, control, audio, history, counted
  <2>2. Len(queue') = Len(queue) + 1
        /\ \A i \in 1..Len(queue') : queue'[i] = IF i = Len(queue) + 1 THEN d ELSE queue[i]
    BY <1>0, <2>1
  <2>3. ASSUME pumpedFor = call, NEW i \in 1..Len(queue')
        PROVE  queue'[i].call = call
    <3> HIDE DEF d
    <3> QED BY <1>0, <2>1, <2>2, <2>3 DEF Flushed
  <2> HIDE DEF d
  <2> QED BY <2>1, <2>3 DEF Flushed
<1>6. CASE Audio /\ ~FlushRtpBacklog /\ ~RecvFrame
  <2>1. UNCHANGED <<queue, call, pumpedFor>> /\ (played' = {} \/ played' = played)
        /\ (apc' = "flush" => played' = {})
    BY <1>6 DEF Audio, At, Rest, Pump, MicFrame, MicFails, LoadFlag, Guard, Header, LoadIp,
       LoadPort, SendFails, SendTo, CountLoad, CountStore, RecvNothing, Quiet, Foreign, control,
       history, counted
  <2> QED BY <2>1 DEF Flushed
<1>7. CASE UNCHANGED vars
  BY <1>7 DEF Flushed, vars, control, audio, history, counted
<1> QED BY <1>1, <1>2, <1>3, <1>4, <1>5, <1>6, <1>7 DEF Next, Control, Events

\* A call that was flushed when it began plays nothing that was queued before it.
THEOREM BacklogFlushed == Spec => []BacklogIsFlushed
<1>1. Init => TypeOK /\ Flushed
  BY InitMedia DEF MediaInv, Init, Flushed
<1>2. TypeOK /\ Flushed /\ [Next]_vars => (TypeOK /\ Flushed)'
  BY TypeStep, FlushedStep
<1>3. TypeOK /\ Flushed => BacklogIsFlushed
  BY DEF Flushed, BacklogIsFlushed
<1> QED BY <1>1, <1>2, <1>3, PTL DEF Spec

\* Where the audio task does not stall in a frame, every frame that leaves goes to
\* the whole endpoint of one call in the stream of that call, without a lock, for any
\* number of calls.
THEOREM MediaIsolation == Spec => []FrameIsOfOneCall
<1>1. MediaInv => FrameIsOfOneCall
  BY DEF MediaInv, Undisturbed, FrameSoFar, InFrame, FrameIsOfOneCall
<1> QED BY <1>1, MediaStep, InitMedia, PTL DEF Spec

\* The census of a call holds no frame of the call before it, unless the task stalls
\* in a count and the reset comes there.
THEOREM CensusOfTheCall == Spec => []CensusIsOfThisCall
<1>1. MediaInv => CensusIsOfThisCall
  BY DEF MediaInv, Undisturbed, Exclusion, CountSoFar, CensusIsOfThisCall
<1> QED BY <1>1, MediaStep, InitMedia, PTL DEF Spec

-----------------------------------------------------------------------------
(* Refinement of VoicePath                                                  *)

\* What the audio task and the network leave alone keeps the words as they are,
\* and is a stutter of the path.
LEMMA ForeignPath ==
  ASSUME UNCHANGED <<inCall, active, target, control>>
  PROVE  (Written => Written') /\ UNCHANGED Path!vars
<1>1. UNCHANGED <<inCall, active, ip, port, cpc, call, known>>
  BY DEF target, control
<1>2. UNCHANGED LineUp
  BY <1>1 DEF LineUp
<1> QED BY <1>1, <1>2 DEF Written, Publishing, Path!vars, target

\* The audio task and the network touch nothing of the path.
LEMMA AudioForeign ==
  ASSUME Audio \/ Arrives
  PROVE  UNCHANGED <<inCall, active, target, control>>
BY DEF Audio, Rest, Pump, FlushRtpBacklog, MicFrame, MicFails, LoadFlag, Guard, Header, LoadIp,
   LoadPort, SendFails, SendTo, CountLoad, CountStore, RecvNothing, RecvFrame, Quiet, Foreign,
   Arrives

\* A call begins with the flag down; its words are then filled one by one.
LEMMA FillPath ==
  ASSUME TypeOK, Written, PlaceAnswered \/ Ack \/ ResetCounters \/ WriteIp \/ WritePort
  PROVE  Written' /\ UNCHANGED Path!vars
<1>0. call \in Nat
  BY MediaAssumption DEF TypeOK, Words
<1>1. Written'
  BY <1>0 DEF Written, PlaceAnswered, Ack, ResetCounters, WriteIp, WritePort, Publish, Step,
     Publishing, target, TypeOK
<1>2. UNCHANGED <<LineUp, active>>
  BY DEF Written, PlaceAnswered, Ack, ResetCounters, WriteIp, WritePort, Publish, Step,
     Publishing, LineUp
<1>3. (LineUp => UNCHANGED call) /\ (active => UNCHANGED target)
  BY DEF Written, PlaceAnswered, Ack, ResetCounters, WriteIp, WritePort, Publish, Step,
     Publishing, LineUp, target
<1> QED BY <1>1, <1>2, <1>3 DEF Path!vars, target, Written

\* The steps that raise and lower the flag, and begin and end the call.
LEMMA FlagPath ==
  ASSUME TypeOK, Written, Answer \/ Arm \/ Enter \/ Retire \/ Leave
  PROVE  Written' /\ [Path!Next]_(Path!vars)
<1>0. call \in Nat /\ call <= Calls
  BY MediaAssumption DEF TypeOK, Words
<1>1. CASE Answer
  <2>1. call' \in 1..Calls /\ ~active /\ ~active' /\ ~LineUp /\ LineUp'
    BY <1>0, <1>1, MediaAssumption DEF Answer, Written, LineUp
  <2>2. Written'
    BY <1>1, <2>1 DEF Written, Answer, Publishing, target
  <2>3. Path!Connect(call', <<>>)
    BY <1>1, <2>1 DEF Path!Connect
  <2> QED BY <2>1, <2>2, <2>3 DEF Path!Next
<1>2. CASE Arm
  <2>1. /\ call \in 1..Calls /\ ~active /\ active' /\ LineUp'
        /\ UNCHANGED <<call, ip, port, target, inCall>>
        /\ ip = known /\ port = known /\ known \in {0, call} /\ (inCall => known = call)
        /\ LineUp <=> inCall
    BY <1>0, <1>2 DEF Arm, Step, Written, Publishing, LineUp, target
  <2>2. Written'
    BY <1>2, <2>1 DEF Written, Arm, Step, Publishing
  <2>3. CASE ip = 0
    <3>1. Path!Connect(call, <<>>)
      BY <2>1, <2>3 DEF Path!Connect
    <3> QED BY <2>1, <2>2, <3>1 DEF Path!Next
  <2>4. CASE ip # 0
    <3>1. target = <<call, call>> /\ <<call, call>> \in [c \in 1..Calls |-> {<<c, c>>}][call]
      BY <2>1, <2>4 DEF target
    <3>2. Path!Connect(call, target) \/ Path!VoiceOn(call, target)
      BY <2>1, <2>4 DEF Path!Connect, Path!VoiceOn
    <3> QED BY <2>1, <2>2, <3>1, <3>2 DEF Path!Next
  <2> QED BY <2>3, <2>4
<1>3. CASE Enter \/ Leave
  <2>1. UNCHANGED <<LineUp, active, call, target>>
    BY <1>3 DEF Enter, Leave, Step, Written, LineUp
  <2>2. Written'
    BY <1>3 DEF Enter, Leave, Step, Written, Publishing, target
  <2> QED BY <2>1, <2>2 DEF Path!vars, target
<1>4. CASE Retire
  <2>1. LineUp /\ ~LineUp' /\ ~active' /\ call > 0
    BY <1>4 DEF Retire, Step, Written, LineUp
  <2>2. Written'
    BY <1>4, <2>1 DEF Retire, Step, Written, Publishing, target
  <2>3. Path!End
    BY <2>1 DEF Path!End
  <2> QED BY <2>2, <2>3 DEF Path!Next
<1> QED BY <1>1, <1>2, <1>3, <1>4

\* Every step moves the path as VoicePath allows, or not at all.
LEMMA MediaPathStep ==
  TypeOK /\ Written /\ [Next]_vars => Written' /\ [Path!Next]_(Path!vars)
<1> SUFFICES ASSUME TypeOK, Written, [Next]_vars PROVE Written' /\ [Path!Next]_(Path!vars)
  OBVIOUS
<1>1. CASE UNCHANGED vars
  BY <1>1, ForeignPath DEF vars
<1> QED BY <1>1, AudioForeign, ForeignPath, FillPath, FlagPath DEF Next, Control, Events, Underway

\* The control thread implements the voice path of the user agent towards the
\* audio task, whatever the audio task does: the endpoint appears whole, with the
\* call it belongs to, does not move, and is gone with that call.
THEOREM MemoryImplementsPath == Spec => VoicePathSpec
<1>1. Init => Written /\ Path!Init
  BY DEF Init, Written, Publishing, Path!Init, LineUp
<1> QED BY <1>1, MediaTypeCorrect, MediaPathStep, PTL DEF Spec, VoicePathSpec, Path!Spec

=============================================================================
