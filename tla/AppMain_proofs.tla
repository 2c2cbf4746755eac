----------------------------- MODULE AppMain_proofs -----------------------------
(***************************************************************************)
(* Proofs about AppMain, for every set of Call-IDs, endpoints and digits,  *)
(* every dial buffer, key queue and bound on the attempts: what the main   *)
(* loop shows, switches and stores is true of the user agent it drives.    *)
(* They rest on IInv, which the loop and its resets keep.                  *)
(***************************************************************************)
EXTENDS AppMain, TincanUac_proofs, SequenceTheorems

-----------------------------------------------------------------------------
(* The numbers                                                              *)

\* A number, or none: a row of digits that fits the buffer.
LEMMA NumberIsRow ==
  \A d : d \in Number \cup {<<>>} <=> d \in Seq(Digit) /\ Len(d) <= DialBufferMax
<1>1. ASSUME NEW d, d \in Number PROVE d \in Seq(Digit) /\ Len(d) <= DialBufferMax
  <2>1. PICK k \in 1..DialBufferMax : d \in [1..k -> Digit]
    BY <1>1, DialAssumption
  <2>2. k \in Nat /\ d \in Seq(Digit)
    BY <2>1, DialAssumption, SeqDef
  <2>3. Len(d) \in Nat /\ 1..Len(d) = 1..k
    BY <2>1, <2>2, LenProperties
  <2>4. Len(d) \in 1..Len(d) \/ Len(d) = 0
    BY <2>3
  <2> QED BY <2>1, <2>2, <2>3, <2>4
<1>2. ASSUME NEW d \in Seq(Digit), Len(d) <= DialBufferMax PROVE d \in Number \cup {<<>>}
  <2>1. Len(d) \in Nat /\ d \in [1..Len(d) -> Digit]
    BY LenProperties
  <2>2. CASE Len(d) = 0
    BY <2>2, <1>2, EmptySeq
  <2>3. CASE Len(d) # 0
    <3>1. Len(d) \in 1..DialBufferMax
      BY <1>2, <2>1, <2>3, DialAssumption
    <3> QED BY <2>1, <3>1, DialAssumption
  <2> QED BY <2>2, <2>3
<1>3. <<>> \in Seq(Digit) /\ Len(<<>>) <= DialBufferMax
  BY DialAssumption, EmptySeq
<1> QED BY <1>1, <1>2, <1>3

\* What the keys do to a number.
LEMMA NumberKeys ==
  ASSUME NEW d \in Number \cup {<<>>}, NEW x \in Digit
  PROVE  /\ <<x>> \in Number
         /\ Len(d) < DialBufferMax => Append(d, x) \in Number
         /\ d # <<>> => SubSeq(d, 1, Len(d) - 1) \in Number \cup {<<>>}
<1>1. d \in Seq(Digit) /\ Len(d) \in Nat /\ Len(d) <= DialBufferMax /\ DialBufferMax \in Nat \ {0}
  BY NumberIsRow, DialAssumption, LenProperties
<1>2. <<x>> \in Number
  <2>1. <<x>> \in Seq(Digit) /\ Len(<<x>>) = 1 /\ <<x>> # <<>>
    OBVIOUS
  <2>2. <<x>> \in Number \cup {<<>>}
    <3>1. Len(<<x>>) <= DialBufferMax
      BY <1>1, <2>1
    <3> QED BY <2>1, <3>1, NumberIsRow
  <2> QED BY <2>1, <2>2
<1>3. ASSUME Len(d) < DialBufferMax PROVE Append(d, x) \in Number
  <2>1. Append(d, x) \in Seq(Digit) /\ Len(Append(d, x)) = Len(d) + 1 /\ Append(d, x) # <<>>
    BY <1>1, AppendProperties
  <2>2. Append(d, x) \in Number \cup {<<>>}
    <3>1. Len(Append(d, x)) <= DialBufferMax
      BY <1>1, <1>3, <2>1
    <3> QED BY <2>1, <3>1, NumberIsRow
  <2> QED BY <2>1, <2>2
<1>4. ASSUME d # <<>> PROVE SubSeq(d, 1, Len(d) - 1) \in Number \cup {<<>>}
  <2>1. \A i \in 1..(Len(d) - 1) : d[i] \in Digit
    BY <1>1
  <2>2. /\ SubSeq(d, 1, Len(d) - 1) \in Seq(Digit)
        /\ Len(SubSeq(d, 1, Len(d) - 1)) <= Len(d)
    BY <1>1, <2>1, SubSeqProperties
  <2>3. Len(SubSeq(d, 1, Len(d) - 1)) <= DialBufferMax
    BY <1>1, <2>2, LenProperties
  <2> QED BY <2>2, <2>3, NumberIsRow
<1> QED BY <1>2, <1>3, <1>4

-----------------------------------------------------------------------------
(* What the operations of the user agent do, as the loop needs it           *)

\* poll() keeps the party of a call that goes on, brings no call up, and lets no
\* ringing call be replaced by another.
LEMMA PollCalls ==
  ASSUME IInv, Tick \/ Recv
  PROVE  /\ at' \in {"api", "recv"} /\ (Tick => at' = "recv") /\ (Recv => at' = "api")
         /\ state' = "InCall" => state = "InCall" /\ dialog'.peerExt = dialog.peerExt
         /\ state = "Ringing" => state' \in {"Ringing", "Idle"}
         /\ state = "Ringing" /\ state' = "Ringing" => dialog' = dialog
         /\ Tick => (state' = "Ringing" <=> state = "Ringing")
<1>1. CASE Tick
  <2>1. at' = "recv" /\ ~Recv
    BY <1>1 DEF Tick, TickQuiet, TickResend, TickGiveUp, Enter, Recv, RecvNothing, RecvOptions,
       RecvInvite, RecvBye, RecvCancel, RecvAck, Received
  <2>2. CASE TickQuiet \/ TickResend
    BY <2>1, <2>2 DEF TickQuiet, TickResend
  <2>3. CASE TickGiveUp
    BY <2>1, <2>3 DEF TickGiveUp, TearDown, IInv, CallInv, RetransmittedOkIsOfTheCall
  <2> QED BY <1>1, <2>2, <2>3 DEF Tick
<1>2. CASE Recv
  <2>1. at' = "api" /\ ~Tick
    BY <1>2 DEF Tick, TickQuiet, TickResend, TickGiveUp, Enter, Recv, RecvNothing, RecvOptions,
       RecvInvite, RecvBye, RecvCancel, RecvAck, Received
  <2>2. CASE RecvNothing \/ RecvOptions
    BY <2>1, <2>2 DEF RecvNothing, RecvOptions, Unaffected
  <2>3. ASSUME NEW c \in RemoteId, NEW ep \in Offer, NEW named \in BOOLEAN, RecvInvite(c, ep, named)
        PROVE  \/ UNCHANGED <<state, dialog>>
               \/ state = "Idle" /\ state' = "Ringing"
    BY <2>3 DEF RecvInvite, Unaffected, Busy
  <2>4. ASSUME NEW c \in CallId, RecvBye(c) \/ RecvCancel(c)
        PROVE  UNCHANGED <<state, dialog>> \/ state' = "Idle"
    BY <2>4 DEF RecvBye, RecvCancel, TearDown, Unaffected
  <2>5. ASSUME NEW c \in CallId, NEW ep \in Offer, RecvAck(c, ep)
        PROVE  /\ state' = state /\ dialog'.peerExt = dialog.peerExt
               /\ state = "Ringing" => dialog' = dialog
    BY <2>5 DEF RecvAck, Learnt, IInv, TypeOK, Dialogs, CallInv, RetransmittedOkIsOfTheCall
  <2> QED BY <1>2, <2>1, <2>2, <2>3, <2>4, <2>5 DEF Recv
<1> QED BY <1>1, <1>2

\* placeCall() keeps the party it dials, and returns TRUE with that call up, on an
\* endpoint.
LEMMA PlaceCalls ==
  ASSUME IInv, Placing
  PROVE  /\ at = "place" /\ at' \in {"place", "api"}
         /\ state' \in {"Calling", "InCall", "Idle"}
         /\ dialog'.peerExt = dialog.peerExt
         /\ at' = "api" /\ ret' => state' = "InCall" /\ mediaTarget' # None
<1>0. state = "Calling" \/ at # "place"
  BY DEF IInv, CallInv, CallingIsInsidePlaceCall
<1>1. ASSUME NEW heard \in BOOLEAN, PlaceUndecided(heard)
      PROVE  /\ at = "place" /\ at' \in {"place", "api"} /\ dialog' = dialog
             /\ state' \in {state, "Idle"} /\ (at' = "api" => ~ret')
  BY <1>1 DEF PlaceUndecided, InPlaceCall, Return
<1>2. ASSUME NEW c \in CallId \cup {None}, NEW ep \in Offer, PlaceAnswered(c, ep)
      PROVE  /\ at = "place" /\ at' = "api" /\ state' = "InCall"
             /\ dialog'.peerExt = dialog.peerExt
             /\ ret' => mediaTarget' # None
  BY <1>2 DEF PlaceAnswered, InPlaceCall, Return, PublishMediaTarget, Learnt, IInv, TypeOK, Dialogs
<1>3. ASSUME PlaceFailed
      PROVE  at = "place" /\ at' = "api" /\ ~ret' /\ dialog' = dialog /\ state' = "Idle"
  BY <1>3 DEF PlaceFailed, InPlaceCall, Return
<1> QED BY <1>0, <1>1, <1>2, <1>3 DEF Placing

\* Registration leaves the call alone.
LEMMA RegisterCalls ==
  ASSUME RegisterExt \/ MaintainRegistration \/ Registering
  PROVE  /\ UNCHANGED <<state, dialog, mediaActive, mediaTarget>>
         /\ at' \in {"register", "api"}
         /\ RegisterExt \/ MaintainRegistration => at = "api" /\ at' = "register"
         /\ Registering => at = "register"
BY DEF RegisterExt, MaintainRegistration, StartRegister, Enter, Registering, RegisterNoAnswer,
   RegisterOk, RegisterRejected, InRegister, Return, media

-----------------------------------------------------------------------------
(* The user agent under the loop                                            *)

\* The numbers the program holds, and the keys it has still to read.
NumbersInv ==
  /\ key \in Keys \cup {"none"} /\ keys \in Seq(Keys) /\ Len(keys) <= KeyFifo
  /\ dialBuffer \in Number \cup {<<>>}
  /\ lastDialled \in Number \cup {<<>>}
  /\ nvs \in Number \cup {<<>>}
  /\ pc = "dialling" => \E n \in Number : panel.who = Dialled(n)

\* Every step of the program is one of the user agent, none of it, or a reset.
LEMMA StepOfUac ==
  ASSUME NumbersInv, [AppNext]_all
  PROVE  Next \/ UNCHANGED vars \/ Reset
<1>1. CASE BootRegister \/ Registers \/ Poll \/ Drain \/ Refresh
  BY <1>1 DEF BootRegister, Registers, Poll, Drain, Refresh, Next, Operations
<1>2. CASE Rings \/ AnswerKey \/ RejectKey \/ HangupKey \/ WatchCall
  BY <1>2 DEF Rings, AnswerKey, RejectKey, HangupKey, WatchCall, Next, Operations
<1>3. CASE PowerOff
  BY <1>3 DEF PowerOff, Next, Operations
<1>4. CASE Dials
  <2>1. Target \in Number
    BY <1>4 DEF Dials, Target, NumbersInv
  <2> QED BY <1>4, <2>1 DEF Dials, Next, Operations
<1>5. CASE BootDone \/ Refreshed \/ NotDue \/ Key \/ Ignored \/ AskPowerOff \/ KeepOn
  BY <1>5 DEF BootDone, LoadLastDialled, Refreshed, NotDue, Key, Ignored, AskPowerOff, KeepOn
<1>6. CASE FirstDigit \/ NextDigit \/ Erase \/ DialDone \/ CallerGaveUp \/ NoHangup
  BY <1>6 DEF FirstDigit, NextDigit, Erase, DialDone, CallerGaveUp, NoHangup
<1>7. CASE \E k \in Digit \cup {"ENT", "DEL"} : PressKey(k)
  BY <1>7 DEF PressKey
<1>8. CASE UNCHANGED all
  BY <1>8 DEF all
<1> QED BY <1>1, <1>2, <1>3, <1>4, <1>5, <1>6, <1>7, <1>8 DEF AppNext, Program

\* The loop and its resets keep what the user agent relies on.
LEMMA UacKept ==
  ASSUME NumbersInv, IInv, [AppNext]_all
  PROVE  IInv'
<1>1. CASE Next \/ UNCHANGED vars
  BY <1>1, StepInv
<1>2. CASE Reset
  <2>1. Init'
    BY <1>2 DEF Reset, Init
  <2> QED BY <2>1, InitInv, PTL
<1> QED BY <1>1, <1>2, StepOfUac

-----------------------------------------------------------------------------
(* Keys and numbers                                                         *)

\* Keys come into a queue that holds no more, and are read from its front.
LEMMA KeysStep ==
  ASSUME NumbersInv, [AppNext]_all
  PROVE  key' \in Keys \cup {"none"} /\ keys' \in Seq(Keys) /\ Len(keys') <= KeyFifo
<1>0. /\ key \in Keys \cup {"none"} /\ keys \in Seq(Keys) /\ Len(keys) <= KeyFifo
      /\ KeyFifo \in Nat \ {0} /\ Len(keys) \in Nat
  BY DialAssumption, LenProperties DEF NumbersInv
<1>1. CASE Key
  <2>1. ReadKey
    BY <1>1 DEF Key
  <2>2. CASE key' = "none" /\ UNCHANGED keys
    BY <1>0, <2>2
  <2>3. CASE keys # <<>> /\ key' = Head(keys) /\ keys' = Tail(keys)
    BY <1>0, <2>3, HeadTailProperties
  <2> QED BY <2>1, <2>2, <2>3 DEF ReadKey
<1>2. CASE \E k \in Digit \cup {"ENT", "DEL"} : PressKey(k)
  <2>1. PICK k \in Keys : PressKey(k)
    BY <1>2 DEF Keys
  <2>2. key' = key /\ Len(keys) < KeyFifo /\ keys' = Append(keys, k)
    BY <2>1 DEF PressKey
  <2> QED BY <1>0, <2>2, AppendProperties
<1>3. CASE Reset
  BY <1>0, <1>3, EmptySeq DEF Reset
<1>4. CASE Poll
  BY <1>0, <1>4 DEF Poll, InPoll
<1>5. CASE BootRegister \/ Registers \/ BootDone \/ Drain \/ Refresh \/ Refreshed \/ NotDue
  BY <1>0, <1>5 DEF BootRegister, Registers, BootDone, Drain, Refresh, Refreshed, NotDue, app
<1>6. CASE Ignored \/ AskPowerOff \/ KeepOn \/ FirstDigit \/ NextDigit \/ Erase
  BY <1>0, <1>6 DEF Ignored, AskPowerOff, KeepOn, FirstDigit, NextDigit, Erase
<1>7. CASE Dials \/ Rings \/ DialDone
  BY <1>0, <1>7 DEF Dials, Rings, DialDone, app
<1>8. CASE AnswerKey \/ RejectKey \/ CallerGaveUp \/ HangupKey \/ NoHangup \/ WatchCall \/ PowerOff
  BY <1>0, <1>8 DEF AnswerKey, RejectKey, CallerGaveUp, HangupKey, NoHangup, WatchCall, PowerOff
<1>9. CASE UNCHANGED all
  BY <1>0, <1>9 DEF all, app
<1> QED BY <1>1, <1>2, <1>3, <1>4, <1>5, <1>6, <1>7, <1>8, <1>9 DEF AppNext, Program

\* Numbers are typed one digit at a time, up to the bound of the buffer; what is
\* stored is a number that was dialled.
LEMMA NumbersStep ==
  ASSUME NumbersInv, [AppNext]_all
  PROVE  NumbersInv'
<1> DEFINE Held == /\ dialBuffer \in Number \cup {<<>>}
                   /\ lastDialled \in Number \cup {<<>>}
                   /\ nvs \in Number \cup {<<>>}
           Dialling == pc = "dialling" => \E n \in Number : panel.who = Dialled(n)
<1> USE DEF Dialled, Show, Screen, Enters
<1>0. Held /\ Dialling
  BY DEF NumbersInv
<1> SUFFICES Held' /\ Dialling'
  BY KeysStep DEF NumbersInv
<1>1. ASSUME UNCHANGED numbers, pc' # "dialling" \/ (pc' = pc /\ panel' = panel)
      PROVE  Held' /\ Dialling'
  BY <1>0, <1>1 DEF numbers
<1>2. CASE FirstDigit \/ NextDigit
  <2>1. key \in Digit /\ pc' = "poll" /\ UNCHANGED <<lastDialled, nvs>>
    BY <1>2 DEF FirstDigit, NextDigit, Switch, Goto
  <2>2. dialBuffer' \in Number \cup {<<>>}
    <3>1. \/ dialBuffer' = <<key>>
          \/ dialBuffer' = dialBuffer
          \/ Len(dialBuffer) < DialBufferMax /\ dialBuffer' = Append(dialBuffer, key)
      BY <1>2 DEF FirstDigit, NextDigit
    <3> QED BY <1>0, <2>1, <3>1, NumberKeys
  <2> QED BY <1>0, <2>1, <2>2
<1>3. CASE Erase
  <2>1. pc' = "poll" /\ UNCHANGED <<lastDialled, nvs>>
    BY <1>3 DEF Erase, Switch, Goto
  <2>2. \/ dialBuffer' = dialBuffer
        \/ dialBuffer # <<>> /\ dialBuffer' = SubSeq(dialBuffer, 1, Len(dialBuffer) - 1)
    BY <1>3 DEF Erase
  <2>3. dialBuffer' \in Number \cup {<<>>}
    <3>1. CASE dialBuffer # <<>>
      <4>1. dialBuffer \in Seq(Digit) /\ dialBuffer[1] \in Digit
        BY <1>0, <3>1, NumberIsRow
      <4> QED BY <1>0, <2>2, <3>1, <4>1, NumberKeys
    <3> QED BY <1>0, <2>2, <3>1
  <2> QED BY <1>0, <2>1, <2>3
<1>4. CASE Dials
  <2>1. Target \in Number /\ panel' = Screen("Calling...", Dialled(Target))
    BY <1>0, <1>4 DEF Dials, Target, Show
  <2>2. panel'.who = Dialled(Target)
    BY <2>1 DEF Screen
  <2>3. dialBuffer' \in {dialBuffer, <<>>} /\ UNCHANGED <<lastDialled, nvs>>
    BY <1>4 DEF Dials
  <2>4. Dialling'
    BY <2>1, <2>2 DEF Dialled
  <2> QED BY <1>0, <2>3, <2>4
<1>5. CASE DialDone
  <2>1. pc = "dialling" /\ pc' = "poll" /\ dialBuffer' = dialBuffer
    BY <1>5 DEF DialDone, Goto
  <2>2. panel.who.of \in Number
    <3>1. PICK n \in Number : panel.who = Dialled(n)
      BY <1>0, <2>1
    <3> QED BY <3>1
  <2>3. lastDialled' \in {lastDialled, panel.who.of} /\ nvs' \in {nvs, panel.who.of}
    BY <1>5 DEF DialDone, Remember
  <2> QED BY <1>0, <2>1, <2>2, <2>3
<1>6. CASE BootDone
  BY <1>0, <1>6 DEF BootDone, LoadLastDialled, Goto
<1>7. CASE Reset
  BY <1>0, <1>7 DEF Reset
<1>8. CASE \E k \in Digit \cup {"ENT", "DEL"} : PressKey(k)
  BY <1>1, <1>8 DEF PressKey, screen
<1>9. CASE Poll
  BY <1>1, <1>9 DEF Poll, InPoll, screen
<1>10. CASE Registers \/ Rings
  BY <1>1, <1>10 DEF Registers, Rings, app, screen
<1>11. CASE BootRegister \/ Drain \/ Refresh \/ Refreshed \/ NotDue \/ Key
  BY <1>1, <1>11 DEF BootRegister, Drain, Refresh, Refreshed, NotDue, Key, Goto
<1>12. CASE Ignored \/ AskPowerOff \/ KeepOn
  BY <1>1, <1>12 DEF Ignored, AskPowerOff, KeepOn, Switch, Goto, numbers
<1>13. CASE AnswerKey \/ RejectKey \/ CallerGaveUp \/ HangupKey \/ NoHangup \/ WatchCall \/ PowerOff
  BY <1>1, <1>13 DEF AnswerKey, RejectKey, CallerGaveUp, HangupKey, NoHangup, WatchCall, PowerOff,
     Switch, Goto
<1>14. CASE UNCHANGED all
  BY <1>1, <1>14 DEF all, app, screen
<1> QED
  BY <1>2, <1>3, <1>4, <1>5, <1>6, <1>7, <1>8, <1>9, <1>10, <1>11, <1>12, <1>13, <1>14
     DEF AppNext, Program

-----------------------------------------------------------------------------
(* Screen, amplifier and call                                               *)

\* Where the main task is inside the user agent, and what its screen is there.
Where ==
  /\ at = "register" => pc \in {"registering", "refreshing"}
  /\ at = "place" => pc = "dialling"
  /\ at = "recv" => pc = "poll"
  /\ pc \in {"boot", "registering"} => ui = "Idle"
  /\ pc = "dialling" => ui \in {"Idle", "Dialing"}
  /\ pc = "ended" => ui = "InCall"

\* The amplifier is on with the call screen and with no other.
Amp == amp = (ui = "InCall")

\* The incoming screen is of the call that rings, or of one that has just gone.
Announced ==
  /\ ui = "Incoming" /\ pc = "poll" => state = "Ringing"
  /\ ui = "Incoming" /\ state = "Ringing" => panel = Screen("Incoming Call", dialog.peerExt)
  /\ pc = "switch" /\ ui \notin {"Incoming", "InCall"} => state # "Ringing"

\* The call screen names the party of the call, and so does the dialling screen
\* of a call that comes up on it.
Named ==
  /\ ui = "InCall" /\ state = "InCall" => panel.who = dialog.peerExt
  /\ pc = "dialling" /\ at = "place" => panel.who = dialog.peerExt
  /\ pc = "dialling" /\ at = "api" /\ ret =>
       state = "InCall" /\ mediaTarget # None /\ panel.who = dialog.peerExt

\* A phone that is off has no call.
Dark == pc = "off" => at = "api" /\ ui = "ConfirmOff" /\ state = "Idle" /\ ~mediaActive

LoopInv == Where /\ Amp /\ Announced /\ Named /\ Dark

AppInv == IInv /\ NumbersInv /\ LoopInv

\* The loop leaves the user agent alone.
LEMMA LoopAlone ==
  ASSUME AppInv,
         \/ BootDone \/ Refreshed \/ NotDue \/ Key \/ Ignored \/ AskPowerOff \/ KeepOn
         \/ FirstDigit \/ NextDigit \/ Erase \/ DialDone \/ CallerGaveUp \/ NoHangup
  PROVE  LoopInv'
<1> USE DEF AppInv, LoopInv, Where, Amp, Announced, Named, Dark, Show, Screen, Enters, Goto, Switch
<1>0. UNCHANGED <<at, state, dialog, mediaActive, mediaTarget, ret>>
  BY DEF BootDone, LoadLastDialled, Refreshed, NotDue, Key, Ignored, AskPowerOff, KeepOn,
         FirstDigit, NextDigit, Erase, DialDone, CallerGaveUp, NoHangup, vars, media
<1>1. CASE BootDone \/ Refreshed \/ NotDue
  BY <1>0, <1>1 DEF BootDone, LoadLastDialled, Refreshed, NotDue, screen
<1>2. CASE Key
  BY <1>0, <1>2 DEF Key, Preempts
<1>3. CASE Ignored \/ AskPowerOff \/ KeepOn \/ FirstDigit \/ NextDigit \/ Erase
  BY <1>0, <1>3 DEF Ignored, AskPowerOff, KeepOn, FirstDigit, NextDigit, Erase, screen
<1>4. CASE DialDone
  <2>1. pc = "dialling" /\ pc' = "poll" /\ at = "api" /\ ~amp /\ ui # "InCall"
    BY <1>4 DEF DialDone
  <2>2. CASE ret
    <3>1. amp' = TRUE /\ ui' = "InCall" /\ panel' = Screen("In Call", panel.who)
      BY ONLY <1>4, <2>2 DEF DialDone, Enters, Show
    <3>2. panel'.who = panel.who
      BY ONLY <3>1 DEF Screen
    <3> QED BY <1>0, <2>1, <2>2, <3>1, <3>2
  <2>3. CASE ~ret
    <3>1. amp' = amp /\ ui' = "Idle"
      BY <1>4, <2>3 DEF DialDone
    <3> QED BY <1>0, <2>1, <3>1
  <2> QED BY <2>2, <2>3
<1>5. CASE CallerGaveUp \/ NoHangup
  BY <1>0, <1>5 DEF CallerGaveUp, NoHangup, screen
<1> QED BY <1>1, <1>2, <1>3, <1>4, <1>5

\* The loop calls registerExt(), poll() and placeCall(), and comes back from them.
LEMMA LoopBlocks ==
  ASSUME AppInv, BootRegister \/ Registers \/ Refresh \/ Poll \/ Drain \/ Dials \/ Rings
  PROVE  LoopInv'
<1> USE DEF AppInv, LoopInv, Where, Amp, Announced, Named, Dark, Goto
<1>1. CASE BootRegister \/ Registers \/ Refresh
  <2>1. UNCHANGED <<state, dialog, mediaActive, mediaTarget>>
    BY <1>1, RegisterCalls DEF BootRegister, Registers, Refresh
  <2>2. CASE BootRegister \/ Refresh
    BY <2>1, <2>2, RegisterCalls DEF BootRegister, Refresh, screen
  <2>3. CASE Registers
    BY <2>1, <2>3, RegisterCalls DEF Registers, app, screen
  <2> QED BY <1>1, <2>2, <2>3
<1>2. CASE Poll
  <2>1. Tick /\ pc = "poll" /\ UNCHANGED <<pc, ui, amp, panel>>
    BY <1>2 DEF Poll, InPoll, screen
  <2>2. at' = "recv" /\ (state' = "Ringing" <=> state = "Ringing")
    BY <2>1, PollCalls
  <2>3. ui = "Incoming" => state = "Ringing" /\ panel = Screen("Incoming Call", dialog.peerExt)
    BY <2>1
  <2>4. state' = "Ringing" => dialog' = dialog
    BY <2>1, <2>2, PollCalls
  <2>5. state' = "InCall" => state = "InCall" /\ dialog'.peerExt = dialog.peerExt
    BY <2>1, PollCalls
  <2> QED BY <2>1, <2>2, <2>3, <2>4, <2>5
<1>3. CASE Drain
  <2>1. Recv /\ pc = "poll" /\ pc' = "maintain" /\ UNCHANGED <<ui, amp, panel>>
    BY <1>3 DEF Drain, screen
  <2>2. at' = "api"
    BY <2>1, PollCalls
  <2>3. ui = "Incoming" => state = "Ringing" /\ panel = Screen("Incoming Call", dialog.peerExt)
    BY <2>1
  <2>4. state = "Ringing" /\ state' = "Ringing" => dialog' = dialog
    BY <2>1, PollCalls
  <2>5. state' = "InCall" => state = "InCall" /\ dialog'.peerExt = dialog.peerExt
    BY <2>1, PollCalls
  <2> QED BY <2>1, <2>2, <2>3, <2>4, <2>5
<1>4. CASE Dials
  <2>1. /\ pc = "switch" /\ pc' = "dialling" /\ ui \in {"Idle", "Dialing"}
        /\ UNCHANGED <<ui, amp>> /\ panel' = Screen("Calling...", Dialled(Target))
    BY <1>4 DEF Dials, Show
  <2>2. panel'.who = Dialled(Target)
    BY <2>1 DEF Screen
  <2>3. ASSUME NEW c \in LocalId, PlaceCall(Target, c)
        PROVE  at' = "place" /\ dialog'.peerExt = Dialled(Target)
    BY <2>3 DEF PlaceCall, Enter, NoDialog
  <2>4. PlaceCallBusy => at' = "api" /\ ret' = FALSE
    BY DEF PlaceCallBusy, Return
  <2>5. (at' = "place" /\ dialog'.peerExt = Dialled(Target)) \/ (at' = "api" /\ ret' = FALSE)
    <3>1. (\E c \in LocalId : PlaceCall(Target, c)) \/ PlaceCallBusy
      BY ONLY <1>4 DEF Dials
    <3> QED BY ONLY <3>1, <2>3, <2>4
  <2> QED BY <2>1, <2>2, <2>5
<1>5. CASE Rings
  <2>1. Placing /\ pc = "dialling" /\ UNCHANGED <<pc, ui, amp, panel>>
    BY <1>5 DEF Rings, app, screen
  <2>2. /\ at = "place" /\ at' \in {"place", "api"}
        /\ dialog'.peerExt = dialog.peerExt
        /\ at' = "api" /\ ret' => state' = "InCall" /\ mediaTarget' # None
    BY <2>1, PlaceCalls
  <2> QED BY <2>1, <2>2
<1> QED BY <1>1, <1>2, <1>3, <1>4, <1>5

\* The operations that return at once: answer(), reject(), hangup(), callEnded(),
\* power_off(), and a reset.
LEMMA LoopEnds ==
  ASSUME AppInv, AnswerKey \/ RejectKey \/ HangupKey \/ WatchCall \/ PowerOff \/ Reset
  PROVE  LoopInv'
<1> USE DEF AppInv, LoopInv, Where, Amp, Announced, Named, Dark, Goto, Switch, Enters, Show
<1>1. CASE AnswerKey
  <2>1. /\ Answer /\ pc = "switch" /\ pc' = "poll" /\ ui' = "InCall" /\ amp' = TRUE
        /\ panel' = Screen("In Call", dialog'.peerExt)
    BY <1>1 DEF AnswerKey
  <2>2. at' = "api"
    BY <2>1 DEF Answer, Api
  <2>3. panel'.who = dialog'.peerExt
    BY <2>1 DEF Screen
  <2> QED BY <2>1, <2>2, <2>3
<1>2. CASE RejectKey
  <2>1. Reject /\ pc = "switch" /\ pc' = "poll" /\ ui = "Incoming" /\ ui' = "Idle" /\ amp' = amp
    BY <1>2 DEF RejectKey
  <2>2. at' = "api"
    BY <2>1 DEF Reject, Api
  <2> QED BY <2>1, <2>2
<1>3. CASE HangupKey
  <2>1. Hangup /\ pc' = "ended" /\ ui = "InCall" /\ UNCHANGED <<ui, amp, panel>>
    BY <1>3 DEF HangupKey, screen
  <2>2. at' = "api"
    BY <2>1 DEF Hangup, Api
  <2>3. state' = "InCall" => dialog' = dialog /\ state = "InCall"
    BY <2>1 DEF Hangup, GiveUp, DeclineRinging
  <2> QED BY <2>1, <2>2, <2>3
<1>4. CASE WatchCall
  <2>1. /\ CallEnded /\ pc = "ended" /\ pc' = "poll" /\ ui = "InCall"
        /\ \/ ui' = "Idle" /\ amp' = FALSE
           \/ UNCHANGED <<ui, amp, panel>>
    BY <1>4 DEF WatchCall, screen
  <2>2. at' = "api" /\ UNCHANGED <<state, dialog>>
    BY <2>1 DEF CallEnded, Api
  <2> QED BY <2>1, <2>2
<1>5. CASE PowerOff
  <2>1. /\ pc = "switch" /\ pc' = "off" /\ ui = "ConfirmOff" /\ ui' = ui /\ amp' = FALSE
        /\ IF state = "InCall" THEN Hangup ELSE UNCHANGED vars
    BY <1>5 DEF PowerOff
  <2>2. at = "api" /\ state \in {"Idle", "InCall"}
    BY <2>1 DEF IInv, TypeOK, CallInv, CallingIsInsidePlaceCall
  <2>3. CASE state = "InCall"
    <3>1. at' = "api" /\ state' = "Idle" /\ mediaActive' = FALSE
      BY <2>1, <2>3, <2>2 DEF Hangup, Api, GiveUp, ResetDialog, RetireMediaTarget
    <3> QED BY <2>1, <3>1
  <2>4. CASE state = "Idle"
    <3>1. ~mediaActive
      BY <2>4 DEF IInv, CallInv, DialogOfState
    <3>2. at' = "api" /\ state' = "Idle" /\ ~mediaActive'
      BY <2>1, <2>2, <2>4, <3>1 DEF vars, media
    <3> QED BY <2>1, <3>2
  <2> QED BY <2>2, <2>3, <2>4
<1>6. CASE Reset
  BY <1>6 DEF Reset
<1> QED BY <1>1, <1>2, <1>3, <1>4, <1>5, <1>6

\* Every step keeps what holds between the loop and the user agent.
LEMMA LoopStep == ASSUME AppInv, [AppNext]_all PROVE LoopInv'
<1>1. CASE (\E k \in Digit \cup {"ENT", "DEL"} : PressKey(k)) \/ UNCHANGED all
  <2>1. UNCHANGED <<at, state, dialog, mediaActive, mediaTarget, ret, pc, ui, amp, panel>>
    BY <1>1 DEF PressKey, all, app, screen, vars, media, loop
  <2> QED BY <2>1 DEF AppInv, LoopInv, Where, Amp, Announced, Named, Dark
<1> QED BY <1>1, LoopAlone, LoopBlocks, LoopEnds DEF AppNext, Program

-----------------------------------------------------------------------------
(* Theorems                                                                 *)

\* At boot there is no call, no key, and no number but the stored one.
LEMMA InitApp == AppInit => AppInv
<1> SUFFICES ASSUME AppInit PROVE AppInv
  OBVIOUS
<1>1. IInv
  BY InitInv DEF AppInit
<1>2. NumbersInv
  BY DialAssumption, EmptySeq DEF AppInit, Boot, NumbersInv
<1>3. LoopInv
  BY DEF AppInit, Init, Boot, Screen, LoopInv, Where, Amp, Announced, Named, Dark
<1> QED BY <1>1, <1>2, <1>3 DEF AppInv

\* The program keeps its invariant: through every pass of the loop, every
\* blocking call and every reset, in every order of keys and datagrams.
THEOREM LoopInvariance == AppSpec => []AppInv
<1>1. AppInv /\ [AppNext]_all => AppInv'
  BY UacKept, NumbersStep, LoopStep DEF AppInv
<1> QED BY <1>1, InitApp, PTL DEF AppSpec

\* The user agent keeps its own invariant under the loop: app_main() calls its
\* operations only as they allow to be called, and a reset is a fresh start.
THEOREM UserAgentKept == AppSpec => [](MediaIsOfTheCall /\ RetransmittedOkIsOfTheCall)
<1>1. AppInv => MediaIsOfTheCall /\ RetransmittedOkIsOfTheCall
  BY DEF AppInv, IInv, CallInv, MediaIsOfTheCall
<1> QED BY <1>1, LoopInvariance, PTL

\* At the top of the loop the amplifier is on exactly when the screen says there
\* is a call.
THEOREM AmpFollows == AppSpec => []AmpFollowsUi
<1>1. AppInv => AmpFollowsUi
  BY DEF AppInv, LoopInv, Amp, AmpFollowsUi
<1> QED BY <1>1, LoopInvariance, PTL

\* The panel names the party of the call it shows.
THEOREM PanelIsTrue == AppSpec => []PanelNamesTheParty
<1>1. AppInv => PanelNamesTheParty
  <2> SUFFICES ASSUME AppInv, pc = "poll", at = "api",
                      \/ ui = "Incoming" /\ state = "Ringing"
                      \/ ui = "InCall" /\ state = "InCall"
               PROVE  panel.who = dialog.peerExt
    BY DEF PanelNamesTheParty
  <2>1. CASE ui = "Incoming" /\ state = "Ringing"
    <3>1. panel = Screen("Incoming Call", dialog.peerExt)
      BY <2>1 DEF AppInv, LoopInv, Announced
    <3> QED BY ONLY <3>1 DEF Screen
  <2>2. CASE ui = "InCall" /\ state = "InCall"
    BY <2>2 DEF AppInv, LoopInv, Named
  <2> QED BY <2>1, <2>2
<1> QED BY <1>1, LoopInvariance, PTL

\* A phone that switches itself off has left every call and is silent.
THEOREM OffIsOff == AppSpec => []OffLeavesNoCall
<1>1. AppInv => OffLeavesNoCall
  BY DEF AppInv, LoopInv, Amp, Dark, OffLeavesNoCall, Where
<1> QED BY <1>1, LoopInvariance, PTL

\* ENT answers only the call the panel was told to announce.
THEOREM AnswersAnnounced == AppSpec => AnswersTheCallAnnounced
<1> DEFINE A == state = "Ringing" /\ state' = "InCall" =>
                  panel = Screen("Incoming Call", dialog.peerExt)
<1>1. AppInv /\ [AppNext]_all => [A]_all
  <2> SUFFICES ASSUME AppInv, AppNext, state = "Ringing", state' = "InCall"
               PROVE  panel = Screen("Incoming Call", dialog.peerExt)
    OBVIOUS
  <2>1. CASE BootRegister \/ Registers \/ Refresh
    BY <2>1, RegisterCalls DEF BootRegister, Registers, Refresh
  <2>2. CASE Poll \/ Drain
    BY <2>2, PollCalls DEF Poll, Drain, AppInv
  <2>3. CASE Dials
    <3>1. (\E c \in LocalId : PlaceCall(Target, c)) \/ PlaceCallBusy
      BY <2>3 DEF Dials
    <3> QED BY <3>1 DEF PlaceCall, PlaceCallBusy
  <2>4. CASE Rings
    BY <2>4, PlaceCalls DEF Rings, AppInv, IInv, CallInv, CallingIsInsidePlaceCall
  <2>5. CASE AnswerKey
    BY <2>5 DEF AnswerKey, Switch, Goto, AppInv, LoopInv, Announced
  <2>6. CASE RejectKey \/ HangupKey \/ WatchCall \/ PowerOff \/ Reset
    BY <2>6 DEF RejectKey, Reject, DeclineRinging, HangupKey, Hangup, GiveUp, WatchCall, CallEnded,
       PowerOff, Reset, vars
  <2>7. CASE \/ BootDone \/ Refreshed \/ NotDue \/ Key \/ Ignored \/ AskPowerOff \/ KeepOn
             \/ FirstDigit \/ NextDigit \/ Erase \/ DialDone \/ CallerGaveUp \/ NoHangup
    BY <2>7 DEF BootDone, LoadLastDialled, Refreshed, NotDue, Key, Ignored, AskPowerOff, KeepOn,
       FirstDigit, NextDigit, Erase, DialDone, CallerGaveUp, NoHangup, vars
  <2>8. CASE \E k \in Digit \cup {"ENT", "DEL"} : PressKey(k)
    BY <2>8 DEF PressKey, vars
  <2> QED BY <2>1, <2>2, <2>3, <2>4, <2>5, <2>6, <2>7, <2>8 DEF AppNext, Program
<1> QED BY <1>1, LoopInvariance, PTL DEF AppSpec, AnswersTheCallAnnounced

\* What a reboot will redial is a number that has just connected.
THEOREM RemembersConnected == AppSpec => RemembersConnectedNumbers
<1> DEFINE A == nvs' # nvs =>
                  /\ state = "InCall" /\ mediaTarget # None
                  /\ dialog.peerExt = Dialled(nvs')
<1>1. AppInv /\ [AppNext]_all => [A]_all
  <2> SUFFICES ASSUME AppInv, AppNext, nvs' # nvs
               PROVE  /\ state = "InCall" /\ mediaTarget # None
                      /\ dialog.peerExt = Dialled(nvs')
    OBVIOUS
  <2>1. DialDone
    BY DEF AppNext, Program, BootRegister, Registers, BootDone, Poll, InPoll, Drain, Refresh, Refreshed,
       NotDue, Key, Ignored, AskPowerOff, KeepOn, FirstDigit, NextDigit, Erase, Dials, Rings, AnswerKey,
       RejectKey, CallerGaveUp, HangupKey, NoHangup, WatchCall, PowerOff, Reset, PressKey, app, numbers
  <2>2. pc = "dialling" /\ at = "api" /\ ret /\ nvs' = panel.who.of
    BY <2>1 DEF DialDone, Goto, Remember
  <2>3. state = "InCall" /\ mediaTarget # None /\ panel.who = dialog.peerExt
    BY <2>2 DEF AppInv, LoopInv, Named
  <2>4. PICK n \in Number : panel.who = Dialled(n)
    BY <2>2 DEF AppInv, NumbersInv
  <2>5. panel.who.of = n
    BY <2>4 DEF Dialled
  <2> QED BY <2>2, <2>3, <2>4, <2>5
<1> QED BY <1>1, LoopInvariance, PTL DEF AppSpec, RemembersConnectedNumbers

\* The rest of the types: where the task is, and what screen it has posted.
Screens ==
  /\ pc \in {"boot", "registering", "poll", "maintain", "refreshing", "key",
             "switch", "dialling", "ended", "off"}
  /\ ui \in {"Idle", "Dialing", "Incoming", "InCall", "ConfirmOff"}
  /\ panel.who \in Peer \cup {None, Dialled(<<>>)}

\* A screen names nobody, a number typed, or the party of the call.
LEMMA ScreensStep == ASSUME AppInv, AppInv', Screens, [AppNext]_all PROVE Screens'
<1> DEFINE Who == Peer \cup {None, Dialled(<<>>)}
<1> USE DEF Screens, Goto, Switch, Enters, Show
<1>a. \A status, who : Screen(status, who).who = who
  BY DEF Screen
<1>0. /\ panel.who \in Who
      /\ dialog.peerExt \in Who /\ dialog'.peerExt \in Who
      /\ \A n \in Number \cup {<<>>} : Dialled(n) \in Who
      /\ dialBuffer' \in Number \cup {<<>>} /\ None \in Who
  BY DEF AppInv, IInv, TypeOK, Dialogs, NumbersInv, Dialled, Peer
<1> HIDE DEF Who
<1>1. CASE BootRegister \/ BootDone \/ Refresh \/ Refreshed \/ NotDue \/ Drain
  <2>1. CASE BootRegister \/ Refresh \/ NotDue \/ Drain
    BY <1>0, <2>1 DEF BootRegister, Refresh, NotDue, Drain, screen
  <2>2. CASE BootDone \/ Refreshed
    BY <1>0, <1>a, <2>2 DEF BootDone, LoadLastDialled, Refreshed
  <2> QED BY <1>1, <2>1, <2>2
<1>2. CASE Registers \/ Rings \/ Poll
  BY <1>0, <1>a, <1>2 DEF Registers, Rings, Poll, InPoll, app, screen
<1>3. CASE Key \/ Ignored \/ AskPowerOff \/ KeepOn
  <2>1. CASE Key
    <3>1. pc' = "switch"
      BY ONLY <2>1 DEF Key, Goto
    <3>2. CASE Preempts
      <4>1. ui' = "Incoming" /\ panel' = Screen("Incoming Call", dialog.peerExt)
        BY ONLY <2>1, <3>2 DEF Key, Show
      <4> QED BY <3>1, <4>1, <1>0, <1>a DEF Who
    <3>3. CASE ~Preempts
      <4>1. ui' = ui /\ panel' = panel
        BY ONLY <2>1, <3>3 DEF Key
      <4> QED BY <3>1, <4>1
    <3> QED BY ONLY <3>2, <3>3
  <2>2. CASE Ignored
    <3>1. pc' = "poll" /\ ui' = ui /\ panel' = panel
      BY ONLY <2>2 DEF Ignored, Goto, screen
    <3> QED BY <3>1
  <2>3. CASE AskPowerOff \/ KeepOn
    <3>1. pc' = "poll" /\ ui' \in {"Idle", "ConfirmOff"} /\ panel'.who = None
      BY ONLY <2>3, <1>a DEF AskPowerOff, KeepOn, Switch, Goto, Enters, Show
    <3> QED BY ONLY <3>1 DEF Screens
  <2> QED BY ONLY <1>3, <2>1, <2>2, <2>3
<1>4. CASE FirstDigit \/ NextDigit \/ Erase
  BY <1>0, <1>a, <1>4 DEF FirstDigit, NextDigit, Erase, Who
<1>5. CASE Dials
  <2>1. Target \in Number \cup {<<>>}
    BY DEF Target, AppInv, NumbersInv
  <2> QED BY <1>0, <1>a, <1>5, <2>1 DEF Dials, Who
<1>6. CASE DialDone
  <2>1. pc' = "poll" /\ ui' \in {"InCall", "Idle"} /\ panel'.who = panel.who
    <3>1. pc' = "poll"
      BY <1>6 DEF DialDone
    <3>2. CASE ret
      <4>1. ui' = "InCall" /\ panel' = Screen("In Call", panel.who)
        BY ONLY <1>6, <3>2 DEF DialDone, Enters, Show
      <4> QED BY ONLY <3>1, <4>1, <1>a
    <3>3. CASE ~ret
      <4>1. ui' = "Idle" /\ panel' = Screen("Call Failed", panel.who)
        BY ONLY <1>6, <3>3 DEF DialDone, Enters, Show
      <4> QED BY ONLY <3>1, <4>1, <1>a
    <3> QED BY <3>2, <3>3
  <2> QED BY <1>0, <2>1
<1>7. CASE AnswerKey \/ RejectKey \/ CallerGaveUp
  <2>1. CASE AnswerKey
    <3>1. pc' = "poll" /\ ui' = "InCall" /\ panel' = Screen("In Call", dialog'.peerExt)
      BY ONLY <2>1 DEF AnswerKey, Switch, Goto, Enters, Show
    <3> QED BY ONLY <3>1, <1>0, <1>a DEF Who, Screens
  <2>2. CASE RejectKey \/ CallerGaveUp
    <3>1. pc' = "poll" /\ ui' = "Idle" /\ panel' = Screen("Idle", None)
      BY ONLY <2>2 DEF RejectKey, CallerGaveUp, Switch, Goto, Enters, Show
    <3> QED BY ONLY <3>1, <1>0, <1>a DEF Who, Screens
  <2> QED BY <1>7, <2>1, <2>2
<1>8. CASE HangupKey \/ NoHangup \/ WatchCall \/ PowerOff
  <2>1. CASE HangupKey \/ NoHangup
    BY <1>0, <2>1 DEF HangupKey, NoHangup, screen
  <2>2. CASE WatchCall
    BY <1>0, <1>a, <2>2 DEF WatchCall, screen
  <2>3. CASE PowerOff
    BY <1>0, <1>a, <2>3 DEF PowerOff
  <2> QED BY <1>8, <2>1, <2>2, <2>3
<1>9. CASE Reset \/ (\E k \in Digit \cup {"ENT", "DEL"} : PressKey(k)) \/ UNCHANGED all
  BY <1>0, <1>a, <1>9 DEF Reset, PressKey, all, app, screen, Who
<1> QED BY <1>1, <1>2, <1>3, <1>4, <1>5, <1>6, <1>7, <1>8, <1>9 DEF AppNext, Program

\* Every variable of the loop keeps its type, the dial buffer and the key queue
\* their size.
THEOREM AppTypes == AppSpec => []AppTypeOK
<1>1. AppInit => Screens
  BY DEF AppInit, Boot, Screens, Screen
<1>2. AppInv /\ AppInv' /\ Screens /\ [AppNext]_all => Screens'
  BY ScreensStep
<1>3. AppInv /\ Screens => AppTypeOK
  BY DEF AppInv, LoopInv, NumbersInv, Amp, Screens, AppTypeOK
<1> QED BY <1>1, <1>2, <1>3, LoopInvariance, PTL DEF AppSpec
=============================================================================
