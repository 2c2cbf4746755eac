# Verification of the T-Deck MAX SIP phone

TLA+ models of the firmware in `src/`, the configurations that TLC checks on
small instances, and proofs that TLAPS checks for every instance. The firmware
is a SIP extension of a PBX on the local network (drawbridge, which routes on
to 3CX): it registers, dials, rings, answers, and carries G.711 over RTP.

Contents: 1 the system, 2 the modules, 3 the checks, 4 fairness, 5 bounds,
6 proofs, 7 what the checks found, 8 what is not modelled, 9 the plan.

## 1. The system

### Tasks

| Task | Runs | Shares |
|---|---|---|
| main (`app_main`) | the bring-up, then the control loop, every 20 ms: `poll`, `maintainRegistration`, one key, the UI state machine | drives every operation of `TincanUac` but three, and every driver but the display; owns UI state, dial buffer, redial number |
| audio (`audio_task`, core 1, priority 6) | one 20 ms frame per pass, paced by the blocking microphone read | reads `_state`, `_mediaActive` and the media endpoint; writes the RTP sequence, timestamp and counters |
| epaper (`epaper_task`, priority 3) | one full refresh per screen, about 3.3 s | a render queue of one place, overwritten by main |

There is no lock anywhere: main and audio meet in one atomic flag and a few
plain words, main and epaper in the queue.

### Components

For each: state; operations; interactions; what is hard; what makes it correct.

**SIP user agent** (`tincan_uac.cpp`, `tincan_uac.hpp`).
State: `_state` (Idle, Calling, Ringing, InCall; `Ending` is never entered), the
dialog strings, `_awaitingAck` and `_pendingOk`, the media endpoint and its flag,
`_callEndedPending`.
Operations: `placeCall`, which blocks in a loop of 500 ms receives; `poll`
(retransmission tick, then one datagram dispatched to five handlers), `answer`,
`reject`, `hangup`, `callEnded`.
Interactions: called by main only; sends datagrams to the PBX.
Hard: datagrams are lost, repeated, late and foreign; blocking operations
swallow requests; each end of a call must undo all of dialog, media and
retransmission.
Correct when: the fields always describe one call; nothing of a call outlives
it; each offer and each call is concluded towards its peer; the two ends agree.

**Registration** (`registerExt`, `maintainRegistration`, the answer to OPTIONS).
State: `_nextRegisterUs`; at the registrar, the binding.
Operations: register at boot, refresh after half the lifetime, retry after 60 s,
deferral while a call is up.
Hard: a refresh waits for the call to end; probes that arrive inside
`placeCall()` are dropped and the binding is pruned; any 200 counts as success.
Correct when: an idle phone is bound, soon after any trouble.

**Main loop and user interface** (`app_main.cpp`).
State: `ui` (Idle, Dialing, Incoming, InCall, ConfirmOff), dial buffer, last
number and its copy in flash, amplifier, screen posted.
Operations: one pass of the loop; `placeCallTo`; `power_off`.
Interactions: calls the user agent, reads keys, posts screens, stores the number.
Hard: screen and call are two state machines that meet once per pass; keys
queue while a call is being placed; a reset can come at any step.
Correct when: what screen, amplifier and flash say of the call is true, and
every ringing or dead call reaches the screen.

**Bring-up and power off** (`try_init`, `app_main` up to its loop, `power_off`;
`xl9555.c`, `tca8418_keypad.cpp`, `es8311_audio.c`, `pmu_sy6970.c`).
State: output shadows of the expander against its registers, `s_init_failed`, the
codec handle, the controller's event queue.
Hard: one I2C bus, every transfer of which may fail, with errors ignored on most
output writes; chips that keep their registers over a reset of the processor;
events queued before the phone ran, or lost when the queue is full.
Correct when: no rail drops while the phone runs, a boot that reports no failure
had none that matters, and a key press is read once, in order, and is of now.

**Audio task and media path** (`audio_task`; `sendAudioFrame`, `recvAudioFrame`,
`flushRtpBacklog`, `publishMediaTarget`, `retireMediaTarget`).
State: the flag, the endpoint words, stream identifiers, counters; the task's
`pumping`, ducking and census accumulators.
Hard: unlocked sharing between two cores; what queues in the RTP socket
between and before calls.
Correct when: a frame belongs to one call, the census counts this call, no
backlog is played, an armed call is heard.

**G.711, gains** (`g711.c`, the sample arithmetic of `audio_task`). No state. Hard:
the edges of the 16-bit range. Correct when: decoding inverts encoding up to
quantisation, louder stays louder, and no gain wraps.

**SIP parser** (`components/sip_core`). No state between messages. Hard: input of
any form. Correct when: type, Call-ID, tags and SDP endpoint are those of the
message.

**E-paper display** (`epaper_display.cpp`). State: frame buffer and its shadow.
Operations: render a screen, full refresh, sleep. Hard: three seconds per
screen against a loop of 20 ms; a refresh that fails after the shadow was
updated; power off during a refresh. Correct when: the last screen posted is
shown in the end, also when the phone goes off.

**RTP header, Wi-Fi, constants, host test** (`rtp.h`, `net_wifi.c`, `poc_config.h`,
`sip_wire_test.cpp`), and the **audio anchor files**, which
`main/CMakeLists.txt` leaves out of the firmware: see 8.

The hazards, each at its line and with the properties that cover it, are in
`PROJECT.json`.

## 2. The modules

```
CallLine <-- implemented by -- TincanUac <-- extended by -- AppMain, MCAppMain
                                  ^
                                  +------- extended by -- SipDialog
VoicePath <-- implemented by -- TincanUac, MediaPath
Registration
Expander, Keypad <-- composed by -- Board, MCBoard
AudioMath, SdpOffer <-- run by -- Voice
EpaperRender

proofs: TincanUac_proofs <-- AppMain_proofs, SipDialog_proofs; MediaPath_proofs;
        Registration_proofs; Board_proofs; EpaperRender_proofs; Voice_proofs
```

### TincanUac: the user agent, as its control thread sees it

| Code | Model |
|---|---|
| `_state` | `state` |
| the dialog strings, `_remoteRtp*`, `_awaitingAck`, `_pendingOk` | the record `dialog`; `NoDialog` is what `resetDialog()` leaves |
| `_mediaActive`, `_mediaIpBe`/`_mediaPortBe` | `mediaActive`, `mediaTarget` |
| `_nextRegisterUs # 0` | `everRegistered` |
| the loop of a blocking operation | `at`, `attempt`, `answered` |
| a value returned, the messages of a step | `ret`, `out` |

Each public operation is an action; each handler of `poll()` is an action that
does all its handler does. `registerExt()` and `placeCall()` are one step per
attempt, with the resend schedule; `poll()` is two steps, tick and receive.
The network is an environment without memory: every receive may yield any
datagram of any Call-ID, in any order, any number of times, or nothing. That is
weaker than any real network and PBX, so what holds here holds with them.
What the PBX believes is the subject of `SipDialog`.

Abstractions. A Call-ID stands for the identifiers generated or received with
it (tags, Via, CSeq): the code compares Call-IDs only. An endpoint is one value:
`learnRemoteMedia()` sets port and address together. Time is a choice: an
unacknowledged 200 OK is not due, due, or expired. Message texts are records of
what the properties compare. `Ending` has no value: no code assigns it.

### CallLine: what the user agent promises

One line, free, dialling, offered or connected; a connected call is the one
dialled or offered; its voice path is aimed once. `TincanUac!Line` is the
refinement mapping (`phase` from `state`, `call` from the Call-ID that the
state makes current, `voice` from the armed endpoint).

### SipDialog: the user agent against its PBX

Each step is a step of `TincanUac` together with what it takes from the network
and puts on it (`Alone`, `PhoneReads`), or a step of the PBX. `net` is a set of
datagrams: order is lost with it, `Transmit` loses any of what is sent, and
`PhoneReads` may leave what it reads to arrive again. The PBX (`leg`) is external:
an ordinary SIP peer that resends its INVITE, CANCEL, BYE and 200 until they are
answered, acknowledges, and gives up. Its 180s are not kept under way: what
`placeCall()` does with one is what it does with any other message it does not
look at. The endpoint in a message decides nothing here and is one fixed one
(`FarRtp`); that there is one is the module's assumption. Registration is left to
its own module.

A leg that has agreed and is over is "down"; one that never agreed, because it was
refused, rejected or given up, is "off", so that the two are not confused.

The phone has no transactions, so agreement has limits, and the properties name
them instead of leaving them out: `repeated` (an INVITE handled twice), `cutOff`
(the one BYE was lost, or a message of another call ended or established this
one), a remote tag of another call. Whoever removes a limitation from the code can drop the exception.

### Registration: the refresh schedule in time

A tick is the time the registrar waits for its probes. `nextRegister`, `binding`,
`dialFor` and `silence` count ticks. A registration is one step (6 s at most). The
registrar is external: it ends a binding with its lifetime, and prunes one
whose client missed its OPTIONS, as the comment at `tincan_uac.cpp:700` says.
`RefreshByMistake` is the refresh that took a late 200 for its own: that of a BYE,
or that of an INVITE `placeCall()` has abandoned (`lateOk`). One may be lost or read
at any tick.

### AppMain: the main loop over the user agent

`AppMain` EXTENDS `TincanUac` and uses its actions: each step of the loop that
calls the user agent is a conjunction of the loop's part and the operation's
action. `pc` is where the main task is; the cases of the switch are one action
per screen and key. `Reset` is power loss, or the end of deep sleep: everything
but flash is lost. Keys come at any time, up to the queue's length, also during
`placeCall()`. `ReadKey` may find nothing with presses queued: the event read
was a release or an unmapped key, or the bus failed. `Remember` stores to flash
or silently does not; `LoadLastDialled` reads it at boot or finds nothing. `panel` is the screen posted last, not the screen shown.

### Expander, Keypad, Board: the bring-up, the bus and power off

`Expander` is the XL9555 driver: a call changes the shadow and leaves its writes
in `writes`; `BusWrite` performs the next of them, or the bus loses it. `reg` is the
chip. `Keypad` is the TCA8418 driver: the chip queues a record for each press and
release once all four registers are written, drops what finds the queue full,
and forgets everything while its reset line, a pin of the expander, is low.
`Board` composes them: `stage` is where the main task is in the bring-up, the
loop, or `power_off()`, and moves only when `writes` is empty. `Reset` restarts
the processor and not the chips; `PowerKey` comes after a real power off and
restarts both. `got` is the last key
read, `stale` what the last drain promised to be rid of.

### MediaPath: control thread against audio task

The grain is one shared access per step. Calls are numbered, and each word (two
endpoint words, SSRC, counter, queued datagram) holds the number of the call
that wrote it. `stalls` is chosen at the start and separates two machines: FALSE
says that the audio task, alone at its priority on its core, leaves a frame
before the control thread has ended one call and set up another (20 ms loop
passes and a network round trip against microseconds); TRUE drops that. Two
variables are history: `sent`, the frames sent in this call, and `straddled`, that the
counters were reset while the task was between its send and its store (`Counting`). The
receive counter is written like the transmit counter and left out; the flush is
one step, its limit of 201 datagrams being above what the socket queues; words
are read and written whole. Its control thread is that of `TincanUac` reduced to
what it does to media. What the two must agree on is `VoicePath`.

### VoicePath: where the two halves meet

A line that carries a call, and a voice path that is that call's: aimed at most
once, at an endpoint, when the call is connected or later, and gone with it.
`TincanUac!Path` maps the line to the Call-ID of state InCall and the path to the
armed endpoint; publication is one step there. `MediaPath!Path` maps the line to the
number of the call from the step that enters it, or raises the flag if that comes
first, to `Retire` (`LineUp`), and the path to the two words as long as the flag is up
and the address is set; publication is four steps there, and only the store of the
flag shows.

### AudioMath, SdpOffer, Voice: the computations

`AudioMath` is the mu-law codec, the receive gain, the ducking and the level
measures, bit for bit: the code computes in `int`, so only the conversion back to
16 bits (`ToInt16`) can lose a value. `SdpOffer` is the SDP reader: a line is its
type and the value the code takes from it, and one turn of the loop of `parseSdp()`
is `ReadLine`. `Voice` makes both a state machine over the input (a sample; the
lines read so far, `body`, and what the reader holds of them, `sdp`) and states
what they must do: what a mu-law codec is for (within half a step, sign and order
kept, idempotent), and the rule of RFC 4566 for the address of a stream.

### EpaperRender: the screen, in time

`UiRender` is `ui_render()`: it overwrites the one place of the queue; `Show` is the
loop calling it. The render task (`rpc`) takes a screen and goes through `epd_full_refresh()`: panel
init, OLD_DATA (`told`), NEW_DATA and the shadow (`SendNew`), the refresh, sleep.
Each of the three waits for BUSY may end in time or time out after five seconds:
the first abandons the screen, the other two are not looked at. `left` counts the
wait down; a step that is ready runs before the next tick. `power_off()` is
`PowerOff`, 2500 ms, `Cut`; `Reset` may come at any moment. A screen is the number of
the post that made it; `glass` is what can be read, `Torn` after an interrupted
refresh. The shadow is white after every boot whatever the panel shows
(`epaper_display.cpp:274`), so `OldDataIsGlass` speaks of the time after the
first refresh, and of a panel that has answered so far.

`AppMain` posts screens to `panel`, this module shows them: the two are joined by
reading, the UI loop being one source of `Show` steps and `PowerOff` another. In
the same way `Board` switches the amplifier and gives a key whenever it is asked;
when it is asked is `AppMain`.

## 3. The checks

| Run | Shows |
|---|---|
| `uac` | types; media and retransmission are of the call that is up; every call is answered or ended towards its peer; refinement of `CallLine`, liveness included; blocking operations return |
| `dialog` | with loss, repetition and reordering, what phone and PBX believe of a call agrees, up to the named limits |
| `registration` | an idle phone is bound half a lifetime after the last trouble; only a long call lets a binding lapse; a phone once registered does not stay unreachable |
| `app_safety` | screen, amplifier, flash and call agree, with resets and early keys |
| `app_live` | ringing is shown, a dead call leaves the screen, a half-open call is given up |
| `board` | rails, boot report and keys, on a bus that loses any transfer, with restarts and the power key |
| `media` | no backlog, one late frame at most, an armed call is heard, an honest census; without stalls no mixture of two calls; refinement of `VoicePath` |
| `voice` | every sample and every offer of up to five lines |
| `epaper` | the newest screen is shown within two refreshes, none goes backwards, the panel is told what it shows |
| `uac_unset_endpoint`, `app_stranded_call`, `epaper_off` | each finds a statement of the sources violated, see 7 |

Properties, in short:

- `MediaIsOfTheCall`: the audio task is armed for this call, on this call's
  endpoint, and a call without media is a delayed offer still without one
  (issue 48). `RetransmittedOkIsOfTheCall`: retransmission and give-up never hit
  another call. `RingingIsAnswered`: whatever ends ringing, the INVITE gets a final
  response. `CallEndIsSignalled`: whatever ends a call, a BYE goes to its far end, or
  the 200 to the BYE of that very call, unless a BYE of another call ended it
  (`EndedByAnotherCall`, `tincan_uac.cpp:646`); and the user is told, unless he hung
  up. `EndpointFrozenWhileArmed`. `LineSpec`. `BlockingCallsReturn`.
- `EstablishedIsAgreed`: a call the phone takes for established, the other end
  has agreed to, with the two exceptions of section 7. `NoGhostRing`: it does not ring for a caller who is gone.
  `FarEndIsTold`: a far end alone in a call has a BYE coming.
- `RecoversInTime`, `LapseNeedsLongCall`, `RegistrationHeals`.
- `AmpFollowsUi`, `PanelNamesTheParty`, `OffLeavesNoCall`,
  `AnswersTheCallAnnounced`, `RemembersConnectedNumbers`; `RingingIsShown`,
  `CallScreenEnds`, `HalfOpenCallResolves`.
- `PortsStayWhole`, `BootTellsFailures`, `KeysOnceInOrder`, `NoStaleKey`.
- `FrameIsOfOneCall`: no frame mixes two calls, on a board where the audio task
  does not stall. `CensusIsOfThisCall`: no frame is counted in the next call, unless
  the task stalls in its count and the reset comes just there. `BacklogIsFlushed`, for
  a call whose beginning the task has seen. `AtMostOneLateFrame`. `ArmedCallSpeaks`,
  except when armed without an endpoint (7, the first).
- `VoiceIsFaithful`. `EndpointIsOffered`: for one stream, where a c= line of its own
  wins over that of the session, also one without an address, which gives none.
- `OldDataIsGlass`, `LagBounded`, `ScreensInOrder`, `NewestIsShown`.

Each has a mutant, a small change of a definition that breaks it; the mutants
stand before the definitions they replace and are listed in `PROJECT.json`.

## 4. Fairness

- `TincanUac!FairSpec`: the steps of the two blocking loops. Their socket has
  a receive timeout of 500 ms (`tincan_uac.cpp:124`), so each attempt ends.
  Nothing is assumed of callers, the PBX or the network.
- `AppMain!AppFairSpec`: weak fairness of the program as one. All its receives
  and delays are bounded, and no task outranks it for ever on its core. Strong
  fairness of `GivesUp`, the tick that finds the 32 s over: the deadline is set
  once, in `answer()`, the clock only grows, so every tick from some moment on
  finds it over; the abstract tick would otherwise resend for ever. No fairness
  of keys, resets or datagrams.
- `Registration!FairSpec`: the loop turns, `placeCall()` returns, time passes; and
  strong fairness of `RefreshOk`: of the refreshes that fall due one gets through
  in the end, the network not being dead for ever. That a call ends is the
  premise of `RegistrationHeals`, not an assumption.
- `MediaPath!FairSpec`: weak fairness of the control thread inside an operation
  and of the audio task; strong fairness of `MicFrame` and `SendTo`: a codec
  that works and a route to the peer, so that reads and sends do not fail for
  ever. Without it silence is the right outcome. No fairness of calls.
- `EpaperRender!FairSpec`: the render task runs when it can (nothing above it
  runs for ever: the audio task blocks in each frame, and the render task may
  use either core) and time goes on. None of posts, power off, resets or failures.

`dialog`, `board`, `voice` and `app_safety` check safety only.

## 5. Bounds

- `uac`: one Call-ID of the phone's own, two from outside (a call and a foreign
  or earlier one), two endpoints, 3 and 8 attempts for the code's 12 and 240,
  resend window 6 as in the code. Every attempt past the window behaves alike,
  so 8 reach them all. `placeCall()` may draw the same Call-ID again: that is
  the worst case for stale messages.
- `dialog`: one call placed and one received, three attempts within the resend
  window, three datagrams under way (`NetMax`). Two calls are what it takes for a
  message of one to meet the other, and each agreement is between two ends; a
  second received call (more than 14 million states) is out of reach. Loss is
  decided when a datagram is sent; only datagrams to the phone repeat, since
  what the PBX does with a repeated one is its own.
- `registration`: lifetime 12, retry 3, dialling 4, probes 2 ticks, in the order
  of the code's 3600, 60 and 120 s: several retries fit in the slack, dialling
  outlasts the probes. The proofs drop the bound.
- `app_*`: one Call-ID of each kind, one endpoint, one digit, and a dial buffer
  of 2 (two numbers; 1 for liveness) for the code's 20, one queued key. The
  caller's two possible names tell two incoming calls apart.
- `board`: two rails for the code's six (one raised while the other is still
  down), a queue of 2 events for the chip's 10 and a drain of the same length, two
  presses: enough for overflow, for a press whose release is lost, and for a key
  from before a restart. 6.8 million states.
- `media`: three calls (`Calls`), a socket queue of two, counters that stay at 2
  (`CountMax`). A mixture takes two calls; the relation of the counter to the
  frames sent is kept at the cap on both sides.
- `voice`: all 65536 samples, the gains of the code (1019 and 16); offers of up to
  five lines over two addresses and the ports 0, 4000, 65535 and 65536: room for
  v=, a session's and a stream's c=, m=, and one line more. It stops when the
  inputs are used up.
- `epaper*`: a tick is 100 ms: 32 and 1 ticks for the 3277 ms measured
  (`src/docs/BENCH_TEST.md:101`), 50 and 25 for the code's 5000 and 2500. Three
  screens: one under way, one replaced in the queue, one that replaces it. `age` stops
  at `AgeMax`, past the bound it is compared with.
- `out` holds one step's messages; nothing else grows.

## 6. Proofs

All rest on the named assumptions about constants in the modules, and nothing
else; those say no more than that bounds are natural numbers, that sets of names
do not overlap, and how the times of the code are ordered.

`TincanUac_proofs`, for all sets of Call-IDs, endpoints and numbers and all
attempt bounds:

- `Invariance`: `IInv` holds always. The invariants checked are not inductive:
  that an ACK or a tick finds the media of the right call depends on what the
  state says of both Call-IDs. `DialogOfState` adds that: in a call the active
  Call-ID is the inbound one if there is one, while dialling it is one of the
  phone's own, only an inbound call may be unarmed. The proof has a lemma per
  operation, over lemmas for steps that leave the call alone (`Frame`), that
  reset it (`ResetsCall`) and that abandon dialling (`PlaceAbandoned`).
- `TypeCorrect`, `MediaSafety`, `RetransmissionSafety`, `CallingIsBlocking`
  follow; `RingingAnswered`, `CallEndSignalled`, `EndpointFrozen` are action
  properties proved step by step under the invariant.
- `ImplementsLine`: the user agent implements the safety part of `CallLine`.
- `AgentImplementsPath`: it implements `VoicePath`, by `PathStep`: under `IInv` a step
  of the line is a step of the path. That a call that is up has a Call-ID, and
  that no other state is armed, comes from `DialogOfState`.

`AppMain_proofs`, over those lemmas, for any digits, dial buffer and key queue:

- `LoopInvariance`: `AppInv` holds always: `IInv` of the user agent under the loop
  (every step of the loop is one of its steps, leaves it alone, or is a reset
  and so an initial state), `NumbersInv` of the numbers and keys held, `LoopInv`
  of the two together. `LoopInv` says where the main task is when it is inside the
  user agent (`Where`), that the amplifier is on with the call screen (`Amp`), that
  the incoming screen is of the call that rings or of one just gone (`Announced`:
  between two looks at it no other call can begin to ring, `PollCalls`), and whose
  name the call screen and the dialling screen carry (`Named`).
- From it: `UserAgentKept`, `AppTypes`, `AmpFollows`, `PanelIsTrue`, `OffIsOff`, and the
  action properties `AnswersAnnounced` and `RemembersConnected`: every safety
  property of `app_safety`. `OffIsOff` is where `power_off()` looking only at
  `inCall()` is shown to be enough: on the way to it a ringing call would have
  taken the screen, and Calling is not seen outside `placeCall()`.

`MediaPath_proofs`, for any number of calls, any queue length and any cap:

- `MediaTypeCorrect`, `LateFrames` and `BacklogFlushed`, stalls or none.
- `MediaIsolation`: if the audio task does not stall, `FrameIsOfOneCall`. The
  argument is `Undisturbed`: the control thread writes the words only with the flag
  down and no frame under way (`Exclusion`); so a raised flag finds them filled by
  the call that is up (`Filled`); so what a frame has read so far agrees with them
  (`FrameSoFar`). With stalls `Exclusion` fails, and with it this.
- `CensusOfTheCall`, stalls or none: an increment under way counts a frame that was
  sent in this call, or `straddled` says otherwise (`CountSoFar`). Without stalls
  `Exclusion` excludes a reset inside it. `MediaInv` is both together.
- `MemoryImplementsPath`: the control thread implements `VoicePath`, stalls or none.
  The invariant is `Written`: each word is written by the call under way, under a
  lowered flag, so that raising the flag shows the whole endpoint at once. With
  `AgentImplementsPath` both control threads are shown to keep the same promise
  about the path. That the reduced one does whatever the other can do to the path
  is still by reading: three ways to begin a call or to arm it, one way to end it.
  No run checks the types of this module; `MediaTypeCorrect` proves them.

`Registration_proofs`, for every lifetime, retry, dialling and pruning time:

- `RegInvariance`: either the refresh planned comes before the binding ends with
  half a lifetime to spare, or the last trouble is recent (`SlackInv`); what is
  missing from the slack was spent in the call that is on (`DeferralInv`).
- `Recovery` and `Lapse` read `RecoversInTime` and `LapseNeedsLongCall` off it: the
  slack the comment at `tincan_uac.cpp:465` relies on is there.

`Board_proofs`, for any rails, queue length, drain and number of presses:

- `RailsStand`: the shadow holds every rail from the bring-up on, so any write
  that arrives makes its port whole (`Standing`).
- `KeysInOrder` and `NoKeyFromBefore`: events queue in the order of the presses, and
  what is queued is later than what was read (`KeysInv`); a drain at least as long
  as the queue empties it (`Drainable`), unless a read fails.
- `BootIsHonest`: a boot without a failure so far has done all that lies behind it,
  and the writes that may still be under way then are for the other port (`Told`).

`SipDialog_proofs`, over the lemmas of `TincanUac_proofs`, for any number of calls
and any bound on the datagrams under way:

- `DialogInvariance`: `DialogInv` holds always. It relates what the phone holds of a
  call, the leg of the PBX, the datagrams under way and the history. That the two
  ends agree is inductive only with what may be under way: an answer, an ACK or a
  BYE comes from a leg that has got so far (`PbxWord`); of a call the phone has not
  met there is its INVITE alone (`Unmet`, `MetKnown`); a call ringing from its one
  INVITE has had nothing from the phone but a 180 (`RingingIsFresh`), one being
  dialled no BYE (`DiallingIsFresh`), so that a 200 read then answers the INVITE; the
  phone acknowledges and ends only what has been agreed to (`Acked`); and a far end
  that is up, or will be by what is under way, is one the phone is in a call with
  or has a BYE for (`ConnectedIsTold`).
- The step is proved in halves. `PhoneEffect` says what a step of the phone may do to
  the other three: what it may send (`SendsSound`), that it leaves a call only with
  a BYE or in answer to one (`LeavesTold`), what it comes to know (`MeetsKnown`), when
  it begins to dial, ring and be connected. Every action of the phone has it, and
  what has it keeps `DialogInv`. `PbxEffect` is the same for a step of the PBX.
- What tells an agreed end from a refused one: a call answered from its one INVITE
  has no refusal under way, so an ACK of it comes from an end that agreed
  (`AnsweredIsFresh`). Once the ACK is in, the end has agreed, or was refused an
  INVITE that was handled twice (`Settled`); `CallIsAgreed` keeps that while the call
  is up.
- From it `EstablishedAgreed`, `GhostFree`, `FarEndTold`: every property of `dialog`.
  And `DialogKeepsUac`: `SipDialog` implements `TincanUac`, so every theorem about the
  user agent in front of an arbitrary network holds in front of this one.

`Voice_proofs`, for every receive gain and ducking factor, all addresses and
ports, and offers of any length:

- `VoiceFaithful`. A biased magnitude lies in one of eight segments of sixteen steps;
  encoding finds the step and decoding returns its middle (`Companding`), the middle
  lies in its own step (`MiddleBounds`) and does not fall when the magnitude grows
  (`MiddleMonotone`). The four facts about the codec are read off the middle. The
  gains rest on one lemma, that a product shifted by eight bits keeps its sign and
  its order with the sample (`Gained`). TLC checks the gains of the code only.
- `EndpointOffered`. The reader holds the address of the last c= line and the port of
  the last m= line it did not skip (`OfferInv`), line after line; in a description
  of one stream those are the stream's.

`EpaperRender_proofs`, for any number of screens and any times in which a refresh
ends before its wait is given up:

- `ScreenInvariance`: `Waits`, how long each wait still is; `Order`, what is under way
  to the glass is no older than what is on it; `Truth`, while the panel answers the
  shadow is the glass between refreshes; `Progress`, how old a queued screen is at
  each step. From it `ScreenTypes`, `ToldTheTruth`, `LagIsBounded`, `NeverBackwards`.

Every safety property and every action property of the passing runs is thus
proved. Only model-checked: everything under fairness (liveness and ENABLED are
beyond the prover), that is `BlockingCallsReturn`, the liveness of `LineSpec`,
`RegistrationHeals`, `RingingIsShown`, `CallScreenEnds`, `HalfOpenCallResolves`,
`ArmedCallSpeaks`, `NewestIsShown`.

## 7. What the checks found

Each is a run that TLC ends with a counterexample.

1. `uac_unset_endpoint`: a 200 OK without SDP publishes an unset endpoint and
   `placeCall()` returns false with the call up (`tincan_uac.cpp:538`); the
   backstop in `sendAudioFrame()` keeps it off the wire.
2. `app_stranded_call`: the flag of `callEnded()` left by a cancelled ringing
   call ends the screen of the next call, which stays up without loudspeaker
   and with a live microphone.
3. `epaper_off`: `power_off()` waits 2.5 s for a last screen that takes 3.3 s, or
   6.5 s behind another, so the screen left on a phone that is off is an
   interrupted one or the one before.

The exceptions in `SipDialog`'s properties, each needed for them to hold:

- an INVITE retransmitted for the call that rings is refused with 486
  (`tincan_uac.cpp:557`), and one that arrives after the call rings again;
- of an INVITE handled twice the first may be answered with 200 and the second with
  that 486; the PBX's ACK of the 486 carries the same Call-ID and is taken for the
  ACK of the 200 (`tincan_uac.cpp:728`). If the 200 is lost the phone is in a call
  with nobody: it has stopped repeating the 200, and only the user ends it;
- any 200 is the answer `placeCall()` waits for (`tincan_uac.cpp:531`), so a late
  200 of the call before establishes this one;
- a BYE of any Call-ID ends the call (defended at `tincan_uac.cpp:642`);
- the phone's own BYE is sent once (`tincan_uac.cpp:850`): lost, the far end stays.

Seen while modelling, without a run of their own.

*SIP.* The BYE of an inbound call is addressed to the caller's display name, when
there is one (`handleInboundInvite()` puts it into `_peerExt`, `buildBye()` into the
Request-URI). An unanswered INVITE is abandoned without CANCEL, and the CANCEL of
`hangup()` (`tincan_uac.hpp:84`) cannot be reached, since Calling exists only inside
the blocking `placeCall()` (`CallingIsBlocking`); `docs/UI_DESIGN.md` 2.3 says so.
A registration that fails at boot is never retried, and "Reg failed" is posted only
on the idle screen and stays after recovery. `parse()` keeps the last Via line of
several. Of two streams in an SDP body the last m= line gives the port, so a video
stream refused with port 0 silences the audio; a port of 65536 counts as usable
and is 0 on the wire (`tincan_uac.cpp:147`).

*Media.* The backlog flush precedes the arming of a delayed-offer call, which starts
with what queued in between (`app_main.cpp:327`). The control thread resets the
counters that "only the audio task writes" (`tincan_uac.hpp:179`), harmless unless
it stalls in its count just there, by `CensusIsOfThisCall`. A call acknowledged without SDP is
called receive-only in a log line (`tincan_uac.cpp:747`) but does not receive,
`recvAudioFrame()` being disarmed as well. The magnitude of a sample of -32768
stays negative in the 16 bits of the census (`app_main.cpp:374`).

*Board.* `app_main.cpp:245` puts the touch controller "into reset before the rails
move", but `xl9555_reset_touch()` ends with the line high. `set_amp()` after an
`xl9555_init()` that failed half way writes a shadow that is still zero, and drops
the rails of a port that is already an output. A volume that could not be set
leaves the codec muted and its initialisation successful (`es8311_audio.c:193`). If
the second write of the keyboard's reset pulse is lost the controller stays in
reset. A VBUS read that fails counts as battery. `net_wifi.c:65` says that a timeout
costs nothing; `app_main.cpp:588` then stops in an empty loop.

*Display.* The screen "Call Failed" draws the filled pictogram, which stands for
active (`epaper_display.cpp:332`), because it contains "Call".

## 8. What is not modelled

- The parser's reading of headers: a sequential string program without state
  between messages. The models take its results (unparsable, which message, which
  Call-ID, whether a display name) as free choices. The setters of `SipMessage` and
  its `addHeader` have no caller in the firmware. `IDGen` draws the identifiers that a
  Call-ID of the models stands for.
- `rtp.h`: it writes twelve bytes of constants and counters; whose stream they
  belong to is in `MediaPath`.
- `net_wifi.c`: a bounded wait at boot, whose outcome `Board` has, and a
  reconnection left to the platform. The local address is read once at boot and
  would be stale after a reconnection with another; no code reacts to it.
- Register values of the codec, its volume curve, the drawing of screens, the
  backlights, the hangover of the ducking, the periodic log: data without control.
  The bench self-test and diagnostics are options of the build.
- `xl9555_set_4g_power` and `xl9555_set_motor_enable`, which nothing calls; the
  audio anchor files, which are not built; the constants and the host test.
- Real time other than in `Registration` and `EpaperRender`: timeouts elsewhere are
  steps that may happen.

## 9. The plan

The components the sources name are modelled as far as 8 says. What is left: the
registration of `TincanUac` and that of `Registration` are joined by reading. The
one has the datagrams and no time, the other time and no datagrams.
