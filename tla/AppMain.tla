------------------------------- MODULE AppMain -------------------------------
(***************************************************************************)
(* The main loop of the phone (main/src/app_main.cpp): poll the user agent,*)
(* refresh the registration, read one key, show an incoming call, run the  *)
(* state machine of the user interface, wait 20 ms.  It is the one caller  *)
(* of the operations of TincanUac, whose actions are used here as they     *)
(* are; placeCall() and registerExt() block the loop, while keys queue in  *)
(* the keypad controller and datagrams in the socket.                      *)
(*                                                                         *)
(* The panel is what ui_render() posted last: its line of status and the   *)
(* party it names.  Boot is the last part of app_main() before the loop    *)
(* (registration, the number stored in NVS); every reset comes back to it. *)
(***************************************************************************)
EXTENDS TincanUac, Sequences

CONSTANTS
  Digit,          (* characters is_dial_char() accepts                      *)
  DialBufferMax,  (* DIAL_BUFFER_MAX: 20 in the code                        *)
  KeyFifo         (* key presses the keypad controller queues               *)

ASSUME DialAssumption ==
  /\ DialBufferMax \in Nat \ {0}
  /\ KeyFifo \in Nat \ {0}
  /\ Number = UNION {[1..k -> Digit] : k \in 1..DialBufferMax}
  /\ {"ENT", "DEL", "none"} \cap Digit = {}

VARIABLES
  pc,           (* where the main task is                                   *)
  ui,           (* UiState                                                  *)
  key,          (* the key read in this pass, "none" for 0                  *)
  keys,         (* presses queued in the controller                         *)
  dialBuffer,   (* dialBuffer                                               *)
  lastDialled,  (* lastDialled, <<>> when there is none                     *)
  nvs,          (* the number stored in flash, <<>> when there is none      *)
  amp,          (* audio_hardware_set_amp()                                 *)
  panel         (* the last screen posted                                   *)

\* What only the program's own steps in the loop change.
screen  == <<ui, amp, panel>>
numbers == <<dialBuffer, lastDialled, nvs>>
app     == <<pc, screen, key, keys, numbers>>
all     == <<vars, app>>

Screen(status, who) == [status |-> status, who |-> who]
Show(status, who) == panel' = Screen(status, who)

Goto(from, to) == pc = from /\ pc' = to

-----------------------------------------------------------------------------
(* Boot                                                                     *)

Boot ==
  /\ pc = "boot" /\ ui = "Idle" /\ key = "none" /\ keys = <<>>
  /\ dialBuffer = <<>> /\ lastDialled = <<>> /\ amp = FALSE
  /\ panel = Screen("Booting", None)

AppInit == Init /\ Boot /\ nvs = <<>>

BootRegister ==
  /\ Goto("boot", "registering")
  /\ RegisterExt
  /\ UNCHANGED <<screen, key, keys, numbers>>

Registers ==
  /\ pc \in {"registering", "refreshing"}
  /\ Registering
  /\ UNCHANGED app

\* load_last_dialled() gives nothing where the store cannot be read.
LoadLastDialled == lastDialled' \in {nvs, <<>>}

BootDone ==
  /\ Goto("registering", "poll") /\ at = "api"
  /\ LoadLastDialled
  /\ Show(IF ret THEN "Idle" ELSE "Register failed", None)
  /\ UNCHANGED <<vars, ui, amp, key, keys, dialBuffer, nvs>>

-----------------------------------------------------------------------------
(* The top of the loop                                                      *)

\* The key of the pass before is gone: it is local to the body of the loop.
InPoll == pc = "poll" /\ key' = "none" /\ UNCHANGED <<pc, screen, keys, numbers>>

Poll == InPoll /\ Tick

Drain ==
  /\ Goto("poll", "maintain")
  /\ Recv
  /\ UNCHANGED <<screen, key, keys, numbers>>

Refresh ==
  /\ Goto("maintain", "refreshing")
  /\ MaintainRegistration
  /\ UNCHANGED <<screen, key, keys, numbers>>

Refreshed ==
  /\ Goto("refreshing", "key") /\ at = "api"
  /\ IF ~ret /\ ui = "Idle" THEN Show("Reg failed", None) ELSE UNCHANGED panel
  /\ UNCHANGED <<vars, ui, amp, key, keys, numbers>>

NotDue ==
  /\ Goto("maintain", "key")
  /\ UNCHANGED <<vars, screen, key, keys, numbers>>

\* A pass may find no key while presses are queued: the event it reads is a
\* release, or the bus fails.
ReadKey ==
  \/ key' = "none" /\ UNCHANGED keys
  \/ keys # <<>> /\ key' = Head(keys) /\ keys' = Tail(keys)

\* Mutant: only the idle screen gives way to an incoming call.
Preempts_FromIdleOnly == state = "Ringing" /\ ui = "Idle"

\* hasIncomingCall() outranks every screen but the two of a call.
Preempts == state = "Ringing" /\ ui \notin {"InCall", "Incoming"}

Key ==
  /\ Goto("key", "switch")
  /\ ReadKey
  /\ IF Preempts
     THEN ui' = "Incoming" /\ Show("Incoming Call", dialog.peerExt)
     ELSE UNCHANGED <<ui, panel>>
  /\ UNCHANGED <<vars, amp, numbers>>

-----------------------------------------------------------------------------
(* The switch: one action per case and key                                  *)

Switch(screenOf, to) == Goto("switch", to) /\ ui = screenOf

Enters(screenTo, status, who) == ui' = screenTo /\ Show(status, who)

\* The number ENT dials: what was typed, or the last one that connected.
Target == IF ui = "Dialing" THEN dialBuffer ELSE lastDialled

\* Nothing to do for this key here.
Ignored ==
  /\ Goto("switch", "poll")
  /\ \/ ui \in {"Idle", "Dialing"} /\ key = "none"
     \/ ui \in {"Idle", "Dialing"} /\ key = "ENT" /\ Target = <<>>
     \/ ui = "Incoming" /\ key \notin {"ENT", "DEL"} /\ state = "Ringing"
     \/ ui = "ConfirmOff" /\ key = "none"
  /\ UNCHANGED <<vars, screen, key, keys, numbers>>

AskPowerOff ==
  /\ Switch("Idle", "poll") /\ key = "DEL"
  /\ Enters("ConfirmOff", "Power off?", None)
  /\ UNCHANGED <<vars, amp, key, keys, numbers>>

KeepOn ==
  /\ Switch("ConfirmOff", "poll") /\ key \notin {"ENT", "none"}
  /\ Enters("Idle", "Idle", None)
  /\ UNCHANGED <<vars, amp, key, keys, numbers>>

FirstDigit ==
  /\ Switch("Idle", "poll") /\ key \in Digit
  /\ dialBuffer' = <<key>>
  /\ Enters("Dialing", "Dialing", Dialled(dialBuffer'))
  /\ UNCHANGED <<vars, amp, key, keys, lastDialled, nvs>>

\* Mutant: the bound of the buffer is not looked at.
NextDigit_NoBound ==
  /\ Switch("Dialing", "poll") /\ key \in Digit
  /\ dialBuffer' = Append(dialBuffer, key) /\ Show("Dialing", Dialled(dialBuffer'))
  /\ UNCHANGED <<vars, ui, amp, key, keys, lastDialled, nvs>>

NextDigit ==
  /\ Switch("Dialing", "poll") /\ key \in Digit
  /\ IF Len(dialBuffer) < DialBufferMax
     THEN dialBuffer' = Append(dialBuffer, key) /\ Show("Dialing", Dialled(dialBuffer'))
     ELSE UNCHANGED <<dialBuffer, panel>>
  /\ UNCHANGED <<vars, ui, amp, key, keys, lastDialled, nvs>>

Erase ==
  /\ Switch("Dialing", "poll") /\ key = "DEL"
  /\ IF dialBuffer = <<>>
     THEN Enters("Idle", "Idle", None) /\ UNCHANGED dialBuffer
     ELSE /\ dialBuffer' = SubSeq(dialBuffer, 1, Len(dialBuffer) - 1)
          /\ Enters("Dialing", "Dialing", Dialled(dialBuffer'))
  /\ UNCHANGED <<vars, amp, key, keys, lastDialled, nvs>>

-----------------------------------------------------------------------------
(* placeCallTo()                                                            *)

Dials ==
  /\ pc = "switch" /\ ui \in {"Idle", "Dialing"} /\ key = "ENT"
  /\ Target # <<>>
  /\ pc' = "dialling"
  /\ dialBuffer' = IF ui = "Dialing" THEN <<>> ELSE dialBuffer
  /\ Show("Calling...", Dialled(Target))
  /\ \/ \E c \in LocalId : PlaceCall(Target, c)
     \/ PlaceCallBusy
  /\ UNCHANGED <<ui, amp, key, keys, lastDialled, nvs>>

Rings == pc = "dialling" /\ Placing /\ UNCHANGED app

\* save_last_dialled() reports nothing: the store may have failed.
Remember(n) ==
  IF n = lastDialled THEN UNCHANGED <<lastDialled, nvs>>
                     ELSE lastDialled' = n /\ nvs' \in {n, nvs}

\* Mutant: the number is remembered before the result is known.
DialDone_RemembersFirst ==
  /\ Goto("dialling", "poll") /\ at = "api"
  /\ Remember(panel.who.of)
  /\ IF ret
     THEN amp' = TRUE /\ Enters("InCall", "In Call", panel.who)
     ELSE Enters("Idle", "Call Failed", panel.who) /\ UNCHANGED amp
  /\ UNCHANGED <<vars, key, keys, dialBuffer>>

DialDone ==
  /\ Goto("dialling", "poll") /\ at = "api"
  /\ IF ret
     THEN /\ Remember(panel.who.of)
          /\ amp' = TRUE
          /\ Enters("InCall", "In Call", panel.who)
     ELSE /\ Enters("Idle", "Call Failed", panel.who)
          /\ UNCHANGED <<amp, lastDialled, nvs>>
  /\ UNCHANGED <<vars, key, keys, dialBuffer>>

-----------------------------------------------------------------------------
(* Calls                                                                    *)

\* The result of answer() is not looked at.
AnswerKey ==
  /\ Switch("Incoming", "poll") /\ key = "ENT"
  /\ Answer
  /\ amp' = TRUE
  /\ Enters("InCall", "In Call", dialog'.peerExt)
  /\ UNCHANGED <<key, keys, numbers>>

RejectKey ==
  /\ Switch("Incoming", "poll") /\ key = "DEL"
  /\ Reject
  /\ Enters("Idle", "Idle", None)
  /\ UNCHANGED <<amp, key, keys, numbers>>

\* Mutant: the incoming screen waits for a key, whatever the caller does.
CallerGaveUp_Stays ==
  /\ Switch("Incoming", "poll") /\ key \notin {"ENT", "DEL"} /\ state # "Ringing"
  /\ UNCHANGED <<vars, screen, key, keys, numbers>>

CallerGaveUp ==
  /\ Switch("Incoming", "poll") /\ key \notin {"ENT", "DEL"} /\ state # "Ringing"
  /\ Enters("Idle", "Idle", None)
  /\ UNCHANGED <<vars, amp, key, keys, numbers>>

HangupKey ==
  /\ Switch("InCall", "ended") /\ key \in {"ENT", "DEL"}
  /\ Hangup
  /\ UNCHANGED <<screen, key, keys, numbers>>

NoHangup ==
  /\ Switch("InCall", "ended") /\ key \notin {"ENT", "DEL"}
  /\ UNCHANGED <<vars, screen, key, keys, numbers>>

\* Mutants: the amplifier is left on; only the one-shot flag is watched.
WatchCall_AmpStaysOn ==
  /\ Goto("ended", "poll")
  /\ CallEnded
  /\ IF callEndedPending \/ state # "InCall"
     THEN Enters("Idle", "Idle", None) /\ UNCHANGED amp
     ELSE UNCHANGED screen
  /\ UNCHANGED <<key, keys, numbers>>
WatchCall_FlagOnly ==
  /\ Goto("ended", "poll")
  /\ CallEnded
  /\ IF callEndedPending
     THEN Enters("Idle", "Idle", None) /\ amp' = FALSE
     ELSE UNCHANGED screen
  /\ UNCHANGED <<key, keys, numbers>>

\* callEnded() || !inCall(): the flag is taken in either case.
WatchCall ==
  /\ Goto("ended", "poll")
  /\ CallEnded
  /\ IF callEndedPending \/ state # "InCall"
     THEN Enters("Idle", "Idle", None) /\ amp' = FALSE
     ELSE UNCHANGED screen
  /\ UNCHANGED <<key, keys, numbers>>

-----------------------------------------------------------------------------
(* power_off() and resets                                                   *)

\* Mutant: the call is left up.
PowerOff_KeepsCall ==
  /\ Switch("ConfirmOff", "off") /\ key = "ENT"
  /\ amp' = FALSE
  /\ Show("Powered Off", None)
  /\ UNCHANGED <<vars, ui, key, keys, numbers>>

PowerOff ==
  /\ Switch("ConfirmOff", "off") /\ key = "ENT"
  /\ IF state = "InCall" THEN Hangup ELSE UNCHANGED vars
  /\ amp' = FALSE
  /\ Show("Powered Off", None)
  /\ UNCHANGED <<ui, key, keys, numbers>>

\* The board comes back through a reset: after power off, or out of the blue.
Reset ==
  /\ at' = "api" /\ state' = "Idle" /\ dialog' = NoDialog
  /\ mediaActive' = FALSE /\ mediaTarget' = None
  /\ callEndedPending' = FALSE /\ everRegistered' = FALSE
  /\ attempt' = 0 /\ answered' = FALSE /\ ret' = FALSE /\ out' = {}
  /\ pc' = "boot" /\ ui' = "Idle" /\ key' = "none" /\ keys' = <<>>
  /\ dialBuffer' = <<>> /\ lastDialled' = <<>> /\ amp' = FALSE
  /\ panel' = Screen("Booting", None)
  /\ UNCHANGED nvs

PressKey(k) ==
  /\ pc # "off" /\ Len(keys) < KeyFifo
  /\ keys' = Append(keys, k)
  /\ UNCHANGED <<vars, pc, screen, key, numbers>>

-----------------------------------------------------------------------------
(* The specification                                                        *)

Program ==
  \/ BootRegister \/ Registers \/ BootDone
  \/ Poll \/ Drain \/ Refresh \/ Refreshed \/ NotDue \/ Key
  \/ Ignored \/ AskPowerOff \/ KeepOn \/ FirstDigit \/ NextDigit \/ Erase
  \/ Dials \/ Rings \/ DialDone
  \/ AnswerKey \/ RejectKey \/ CallerGaveUp \/ HangupKey \/ NoHangup \/ WatchCall
  \/ PowerOff

AppNext ==
  \/ Program
  \/ Reset
  \/ \E k \in Digit \cup {"ENT", "DEL"} : PressKey(k)

AppSpec == AppInit /\ [][AppNext]_all

\* The main task is never blocked for good: its receives and delays are all
\* bounded.  And 32 s after an answer the clock has passed the deadline for the
\* ACK, whatever the 200 OKs resent before: some later tick gives up.
GivesUp == InPoll /\ TickGiveUp

AppFairSpec == AppSpec /\ WF_all(Program) /\ SF_all(GivesUp)

-----------------------------------------------------------------------------
(* Properties                                                               *)

Keys == Digit \cup {"ENT", "DEL"}

\* Every variable keeps its type; the dial buffer and the key queue their size.
AppTypeOK ==
  /\ pc \in {"boot", "registering", "poll", "maintain", "refreshing", "key",
             "switch", "dialling", "ended", "off"}
  /\ ui \in {"Idle", "Dialing", "Incoming", "InCall", "ConfirmOff"}
  /\ key \in Keys \cup {"none"}
  /\ keys \in Seq(Keys) /\ Len(keys) <= KeyFifo
  /\ dialBuffer \in Number \cup {<<>>}
  /\ lastDialled \in Number \cup {<<>>}
  /\ nvs \in Number \cup {<<>>}
  /\ amp \in BOOLEAN
  /\ panel.who \in Peer \cup {None, Dialled(<<>>)}

\* At the top of the loop the amplifier is on exactly when the screen says
\* there is a call, by whatever path the screen got there.
AmpFollowsUi == pc = "poll" => (amp <=> ui = "InCall")

\* While an offered or a connected call is on the screen, the party the panel
\* names is the party of that call and not of one that went before it.
PanelNamesTheParty ==
  pc = "poll" /\ at = "api" /\ <<ui, state>> \in {<<"Incoming", "Ringing">>, <<"InCall", "InCall">>}
    => panel.who = dialog.peerExt

\* A phone that switches itself off leaves no call up, none ringing, and its
\* audio silent: power_off() checks only inCall().
OffLeavesNoCall == pc = "off" => state = "Idle" /\ ~mediaActive /\ ~amp

\* ENT answers only the call the panel was told to announce.
AnswersTheCallAnnounced ==
  [][state = "Ringing" /\ state' = "InCall" =>
       panel = Screen("Incoming Call", dialog.peerExt)]_all

\* What a reboot will redial is a number that has just connected: a failed call
\* never replaces it.
RemembersConnectedNumbers ==
  [][nvs' # nvs =>
       /\ state = "InCall" /\ mediaTarget # None
       /\ dialog.peerExt = Dialled(nvs')]_all

\* A call that rings gets to the screen, or is over.
RingingIsShown == state = "Ringing" ~> (ui = "Incoming" \/ state # "Ringing")

\* The call screen does not outlive the call.
CallScreenEnds == (ui = "InCall" /\ state # "InCall") ~> ui # "InCall"

\* An answered call whose ACK never comes does not stay half open.
HalfOpenCallResolves == dialog.awaitingAck ~> ~dialog.awaitingAck

-----------------------------------------------------------------------------
(* What the sources say and the code does not do                            *)

\* tincan_uac.hpp, callEnded(): "Callers should treat this as the 'return to
\* Idle' signal": so a call that is up, with media, is the one on the screen.
\* The flag a cancelled call leaves behind says so of the next call.
CallUpIsOnScreen ==
  pc = "poll" /\ at = "api" /\ state = "InCall" /\ mediaTarget # None => ui = "InCall"
=============================================================================
