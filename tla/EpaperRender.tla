----------------------------- MODULE EpaperRender -----------------------------
(***************************************************************************)
(* The screen of the phone: ui_render() posts a request to a queue of one  *)
(* place, epaper_task() takes it and refreshes the whole panel             *)
(* (main/src/epaper_display.cpp), power_off() posts a last one, waits and  *)
(* cuts the power (main/src/app_main.cpp).  The panel keeps its image      *)
(* through all of it; the program keeps, in RAM, what it takes that image  *)
(* to be, since the panel wants to be told before each refresh.            *)
(*                                                                         *)
(* Screens are numbered as they are posted; 0 is the white panel.  Time is *)
(* counted in ticks: only waits take time, and a step that is ready is     *)
(* taken before the next tick.                                             *)
(***************************************************************************)
EXTENDS Integers

CONSTANTS
  Screens,      (* bound: screens posted in a behaviour                     *)
  RefreshTime,  (* ticks of a refresh, until BUSY is released               *)
  SleepTime,    (* ticks from there to the end of epd_full_refresh()        *)
  BusyTimeout,  (* ticks after which epd_wait_busy() gives up: 5 s          *)
  OffDelay      (* ticks power_off() leaves for the last screen: 2.5 s      *)

ASSUME TimeAssumption ==
  /\ Screens \in Nat \ {0}
  /\ RefreshTime \in Nat \ {0} /\ SleepTime \in Nat \ {0} /\ OffDelay \in Nat
  /\ BusyTimeout \in Nat /\ BusyTimeout > RefreshTime

VARIABLES
  queue,    (* s_render_q: the screen waiting, 0 when there is none         *)
  rpc,      (* where the render task is                                     *)
  left,     (* ticks left of the wait it is in                              *)
  fb,       (* s_fb, the frame it is rendering                              *)
  shadow,   (* s_old_fb, what it takes the panel to show                    *)
  told,     (* what the panel was last told that it shows                   *)
  image,    (* the image it was last given                                  *)
  glass,    (* what can be read on it                                       *)
  power,    (* on, leaving (inside power_off()) or off                      *)
  offLeft,  (* ticks left before power_off() cuts the power                 *)
  \* history
  made,     (* screens posted so far                                        *)
  posted,   (* the last one posted since boot, 0 when none was              *)
  age,      (* ticks since then                                             *)
  seen,     (* a refresh was completed since boot                           *)
  healthy   (* no wait for BUSY has timed out since boot                    *)

render == <<rpc, left>>
buffer == <<fb, shadow>>
panel  == <<told, image, glass>>
supply == <<power, offLeft>>
posts  == <<made, posted, age>>
health == <<seen, healthy>>
vars   == <<queue, render, buffer, panel, supply, posts, health>>

\* A refresh interrupted half way.
Torn == -1

\* Past this the age of a screen does not matter.
AgeMax == 2 * RefreshTime + SleepTime + 1

Boot ==
  /\ queue' = 0 /\ rpc' = "wait" /\ left' = 0
  /\ fb' = 0 /\ shadow' = 0
  /\ power' = "on" /\ offLeft' = 0
  /\ posted' = 0 /\ age' = 0 /\ seen' = FALSE /\ healthy' = TRUE

Init ==
  /\ queue = 0 /\ rpc = "wait" /\ left = 0 /\ fb = 0 /\ shadow = 0
  /\ told = 0 /\ image = 0 /\ glass = 0
  /\ power = "on" /\ offLeft = 0
  /\ made = 0 /\ posted = 0 /\ age = 0 /\ seen = FALSE /\ healthy = TRUE

-----------------------------------------------------------------------------
(* The main task                                                            *)

\* Mutant: a queue that is full keeps what it has.
UiRender_KeepsOld ==
  /\ made < Screens /\ made' = made + 1
  /\ queue' = IF queue = 0 THEN made' ELSE queue
  /\ posted' = made' /\ age' = 0
  /\ UNCHANGED <<render, buffer, panel, health>>

\* ui_render(): the newest screen replaces the one that waits.
UiRender ==
  /\ made < Screens /\ made' = made + 1
  /\ queue' = made'
  /\ posted' = made' /\ age' = 0
  /\ UNCHANGED <<render, buffer, panel, health>>

Show == power = "on" /\ UiRender /\ UNCHANGED supply

PowerOff == power = "on" /\ UiRender /\ power' = "leaving" /\ offLeft' = OffDelay

\* What can be read when the program stops here: a refresh under way stops with
\* the power, or is finished by the panel alone.
Interrupted == IF rpc \in {"refresh", "stuck"} THEN {Torn, image, glass} ELSE {glass}

\* Battery cut or, on USB, deep sleep: the program stops where it is.
Cut ==
  /\ power = "leaving" /\ offLeft = 0
  /\ power' = "off"
  /\ glass' \in Interrupted
  /\ UNCHANGED <<queue, render, buffer, told, image, offLeft, posts, health>>

\* Back through app_main(), from power off or out of the blue: the buffers of
\* the program are white again, the panel is not.
Reset ==
  /\ Boot
  /\ glass' \in IF power = "off" THEN {glass} ELSE Interrupted
  /\ UNCHANGED <<told, image, made>>

-----------------------------------------------------------------------------
(* The render task                                                          *)

Running == power # "off" /\ UNCHANGED <<supply, posts>>

Go(from, to) == Running /\ rpc = from /\ left = 0 /\ rpc' = to

Take ==
  /\ Go("wait", "init") /\ queue # 0
  /\ fb' = queue
  /\ queue' = 0
  /\ UNCHANGED <<left, shadow, panel, health>>

InitPanel == Go("init", "old") /\ UNCHANGED <<queue, left, buffer, panel, health>>

\* The panel does not answer: the screen is given up.
InitHangs ==
  /\ Go("init", "giveup")
  /\ left' = BusyTimeout
  /\ healthy' = FALSE
  /\ UNCHANGED <<queue, buffer, panel, seen>>

SendOld ==
  /\ Go("old", "new")
  /\ told' = shadow
  /\ UNCHANGED <<queue, left, buffer, image, glass, health>>

\* Mutants: the shadow is forgotten; the two buffers are swapped.
SendNew_NoShadow ==
  /\ Go("new", "refresh")
  /\ image' = fb
  /\ left' = RefreshTime
  /\ UNCHANGED <<queue, buffer, told, glass, health>>
SendNew_Swapped ==
  /\ Go("new", "refresh")
  /\ image' = shadow /\ shadow' = fb
  /\ left' = RefreshTime
  /\ UNCHANGED <<queue, fb, told, glass, health>>

\* The shadow is updated here, before the refresh.
SendNew ==
  /\ Go("new", "refresh")
  /\ image' = fb /\ shadow' = fb
  /\ left' = RefreshTime
  /\ UNCHANGED <<queue, fb, told, glass, health>>

Refreshed ==
  /\ Go("refresh", "sleep")
  /\ glass' = image
  /\ left' = SleepTime
  /\ seen' = TRUE
  /\ UNCHANGED <<queue, buffer, told, image, healthy>>

\* BUSY is not released in time; nobody looks at what the wait returned.
RefreshHangs ==
  /\ Go("refresh", "stuck")
  /\ left' = BusyTimeout - RefreshTime
  /\ healthy' = FALSE
  /\ UNCHANGED <<queue, buffer, panel, seen>>
RefreshGivenUp ==
  /\ Go("stuck", "sleep")
  /\ glass' \in {glass, image, Torn}
  /\ left' = SleepTime
  /\ UNCHANGED <<queue, buffer, told, image, health>>

Slept == Go("sleep", "wait") /\ UNCHANGED <<queue, left, buffer, panel, health>>

SleepHangs ==
  /\ Go("sleep", "giveup")
  /\ left' = BusyTimeout
  /\ healthy' = FALSE
  /\ UNCHANGED <<queue, buffer, panel, seen>>

GivenUp == Go("giveup", "wait") /\ UNCHANGED <<queue, left, buffer, panel, health>>

-----------------------------------------------------------------------------
(* Time and the specification                                               *)

\* Mutant: a wait that is over is counted down once more.
Less_Below(n) == n - 1

Less(n) == IF n > 0 THEN n - 1 ELSE 0

\* Time passes while the render task waits, for a screen or for the panel.
Tick ==
  /\ power # "off"
  /\ left > 0 \/ (rpc = "wait" /\ queue = 0)
  /\ power = "leaving" => offLeft > 0
  /\ left' = Less(left) /\ offLeft' = Less(offLeft)
  /\ age' = IF age < AgeMax THEN age + 1 ELSE age
  /\ UNCHANGED <<queue, rpc, buffer, panel, power, made, posted, health>>

Works == Take \/ InitPanel \/ SendOld \/ SendNew \/ Refreshed \/ RefreshGivenUp \/ Slept \/ GivenUp
Hangs == InitHangs \/ RefreshHangs \/ SleepHangs

Next == Show \/ PowerOff \/ Cut \/ Reset \/ Works \/ Hangs \/ Tick

Spec == Init /\ [][Next]_vars

\* The render task runs when it can and the clock goes on.
FairSpec == Spec /\ WF_vars(Works) /\ WF_vars(Tick)

-----------------------------------------------------------------------------
(* Properties                                                               *)

Numbers == 0..Screens

\* Every variable keeps its type, and no wait is longer than the longest.
TypeOK ==
  /\ queue \in Numbers /\ fb \in Numbers /\ shadow \in Numbers
  /\ told \in Numbers /\ image \in Numbers /\ glass \in Numbers \cup {Torn}
  /\ rpc \in {"wait", "init", "old", "new", "refresh", "stuck", "sleep", "giveup"}
  /\ left \in 0..(BusyTimeout + SleepTime)
  /\ power \in {"on", "leaving", "off"} /\ offLeft \in 0..OffDelay
  /\ made \in Numbers /\ posted \in {0, made} /\ age \in 0..AgeMax
  /\ seen \in BOOLEAN /\ healthy \in BOOLEAN

\* A panel that has answered so far is told before each refresh what it shows,
\* once the program has shown something since boot.
OldDataIsGlass ==
  rpc = "refresh" /\ power # "off" /\ seen /\ healthy => told = glass

\* The screen that is read is as old as two refreshes at most: the one under way
\* when it was posted and its own.
LagBounded ==
  power = "on" /\ healthy /\ posted # 0 /\ glass # posted => age < AgeMax

\* No screen is replaced by one posted before it, whatever is lost in between.
ScreensInOrder == [][glass # Torn /\ glass' # Torn => glass' >= glass]_vars

\* The screen posted last is shown, if the panel answers and the power stays on.
Undisturbed(n) == posted = n /\ healthy /\ power = "on"
NewestIsShown == \A n \in 1..Screens : Undisturbed(n) ~> (glass = n \/ ~Undisturbed(n))

-----------------------------------------------------------------------------
(* What the sources say and the code does not do                            *)

\* app_main.cpp, above power_off(): "the final screen stays readable while the
\* board is off.  The panel keeps telling the truth."  Here of a panel in order.
OffShowsTheLastScreen == power = "off" /\ healthy => glass = posted
=============================================================================
