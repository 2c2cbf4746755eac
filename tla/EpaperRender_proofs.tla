--------------------------- MODULE EpaperRender_proofs ---------------------------
(***************************************************************************)
(* Proofs about EpaperRender, for any number of screens and any times in   *)
(* which a refresh ends before its wait is given up.                       *)
(***************************************************************************)
EXTENDS EpaperRender, TLAPS

\* How long each wait of the render task can still be.
Waits ==
  /\ rpc \in {"wait", "init", "old", "new"} => left = 0
  /\ rpc = "refresh" => left <= RefreshTime
  /\ rpc = "sleep" => left <= SleepTime

\* What waits is the screen posted last, and what is on its way to the glass is
\* no older than what is on it.
Order ==
  /\ queue # 0 => queue = made /\ posted = made
  /\ fb <= made /\ image <= made /\ glass <= made
  /\ rpc \in {"init", "old", "new"} => glass <= fb
  /\ rpc \in {"refresh", "stuck"} => glass <= image

Answers == healthy /\ power # "off"

\* As long as the panel answers the shadow is the glass from one refresh to the
\* next, once there was one.
Truth == Answers =>
  /\ rpc \notin {"giveup", "stuck"}
  /\ rpc = "refresh" => image = shadow
  /\ seen =>
       /\ rpc \in {"wait", "init", "old", "sleep"} => shadow = glass
       /\ rpc \in {"new", "refresh"} => told = glass

\* As long as the panel answers: the screen posted last waits for one refresh
\* and its sleep at most, is on its way for one refresh at most, and is shown.
Progress == Answers =>
  /\ queue # 0 =>
       /\ rpc = "wait" => age <= RefreshTime + SleepTime
       /\ rpc \in {"init", "old", "new"} => age = 0
       /\ rpc = "refresh" => age + left <= RefreshTime
       /\ rpc = "sleep" => age + left <= RefreshTime + SleepTime
  /\ queue = 0 /\ posted # 0 =>
       /\ rpc \in {"init", "old", "new"} => fb = posted /\ age <= RefreshTime + SleepTime
       /\ rpc = "refresh" => image = posted /\ age + left <= 2 * RefreshTime + SleepTime
       /\ rpc \in {"sleep", "wait"} => glass = posted

ScreenInv == TypeOK /\ Waits /\ Order /\ Truth /\ Progress

\* What the constants give.
LEMMA Times ==
  /\ Screens \in Nat /\ RefreshTime \in Nat \ {0} /\ SleepTime \in Nat \ {0} /\ OffDelay \in Nat
  /\ BusyTimeout \in Nat /\ BusyTimeout + SleepTime \in Nat
  /\ BusyTimeout \in 0..(BusyTimeout + SleepTime)
  /\ BusyTimeout - RefreshTime \in 0..(BusyTimeout + SleepTime)
  /\ RefreshTime \in 0..(BusyTimeout + SleepTime) /\ SleepTime \in 0..(BusyTimeout + SleepTime)
  /\ AgeMax \in Nat /\ AgeMax = 2 * RefreshTime + SleepTime + 1
  /\ 0 \in 0..Screens /\ 0 \in 0..AgeMax /\ 0 \in 0..OffDelay /\ 0 \in 0..(BusyTimeout + SleepTime)
BY TimeAssumption DEF AgeMax

LEMMA InitScreen == Init => ScreenInv
<1> SUFFICES ASSUME Init PROVE ScreenInv
  OBVIOUS
<1> USE Times DEF Init
<1>1. TypeOK
  BY DEF TypeOK, Numbers
<1>2. Waits /\ Order /\ Truth /\ Progress
  BY DEF Waits, Order, Truth, Progress, Answers
<1> QED BY <1>1, <1>2 DEF ScreenInv

\* Each step keeps what the variables are.
LEMMA NextTypes == ASSUME ScreenInv, [Next]_vars PROVE TypeOK' /\ Waits'
<1> USE Times DEF ScreenInv, TypeOK, Waits, Numbers, Torn
<1>1. CASE Show
  BY <1>1 DEF Show, UiRender, render, buffer, panel, supply, health
<1>2. CASE PowerOff
  BY <1>2 DEF PowerOff, UiRender, render, buffer, panel, supply, health
<1>3. CASE Cut
  BY <1>3 DEF Cut, Interrupted, render, buffer, posts, health
<1>4. CASE Reset
  BY <1>4 DEF Reset, Boot, Interrupted
<1>5. CASE Take
  BY <1>5 DEF Take, Go, Running, panel, supply, posts, health
<1>6. CASE InitPanel
  BY <1>6 DEF InitPanel, Go, Running, buffer, panel, supply, posts, health
<1>7. CASE SendOld
  BY <1>7 DEF SendOld, Go, Running, buffer, supply, posts, health
<1>8. CASE SendNew
  BY <1>8 DEF SendNew, Go, Running, supply, posts, health
<1>9. CASE Refreshed
  BY <1>9 DEF Refreshed, Go, Running, buffer, supply, posts
<1>10. CASE RefreshGivenUp
  BY <1>10 DEF RefreshGivenUp, Go, Running, buffer, supply, posts, health
<1>11. CASE Slept
  BY <1>11 DEF Slept, Go, Running, buffer, panel, supply, posts, health
<1>12. CASE GivenUp
  BY <1>12 DEF GivenUp, Go, Running, buffer, panel, supply, posts, health
<1>13. CASE InitHangs
  BY <1>13 DEF InitHangs, Go, Running, buffer, panel, supply, posts
<1>14. CASE RefreshHangs
  BY <1>14 DEF RefreshHangs, Go, Running, buffer, panel, supply, posts
<1>15. CASE SleepHangs
  BY <1>15 DEF SleepHangs, Go, Running, buffer, panel, supply, posts
<1>16. CASE Tick
  BY <1>16 DEF Tick, Less, buffer, panel, health
<1>17. CASE UNCHANGED vars
  BY <1>17 DEF vars, render, buffer, panel, supply, posts, health
<1> QED
  BY <1>1, <1>2, <1>3, <1>4, <1>5, <1>6, <1>7, <1>8, <1>9, <1>10,
     <1>11, <1>12, <1>13, <1>14, <1>15, <1>16, <1>17 DEF Next, Works, Hangs

\* Each step keeps the order of the screens.
LEMMA NextOrder == ASSUME ScreenInv, [Next]_vars PROVE Order' /\ (glass' # Torn => glass' >= glass)
<1> USE Times DEF ScreenInv, TypeOK, Order, Numbers, Torn
<1>1. CASE Show
  BY <1>1 DEF Show, UiRender, render, buffer, panel, supply, health
<1>2. CASE PowerOff
  BY <1>2 DEF PowerOff, UiRender, render, buffer, panel, supply, health
<1>3. CASE Cut
  BY <1>3 DEF Cut, Interrupted, render, buffer, posts, health
<1>4. CASE Reset
  BY <1>4 DEF Reset, Boot, Interrupted
<1>5. CASE Take
  BY <1>5 DEF Take, Go, Running, panel, supply, posts, health
<1>6. CASE InitPanel
  BY <1>6 DEF InitPanel, Go, Running, buffer, panel, supply, posts, health
<1>7. CASE SendOld
  BY <1>7 DEF SendOld, Go, Running, buffer, supply, posts, health
<1>8. CASE SendNew
  BY <1>8 DEF SendNew, Go, Running, supply, posts, health
<1>9. CASE Refreshed
  BY <1>9 DEF Refreshed, Go, Running, buffer, supply, posts
<1>10. CASE RefreshGivenUp
  BY <1>10 DEF RefreshGivenUp, Go, Running, buffer, supply, posts, health
<1>11. CASE Slept
  BY <1>11 DEF Slept, Go, Running, buffer, panel, supply, posts, health
<1>12. CASE GivenUp
  BY <1>12 DEF GivenUp, Go, Running, buffer, panel, supply, posts, health
<1>13. CASE InitHangs
  BY <1>13 DEF InitHangs, Go, Running, buffer, panel, supply, posts
<1>14. CASE RefreshHangs
  BY <1>14 DEF RefreshHangs, Go, Running, buffer, panel, supply, posts
<1>15. CASE SleepHangs
  BY <1>15 DEF SleepHangs, Go, Running, buffer, panel, supply, posts
<1>16. CASE Tick
  BY <1>16 DEF Tick, Less, buffer, panel, health
<1>17. CASE UNCHANGED vars
  BY <1>17 DEF vars, render, buffer, panel, supply, posts, health
<1> QED
  BY <1>1, <1>2, <1>3, <1>4, <1>5, <1>6, <1>7, <1>8, <1>9, <1>10,
     <1>11, <1>12, <1>13, <1>14, <1>15, <1>16, <1>17 DEF Next, Works, Hangs

\* Each step keeps the shadow true.
LEMMA NextTruth == ASSUME ScreenInv, [Next]_vars PROVE Truth'
<1> USE DEF ScreenInv, Truth, Answers
<1>1. CASE Show
  BY <1>1 DEF Show, UiRender, render, buffer, panel, supply, health
<1>2. CASE PowerOff
  BY <1>2 DEF PowerOff, UiRender, render, buffer, panel, supply, health
<1>3. CASE Cut
  BY <1>3 DEF Cut, Interrupted, render, buffer, posts, health
<1>4. CASE Reset
  BY <1>4 DEF Reset, Boot, Interrupted
<1>5. CASE Take
  BY <1>5 DEF Take, Go, Running, panel, supply, posts, health
<1>6. CASE InitPanel
  BY <1>6 DEF InitPanel, Go, Running, buffer, panel, supply, posts, health
<1>7. CASE SendOld
  BY <1>7 DEF SendOld, Go, Running, buffer, supply, posts, health
<1>8. CASE SendNew
  BY <1>8 DEF SendNew, Go, Running, supply, posts, health
<1>9. CASE Refreshed
  BY <1>9 DEF Refreshed, Go, Running, buffer, supply, posts
<1>10. CASE RefreshGivenUp
  BY <1>10 DEF RefreshGivenUp, Go, Running, buffer, supply, posts, health
<1>11. CASE Slept
  BY <1>11 DEF Slept, Go, Running, buffer, panel, supply, posts, health
<1>12. CASE GivenUp
  BY <1>12 DEF GivenUp, Go, Running, buffer, panel, supply, posts, health
<1>13. CASE InitHangs
  BY <1>13 DEF InitHangs, Go, Running, buffer, panel, supply, posts
<1>14. CASE RefreshHangs
  BY <1>14 DEF RefreshHangs, Go, Running, buffer, panel, supply, posts
<1>15. CASE SleepHangs
  BY <1>15 DEF SleepHangs, Go, Running, buffer, panel, supply, posts
<1>16. CASE Tick
  BY <1>16 DEF Tick, Less, buffer, panel, health
<1>17. CASE UNCHANGED vars
  BY <1>17 DEF vars, render, buffer, panel, supply, posts, health
<1> QED
  BY <1>1, <1>2, <1>3, <1>4, <1>5, <1>6, <1>7, <1>8, <1>9, <1>10,
     <1>11, <1>12, <1>13, <1>14, <1>15, <1>16, <1>17 DEF Next, Works, Hangs

\* Each step brings the last screen nearer to the glass, or takes no time.
LEMMA NextProgress == ASSUME ScreenInv, [Next]_vars PROVE Progress'
<1> USE Times DEF ScreenInv, TypeOK, Waits, Order, Truth, Progress, Answers, Numbers
<1>1. CASE Show
  BY <1>1 DEF Show, UiRender, render, buffer, panel, supply, health
<1>2. CASE PowerOff
  BY <1>2 DEF PowerOff, UiRender, render, buffer, panel, supply, health
<1>3. CASE Cut
  BY <1>3 DEF Cut, Interrupted, render, buffer, posts, health
<1>4. CASE Reset
  BY <1>4 DEF Reset, Boot, Interrupted
<1>5. CASE Take
  BY <1>5 DEF Take, Go, Running, panel, supply, posts, health
<1>6. CASE InitPanel
  BY <1>6 DEF InitPanel, Go, Running, buffer, panel, supply, posts, health
<1>7. CASE SendOld
  BY <1>7 DEF SendOld, Go, Running, buffer, supply, posts, health
<1>8. CASE SendNew
  BY <1>8 DEF SendNew, Go, Running, supply, posts, health
<1>9. CASE Refreshed
  BY <1>9 DEF Refreshed, Go, Running, buffer, supply, posts
<1>10. CASE RefreshGivenUp
  BY <1>10 DEF RefreshGivenUp, Go, Running, buffer, supply, posts, health
<1>11. CASE Slept
  BY <1>11 DEF Slept, Go, Running, buffer, panel, supply, posts, health
<1>12. CASE GivenUp
  BY <1>12 DEF GivenUp, Go, Running, buffer, panel, supply, posts, health
<1>13. CASE InitHangs
  BY <1>13 DEF InitHangs, Go, Running, buffer, panel, supply, posts
<1>14. CASE RefreshHangs
  BY <1>14 DEF RefreshHangs, Go, Running, buffer, panel, supply, posts
<1>15. CASE SleepHangs
  BY <1>15 DEF SleepHangs, Go, Running, buffer, panel, supply, posts
<1>16. CASE Tick
  BY <1>16 DEF Tick, Less, buffer, panel, health
<1>17. CASE UNCHANGED vars
  BY <1>17 DEF vars, render, buffer, panel, supply, posts, health
<1> QED
  BY <1>1, <1>2, <1>3, <1>4, <1>5, <1>6, <1>7, <1>8, <1>9, <1>10,
     <1>11, <1>12, <1>13, <1>14, <1>15, <1>16, <1>17 DEF Next, Works, Hangs

-----------------------------------------------------------------------------
(* The theorems                                                             *)

\* The invariant holds always.
THEOREM ScreenInvariance == Spec => []ScreenInv
<1>1. ScreenInv /\ [Next]_vars => ScreenInv'
  BY NextTypes, NextOrder, NextTruth, NextProgress DEF ScreenInv
<1> QED BY InitScreen, <1>1, PTL DEF Spec

\* Every variable keeps its type, whatever the panel does.
THEOREM ScreenTypes == Spec => []TypeOK
<1>1. ScreenInv => TypeOK
  BY DEF ScreenInv
<1> QED BY <1>1, ScreenInvariance, PTL

\* A panel that has answered so far is told before each refresh what it shows.
THEOREM ToldTheTruth == Spec => []OldDataIsGlass
<1>1. ScreenInv => OldDataIsGlass
  BY DEF ScreenInv, Truth, Answers, OldDataIsGlass
<1> QED BY <1>1, ScreenInvariance, PTL

\* The screen that is read is as old as two refreshes and a sleep at most,
\* however long a refresh takes before its wait is given up.
THEOREM LagIsBounded == Spec => []LagBounded
<1>1. ScreenInv => LagBounded
  <2> SUFFICES ASSUME ScreenInv, power = "on", healthy, posted # 0, glass # posted
               PROVE  age < AgeMax
    BY DEF LagBounded
  <2>1. /\ age \in Nat /\ left \in Nat
        /\ rpc \in {"wait", "init", "old", "new", "refresh", "sleep"}
    BY Times DEF ScreenInv, TypeOK, Truth, Answers
  <2>2. CASE queue # 0
    BY <2>1, <2>2, Times DEF ScreenInv, Progress, Answers
  <2>3. CASE queue = 0
    BY <2>1, <2>3, Times DEF ScreenInv, Progress, Answers
  <2> QED BY <2>2, <2>3
<1> QED BY <1>1, ScreenInvariance, PTL

\* No screen is replaced by one posted before it, whichever waits time out and
\* whenever the power goes.
THEOREM NeverBackwards == Spec => ScreensInOrder
<1>1. ScreenInv /\ [Next]_vars => [glass # Torn /\ glass' # Torn => glass' >= glass]_vars
  BY NextOrder
<1> QED BY <1>1, ScreenInvariance, PTL DEF Spec, ScreensInOrder
=============================================================================
