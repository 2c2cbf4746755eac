-------------------------- MODULE Registration_proofs --------------------------
(***************************************************************************)
(* Proofs about Registration, for every lifetime, retry delay, dialling    *)
(* limit and probe limit in the order the code gives them.                 *)
(***************************************************************************)
EXTENDS Registration, TLAPS

\* What the constants give: half the lifetime, and room for a retry in it.
LEMMA Times ==
  /\ Half \in Nat /\ Expires \in Nat /\ Half <= Expires - Half
  /\ RetryAfter \in Nat \ {0} /\ RetryAfter <= Half
  /\ DialMax \in Nat /\ KeepAlive \in Nat \ {0}
<1>1. Half \in Nat /\ Half <= Expires - Half /\ Expires \in Nat
  BY TimeAssumption, SMT DEF Half
<1> QED BY <1>1, TimeAssumption

\* What the counters give: they stay in range.
LEMMA Counters ==
  /\ \A n \in 0..Expires : Up(n) \in 0..Expires /\ Down(n) \in 0..Expires
  /\ \A n \in 0..Half : Down(n) \in 0..Half
  /\ \A n \in 0..DialMax : Down(n) \in 0..DialMax
BY Times DEF Up, Down

\* The two halves of the type invariant: what is chosen and what is counted.
Flags ==
  /\ mode \in {"boot", "idle", "dialling", "call"}
  /\ everRegistered \in BOOLEAN /\ lateOk \in BOOLEAN
Clocks ==
  /\ nextRegister \in 0..Half /\ dialFor \in 0..DialMax
  /\ binding \in 0..Expires /\ silence \in 0..KeepAlive
  /\ calm \in 0..Expires /\ busyFor \in 0..Expires

LEMMA Types == TypeOK <=> Flags /\ Clocks
  BY DEF TypeOK, Flags, Clocks

\* The phone starts unregistered, at boot.
LEMMA InitReg == Init => RegInv
<1> SUFFICES ASSUME Init PROVE RegInv
  OBVIOUS
<1>1. TypeOK
  <2>1. Flags
    BY DEF Init, Flags
  <2>2. Clocks
    BY Times DEF Init, Clocks
  <2> QED BY <2>1, <2>2, Types
<1>2. BootInv /\ SlackInv /\ DeferralInv
  BY DEF Init, BootInv, SlackInv, DeferralInv
<1> QED BY <1>1, <1>2 DEF RegInv

\* A registration that went through leaves the whole slack.
LEMMA RegisteredInv ==
  ASSUME RegInv, Registered, mode' = "idle", UNCHANGED <<dialFor, busyFor>>
  PROVE  RegInv'
<1>1. /\ binding' = Expires /\ silence' = 0 /\ everRegistered' = TRUE
      /\ nextRegister' = Half /\ UNCHANGED <<calm, lateOk, dialFor, busyFor>>
  BY DEF Registered, Renew, Refreshed, Calm
<1>2. TypeOK' /\ BootInv'
  <2>1. Flags'
    BY <1>1, Types DEF RegInv, Flags
  <2>2. Clocks'
    BY <1>1, Times, Types DEF RegInv, Clocks
  <2> QED BY <2>1, <2>2 DEF TypeOK, Flags, Clocks, BootInv
<1>3. SlackInv' /\ DeferralInv'
  BY <1>1, Times DEF RegInv, TypeOK, SlackInv, DeferralInv
<1> QED BY <1>2, <1>3 DEF RegInv

\* Trouble leaves a plan of half the lifetime at most: it is recent enough.
LEMMA TroubleInv ==
  ASSUME RegInv, calm' = 0, mode' = "idle", UNCHANGED <<dialFor, busyFor>>,
         nextRegister' \in 0..Half, everRegistered' \in BOOLEAN, lateOk' \in BOOLEAN,
         binding' \in 0..Expires, silence' \in 0..KeepAlive
  PROVE  RegInv'
<1>1. TypeOK' /\ BootInv'
  <2>1. Flags'
    BY DEF Flags
  <2>2. Clocks'
    BY Times, Types DEF RegInv, Clocks
  <2> QED BY <2>1, <2>2 DEF TypeOK, Flags, Clocks, BootInv
<1>2. calm' + nextRegister' <= Half /\ calm' + binding' <= Expires
  <2>1. \A n \in 0..Half, b \in 0..Expires : 0 + n <= Half /\ 0 + b <= Expires
    BY Times
  <2> QED BY <2>1, Zenon
<1>3. SlackInv' /\ DeferralInv'
  BY <1>2, Zenon DEF SlackInv, DeferralInv
<1> QED BY <1>1, <1>3 DEF RegInv

\* A late 200 taken for the registrar's, with the REGISTER lost or not.
LEMMA MistakenInv ==
  ASSUME RegInv, RegisteredByMistake, mode' = "idle", UNCHANGED <<dialFor, busyFor>>
  PROVE  RegInv'
<1>1. everRegistered' = TRUE /\ nextRegister' = Half /\ lateOk' = FALSE
  BY DEF RegisteredByMistake, Refreshed
<1>2. CASE Renew /\ Calm
  <2>1. binding' = Expires /\ silence' = 0 /\ calm' = calm
    BY <1>2 DEF Renew, Calm
  <2>2. TypeOK' /\ BootInv'
    <3>1. Flags'
      BY <1>1 DEF Flags
    <3>2. Clocks'
      BY <1>1, <2>1, Times, Types DEF RegInv, Clocks
    <3> QED BY <3>1, <3>2 DEF TypeOK, Flags, Clocks, BootInv
  <2>3. SlackInv' /\ DeferralInv'
    BY <1>1, <2>1, Times DEF RegInv, TypeOK, SlackInv, DeferralInv
  <2> QED BY <2>2, <2>3 DEF RegInv
<1>3. CASE UNCHANGED pbx /\ Trouble
  <2>1. calm' = 0 /\ binding' \in 0..Expires /\ silence' \in 0..KeepAlive
    BY <1>3 DEF pbx, Trouble, RegInv, TypeOK
  <2>2. nextRegister' \in 0..Half
    BY <1>1, Times
  <2>3. everRegistered' \in BOOLEAN /\ lateOk' \in BOOLEAN
    BY <1>1
  <2> QED BY <2>1, <2>2, <2>3, TroubleInv
<1> QED BY <1>2, <1>3 DEF RegisteredByMistake

\* A registration that failed, at boot or later.
LEMMA FailedInv ==
  ASSUME RegInv, NotRegistered, mode' = "idle", UNCHANGED <<dialFor, busyFor>>,
         nextRegister' \in {nextRegister, RetryAfter}
  PROVE  RegInv'
<1>1. calm' = 0 /\ everRegistered' \in BOOLEAN /\ lateOk' \in BOOLEAN
  BY DEF NotRegistered, Trouble, RegInv, TypeOK
<1>2. binding' \in 0..Expires /\ silence' \in 0..KeepAlive
  BY Times DEF NotRegistered, Renew, pbx, RegInv, TypeOK
<1>3. nextRegister' \in 0..Half
  BY Times DEF RegInv, TypeOK
<1> QED BY <1>1, <1>2, <1>3, TroubleInv

\* The phone's own steps between registrations move no clock.
LEMMA CallsInv ==
  ASSUME RegInv, Dial \/ DialDone \/ CallComes \/ CallEnds \/ Reset
  PROVE  RegInv'
<1>1. UNCHANGED <<binding, silence, calm, busyFor>>
  BY DEF Dial, DialDone, CallComes, CallEnds, Reset, pbx, history
<1>2. TypeOK'
  <2>1. Flags'
    BY Types DEF Dial, DialDone, CallComes, CallEnds, Reset, RegInv, Flags
  <2>2. Clocks'
    BY <1>1, Times, Types DEF Dial, DialDone, CallComes, CallEnds, Reset, RegInv, Clocks
  <2> QED BY <2>1, <2>2 DEF TypeOK, Flags, Clocks
<1>3. BootInv'
  BY DEF Dial, DialDone, CallComes, CallEnds, Reset, RegInv, BootInv
<1>4. SlackInv' /\ DeferralInv'
  BY <1>1 DEF Dial, DialDone, CallComes, CallEnds, Reset, RegInv, SlackInv, DeferralInv
<1> QED BY <1>2, <1>3, <1>4 DEF RegInv

\* A tick takes as much from the plan as from the binding, and lets calm grow by
\* no more.
LEMMA TickInv == ASSUME RegInv, Tick PROVE RegInv'
<1>1. /\ mode' = mode /\ everRegistered' = everRegistered /\ lateOk' \in BOOLEAN
      /\ nextRegister' = Down(nextRegister) /\ dialFor' = Down(dialFor)
      /\ binding' = 0 \/ binding' = Down(binding)
      /\ calm' = Up(calm) \/ calm' = 0
      /\ mode = "idle" /\ everRegistered => nextRegister > 0
      /\ mode # "idle" => busyFor' = Up(busyFor)
      /\ busyFor' \in {0, Up(busyFor)}
      /\ mode # "boot"
  BY DEF Tick, Waits, Due, Trouble, RegInv, TypeOK
<1>2. silence' \in 0..KeepAlive
  BY TimeAssumption DEF Tick, RegInv, TypeOK
<1>3. binding' = 0 /\ binding' # Down(binding) => calm' = 0
  BY TimeAssumption DEF Tick, Pruned, Trouble
<1>4. TypeOK' /\ BootInv'
  <2>1. Flags'
    BY <1>1, Types DEF RegInv, Flags
  <2>2. Clocks'
    BY <1>1, <1>2, Times, Counters, Types DEF RegInv, Clocks
  <2> QED BY <1>1, <2>1, <2>2 DEF TypeOK, Flags, Clocks, BootInv
<1>5. SlackInv'
  BY <1>1, <1>3, Times DEF RegInv, TypeOK, SlackInv, Up, Down
<1>6. DeferralInv'
  BY <1>1, <1>3, Times DEF RegInv, TypeOK, DeferralInv, Up, Down
<1> QED BY <1>4, <1>5, <1>6 DEF RegInv

\* Every step keeps the inductive invariant.
LEMMA StepReg == RegInv /\ [Next]_vars => RegInv'
<1> SUFFICES ASSUME RegInv, [Next]_vars PROVE RegInv'
  OBVIOUS
<1>1. CASE BootRegister
  BY <1>1, RegisteredInv, MistakenInv, FailedInv DEF BootRegister
<1>2. CASE RefreshOk \/ RefreshByMistake \/ RefreshFails
  <2>1. mode' = "idle" /\ UNCHANGED <<dialFor, busyFor>>
    BY <1>2 DEF RefreshOk, RefreshByMistake, RefreshFails, InMaintain, Due
  <2> QED
    BY <1>2, <2>1, RegisteredInv, MistakenInv, FailedInv
       DEF RefreshOk, RefreshByMistake, RefreshFails
<1>3. CASE Dial \/ DialDone \/ CallComes \/ CallEnds \/ Reset
  BY <1>3, CallsInv
<1>4. CASE Tick
  BY <1>4, TickInv
<1>5. CASE UNCHANGED vars
  BY <1>5 DEF vars, phone, pbx, history, RegInv, TypeOK, BootInv, SlackInv, DeferralInv
<1> QED BY <1>1, <1>2, <1>3, <1>4, <1>5 DEF Next, Loop

-----------------------------------------------------------------------------
(* Theorems                                                                 *)

\* The plan of the next refresh and the age of the last trouble always agree.
THEOREM RegInvariance == Spec => []RegInv
<1> QED BY InitReg, StepReg, PTL DEF Spec

\* Half a lifetime after the last thing that went wrong, an idle phone that has
\* registered since boot is bound.
THEOREM Recovery == Spec => []RecoversInTime
<1>1. RegInv => RecoversInTime
  BY Times DEF RegInv, TypeOK, SlackInv, RecoversInTime
<1> QED BY <1>1, RegInvariance, PTL

\* If nothing was lost for a lifetime, only a call longer than the slack lets the
\* binding lapse.
THEOREM Lapse == Spec => LapseNeedsLongCall
<1>1. ASSUME RegInv, [Next]_vars,
             everRegistered, binding > 0, binding' = 0, ~Pruned, calm = Expires
      PROVE  mode # "idle" /\ busyFor' >= Expires - Half
  <2>1. Tick
    <3>1. binding' # binding /\ ~Renew
      BY <1>1, Times DEF RegInv, TypeOK, Renew
    <3>2. ~UNCHANGED pbx /\ ~Registered /\ ~RegisteredByMistake /\ ~NotRegistered
      BY <3>1 DEF pbx, Registered, RegisteredByMistake, NotRegistered
    <3>3. ~Loop
      BY <3>2 DEF Loop, BootRegister, RefreshOk, RefreshByMistake, RefreshFails
    <3>4. ~Dial /\ ~DialDone /\ ~CallComes /\ ~CallEnds /\ ~Reset /\ ~UNCHANGED vars
      BY <3>2 DEF Dial, DialDone, CallComes, CallEnds, Reset, vars
    <3> QED BY <1>1, <3>3, <3>4 DEF Next
  <2>2. binding' = Down(binding) /\ mode # "boot"
    BY <1>1, <2>1 DEF Tick, Waits
  <2>3. binding = 1
    BY <1>1, <2>2 DEF RegInv, TypeOK, Down
  <2>4. nextRegister = 0 /\ 1 + busyFor >= Expires - Half
    <3>1. ~(calm + binding <= Expires)
      BY <1>1, <2>3, Times
    <3>2. IF nextRegister > 0 THEN binding >= nextRegister + (Expires - Half)
                              ELSE binding + busyFor >= Expires - Half
      BY <1>1, <3>1 DEF RegInv, DeferralInv
    <3>3. Expires - Half >= 1 /\ nextRegister \in Nat
      BY <1>1, Times DEF RegInv, TypeOK
    <3> QED BY <2>3, <3>2, <3>3, Times
  <2>5. mode # "idle" /\ busyFor' = Up(busyFor)
    BY <1>1, <2>1, <2>4 DEF Tick, Waits, Due
  <2> QED BY <1>1, <2>4, <2>5, Times DEF RegInv, TypeOK, Up
<1>2. RegInv /\ [Next]_vars =>
        [everRegistered /\ binding > 0 /\ binding' = 0 /\ ~Pruned /\ calm = Expires
           => mode # "idle" /\ busyFor' >= Expires - Half]_vars
  BY <1>1
<1> QED BY <1>2, RegInvariance, PTL DEF Spec, LapseNeedsLongCall
=============================================================================
