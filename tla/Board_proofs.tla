------------------------------ MODULE Board_proofs ------------------------------
(***************************************************************************)
(* Proofs about Board, for every choice of rails, every length of the      *)
(* controller's queue, every number of presses and every lost transfer.    *)
(***************************************************************************)
EXTENDS Board, SequenceTheorems, TLAPS

\* What stands on the rails: the sets the registers are made of.
Pin == Pins(0) \cup Pins(1)
Write == [port : Port, on : SUBSET Pin, off : SUBSET Pin]

\* A write that takes no rail down and moves no audio to the 4G module.
Gentle(w) ==
  /\ w.port = 0 => w.off \cap Rail = {}
  /\ w.port = 1 => "4G_PWR" \notin w.off /\ "AUDIO_ROUTE" \notin w.on

\* Stages in which the rails may be up.
Before == {"direction0", "direction1", "rails"}
After == {"shutdown", "dark", "asleep"}

-----------------------------------------------------------------------------
(* The writes of the driver                                                 *)

\* Pins raised one by one.
Raised(p, seq) ==
  [i \in 1..Len(seq) |-> Drive(p, {seq[i]}, IF i = 1 THEN Pins(p) ELSE {})]

LEMMA RaiseShape ==
  ASSUME NEW p \in Port, NEW seq \in Seq(Pins(p))
  PROVE  /\ Raised(p, seq) \in Seq(Write) /\ Len(Raised(p, seq)) = Len(seq)
         /\ \A i \in 1..Len(seq) :
              Raised(p, seq)[i] = Drive(p, {seq[i]}, IF i = 1 THEN Pins(p) ELSE {})
<1> DEFINE r == Raised(p, seq)
<1>1. Len(seq) \in Nat /\ \A i \in 1..Len(seq) : seq[i] \in Pins(p)
  OBVIOUS
<1>2. Pins(p) \subseteq Pin
  BY DEF Port, Pin, Pins
<1>3. \A i \in 1..Len(seq) : Drive(p, {seq[i]}, IF i = 1 THEN Pins(p) ELSE {}) \in Write
  BY <1>1, <1>2 DEF Drive, Write
<1>4. r \in [1..Len(seq) -> Write]
  BY <1>3 DEF Raised
<1> HIDE DEF r
<1>5. r \in Seq(Write)
  BY <1>1, <1>4, SeqDef
<1>6. Len(r) \in Nat /\ 1..Len(r) = 1..Len(seq)
  BY <1>4, <1>5, LenProperties
<1>7. Len(r) = Len(seq)
  <2>1. Len(r) \in 1..Len(r) \/ Len(r) = 0
    BY <1>6
  <2>2. Len(seq) \in 1..Len(seq) \/ Len(seq) = 0
    BY <1>1
  <2> QED BY <1>1, <1>6, <2>1, <2>2
<1> QED BY <1>5, <1>7 DEF r, Raised

\* Two rows of writes, one after the other.
LEMMA Joined ==
  ASSUME NEW s \in Seq(Write), NEW t \in Seq(Write)
  PROVE  /\ s \o t \in Seq(Write) /\ Len(s \o t) = Len(s) + Len(t)
         /\ \A i \in 1..Len(s) : (s \o t)[i] = s[i]
         /\ \A i \in 1..Len(t) : (s \o t)[Len(s) + i] = t[i]
<1>1. Len(s) \in Nat /\ Len(t) \in Nat
  OBVIOUS
<1>2. /\ s \o t \in Seq(Write) /\ Len(s \o t) = Len(s) + Len(t)
      /\ \A i \in 1 .. Len(s) + Len(t) : (s \o t)[i] = IF i <= Len(s) THEN s[i] ELSE t[i - Len(s)]
  BY ConcatProperties
<1>3. ASSUME NEW i \in 1..Len(t) PROVE (s \o t)[Len(s) + i] = t[i]
  <2>1. Len(s) + i \in 1..(Len(s) + Len(t)) /\ ~(Len(s) + i <= Len(s)) /\ Len(s) + i - Len(s) = i
    BY <1>1
  <2> QED BY <1>2, <2>1
<1> QED BY <1>1, <1>2, <1>3

\* The bring-up, write by write: the rails and the two other pins of port 0,
\* the three pins of port 1, the audio back, the pulse of the touch reset.
LEMMA BringUpShape ==
  /\ Len(RailSeq) \in Nat \ {0}
  /\ BringUp \in Seq(Write) /\ Len(BringUp) = Len(RailSeq) + 8
  /\ \A i \in 1..(Len(RailSeq) + 8) :
       /\ BringUp[i].port = 0 =>
            /\ i <= Len(RailSeq) => RailSeq[i] \in BringUp[i].on
            /\ i > 1 => BringUp[i].off \cap Rail = {}
       /\ i <= Len(RailSeq) => BringUp[i].port = 0
       /\ i = Len(RailSeq) + 3 => BringUp[i].port = 1 /\ "4G_PWR" \in BringUp[i].on
       /\ i > Len(RailSeq) + 3 /\ BringUp[i].port = 1 => "4G_PWR" \notin BringUp[i].off
       /\ i = Len(RailSeq) + 6 => BringUp[i].port = 1 /\ "AUDIO_ROUTE" \in BringUp[i].off
                                  /\ BringUp[i].on = {}
       /\ i > Len(RailSeq) + 6 => BringUp[i].port = 0
<1> DEFINE n == Len(RailSeq)
           A == Raised(0, P0Seq)
           B == Raised(1, P1Seq)
           C == <<Clear(1, "AUDIO_ROUTE")>>
           D == Pulse(0, "TOUCH_RST")
<1>1. /\ n \in Nat \ {0} /\ RailSeq \in Seq(Rail)
      /\ \A i \in 1..n : RailSeq[i] \in Rail
  BY RailAssumption
<1>2. /\ P0Seq \in Seq(Pins(0)) /\ Len(P0Seq) = n + 2
      /\ \A i \in 1..n : P0Seq[i] = RailSeq[i]
      /\ \A i \in 1..(n + 2) : P0Seq[i] \in Pins(0)
  <2>1. RailSeq \in Seq(Pins(0)) /\ <<"SPK_AMP_EN", "TOUCH_RST">> \in Seq(Pins(0))
    BY <1>1 DEF Pins
  <2> QED BY <1>1, <2>1 DEF P0Seq
<1>3. P1Seq \in Seq(Pins(1)) /\ Len(P1Seq) = 3 /\ P1Seq[1] = "4G_PWR"
  BY DEF P1Seq, Pins
<1>4. /\ A \in Seq(Write) /\ Len(A) = n + 2
      /\ \A i \in 1..(n + 2) : A[i] = Drive(0, {P0Seq[i]}, IF i = 1 THEN Pins(0) ELSE {})
  <2>1. 0 \in Port
    BY DEF Port
  <2> QED BY <1>2, <2>1, RaiseShape, ZenonT(40)
<1>5. /\ B \in Seq(Write) /\ Len(B) = 3
      /\ \A i \in 1..3 : B[i] = Drive(1, {P1Seq[i]}, IF i = 1 THEN Pins(1) ELSE {})
  <2>1. 1 \in Port
    BY DEF Port
  <2> QED BY <1>3, <2>1, RaiseShape
<1>6. C \in Seq(Write) /\ Len(C) = 1 /\ C[1] = Drive(1, {}, {"AUDIO_ROUTE"})
  BY DEF Clear, Drive, Write, Pin, Pins, Port
<1>7. /\ D \in Seq(Write) /\ Len(D) = 2
      /\ D[1] = Drive(0, {}, {"TOUCH_RST"}) /\ D[2] = Drive(0, {"TOUCH_RST"}, {})
  BY DEF Pulse, Clear, Set, Drive, Write, Pin, Pins, Port
<1>8. BringUp = A \o B \o C \o D
  BY DEF BringUp, Raised
<1> HIDE DEF A, B, C, D
<1>9. /\ BringUp \in Seq(Write) /\ Len(BringUp) = n + 8
      /\ \A i \in 1..(n + 2) : BringUp[i] = A[i]
      /\ \A i \in 1..3 : BringUp[n + 2 + i] = B[i]
      /\ BringUp[n + 6] = C[1]
      /\ BringUp[n + 7] = D[1] /\ BringUp[n + 8] = D[2]
  <2> DEFINE AB == A \o B
             ABC == AB \o C
             ABCD == ABC \o D
  <2>1. /\ AB \in Seq(Write) /\ Len(AB) = Len(A) + Len(B)
        /\ \A i \in 1..Len(A) : AB[i] = A[i]
        /\ \A i \in 1..Len(B) : AB[Len(A) + i] = B[i]
    BY <1>4, <1>5, Joined
  <2> HIDE DEF AB
  <2>2. /\ ABC \in Seq(Write) /\ Len(ABC) = Len(AB) + Len(C)
        /\ \A i \in 1..Len(AB) : ABC[i] = AB[i]
        /\ \A i \in 1..Len(C) : ABC[Len(AB) + i] = C[i]
    BY <1>6, <2>1, Joined
  <2> HIDE DEF ABC
  <2>3. /\ ABCD \in Seq(Write) /\ Len(ABCD) = Len(ABC) + Len(D)
        /\ \A i \in 1..Len(ABC) : ABCD[i] = ABC[i]
        /\ \A i \in 1..Len(D) : ABCD[Len(ABC) + i] = D[i]
    BY <1>7, <2>2, Joined
  <2>4. BringUp = ABCD
    BY <1>8 DEF AB, ABC
  <2> HIDE DEF ABCD
  <2>5. Len(A) = n + 2 /\ Len(AB) = n + 5 /\ Len(ABC) = n + 6 /\ Len(ABCD) = n + 8
    BY <1>1, <1>4, <1>5, <1>6, <1>7, <2>1, <2>2, <2>3
  <2>6. \A i \in 1..(n + 2) : ABCD[i] = A[i]
    BY <1>1, <2>1, <2>2, <2>3, <2>5
  <2>7. \A i \in 1..3 : ABCD[n + 2 + i] = B[i]
    <3>1. ASSUME NEW i \in 1..3 PROVE ABCD[n + 2 + i] = B[i]
      <4>1. n + 2 + i \in 1..Len(AB) /\ n + 2 + i \in 1..Len(ABC)
        BY <1>1, <2>5
      <4>2. AB[n + 2 + i] = B[i]
        BY <1>5, <2>1, <2>5
      <4> QED BY <2>2, <2>3, <4>1, <4>2
    <3> QED BY <3>1
  <2>8. ABCD[n + 6] = C[1]
    <3>1. n + 6 \in 1..Len(ABC) /\ 1 \in 1..Len(C) /\ n + 6 = Len(AB) + 1
      BY <1>1, <1>6, <2>5
    <3> QED BY <2>2, <2>3, <3>1
  <2>9. ABCD[n + 7] = D[1] /\ ABCD[n + 8] = D[2]
    <3>1. 1 \in 1..Len(D) /\ 2 \in 1..Len(D) /\ n + 7 = Len(ABC) + 1 /\ n + 8 = Len(ABC) + 2
      BY <1>1, <1>7, <2>5
    <3> QED BY <2>3, <3>1
  <2> QED BY <2>3, <2>4, <2>5, <2>6, <2>7, <2>8, <2>9
<1>10. ASSUME NEW i \in 1..(n + 8)
       PROVE  \/ /\ i <= n + 2
                 /\ BringUp[i].port = 0 /\ (i > 1 => BringUp[i].off = {})
                 /\ i <= n => RailSeq[i] \in BringUp[i].on
              \/ /\ i = n + 3
                 /\ BringUp[i].port = 1 /\ "4G_PWR" \in BringUp[i].on
              \/ /\ i \in {n + 4, n + 5}
                 /\ BringUp[i].port = 1 /\ BringUp[i].off = {}
              \/ /\ i = n + 6
                 /\ BringUp[i].port = 1 /\ BringUp[i].off = {"AUDIO_ROUTE"} /\ BringUp[i].on = {}
              \/ /\ i \in {n + 7, n + 8}
                 /\ BringUp[i].port = 0 /\ BringUp[i].off \subseteq {"TOUCH_RST"}
  <2>1. CASE i <= n + 2
    <3>1. BringUp[i] = Drive(0, {P0Seq[i]}, IF i = 1 THEN Pins(0) ELSE {})
      <4>1. i \in 1..(n + 2)
        BY <1>1, <2>1
      <4>2. BringUp[i] = A[i]
        BY <1>9, <4>1
      <4> QED BY <1>4, <4>1, <4>2
    <3> QED BY <1>1, <1>2, <2>1, <3>1 DEF Drive
  <2>2. CASE i \in {n + 3, n + 4, n + 5}
    <3>1. PICK j \in 1..3 : i = n + 2 + j
      BY <1>1, <2>2
    <3>2. BringUp[i] = Drive(1, {P1Seq[j]}, IF j = 1 THEN Pins(1) ELSE {})
      BY <1>5, <1>9, <3>1
    <3> QED BY <1>1, <1>3, <3>1, <3>2 DEF Drive
  <2>3. CASE i = n + 6
    BY <1>6, <1>9, <2>3 DEF Drive
  <2>4. CASE i \in {n + 7, n + 8}
    BY <1>7, <1>9, <2>4 DEF Drive
  <2> QED BY <1>1, <2>1, <2>2, <2>3, <2>4
<1>11. "TOUCH_RST" \notin Rail
  BY RailAssumption
<1> QED BY <1>1, <1>9, <1>10, <1>11, SMTT(40)

\* The calls made once the rails are up take none of them down.
LEMMA GentleCalls ==
  ASSUME NEW ws \in {SetSpeakerAmp(TRUE), SetSpeakerAmp(FALSE), AudioRouteLocal,
                     ResetKeyboard, ResetTouch}
  PROVE  ws \in Seq(Write) /\ \A i \in DOMAIN ws : Gentle(ws[i])
<1>1. {"SPK_AMP_EN", "TOUCH_RST"} \cap Rail = {}
  BY RailAssumption
<1>2. \A pin \in {"SPK_AMP_EN", "TOUCH_RST"} :
        /\ Set(0, pin) \in Write /\ Gentle(Set(0, pin))
        /\ Clear(0, pin) \in Write /\ Gentle(Clear(0, pin))
  BY <1>1 DEF Set, Clear, Drive, Write, Gentle, Port, Pin, Pins
<1>3. /\ Clear(1, "AUDIO_ROUTE") \in Write /\ Gentle(Clear(1, "AUDIO_ROUTE"))
      /\ Set(1, "KEYBOARD_RST") \in Write /\ Gentle(Set(1, "KEYBOARD_RST"))
      /\ Clear(1, "KEYBOARD_RST") \in Write /\ Gentle(Clear(1, "KEYBOARD_RST"))
  BY DEF Set, Clear, Drive, Write, Gentle, Port, Pin, Pins
<1>4. \/ \E w \in Write : ws = <<w>> /\ Gentle(w)
      \/ \E v, w \in Write : ws = <<v, w>> /\ Gentle(v) /\ Gentle(w)
  BY <1>2, <1>3 DEF SetSpeakerAmp, AudioRouteLocal, ResetKeyboard, ResetTouch, Pulse
<1>5. ASSUME NEW w \in Write, ws = <<w>>, Gentle(w)
      PROVE  ws \in Seq(Write) /\ \A i \in DOMAIN ws : Gentle(ws[i])
  <2>1. DOMAIN ws = {1} /\ ws[1] = w
    BY <1>5
  <2> QED BY <1>5, <2>1
<1>6. ASSUME NEW v \in Write, NEW w \in Write, ws = <<v, w>>, Gentle(v), Gentle(w)
      PROVE  ws \in Seq(Write) /\ \A i \in DOMAIN ws : Gentle(ws[i])
  <2>1. DOMAIN ws = {1, 2} /\ ws[1] = v /\ ws[2] = w
    BY <1>6
  <2> QED BY <1>6, <2>1
<1> QED BY <1>4, <1>5, <1>6

-----------------------------------------------------------------------------
(* The rails                                                                *)

Kinds ==
  /\ shadow \in [Port -> SUBSET Pin] /\ reg \in [Port -> SUBSET Pin]
  /\ writes \in Seq(Write)
  /\ rails \in BOOLEAN /\ whole \subseteq Port

\* Of the bring-up so many writes are done, and the shadow shows it.
Done == Len(BringUp) - Len(writes)

Rising == stage = "rails" =>
  /\ Len(writes) <= Len(BringUp)
  /\ \A i \in 1..Len(writes) : writes[i] = BringUp[Done + i]
  /\ \A i \in 1..Len(RailSeq) : i <= Done => RailSeq[i] \in shadow[0]
  /\ Done >= Len(RailSeq) + 3 => "4G_PWR" \in shadow[1]
  /\ Done >= Len(RailSeq) + 6 => "AUDIO_ROUTE" \notin shadow[1]

\* Once they are up, the shadow has them and no write that waits takes them down.
Standing ==
  /\ rails => /\ stage \notin Before \cup After
              /\ \A p \in Port : Powered(p, shadow[p])
              /\ \A i \in DOMAIN writes : Gentle(writes[i])
  /\ ~rails => whole = {}
  /\ PortsStayWhole

RailsInv == Kinds /\ Rising /\ Standing

\* A gentle write keeps a port as it should be.
LEMMA GentleWrite ==
  ASSUME NEW w \in Write, Gentle(w), NEW pins, Powered(w.port, pins)
  PROVE  Powered(w.port, (pins \ w.off) \cup w.on)
BY DEF Write, Gentle, Powered, Port

\* The tail of a row.
LEMMA Next1 ==
  ASSUME NEW S, NEW s \in Seq(S), s # <<>>
  PROVE  /\ Len(s) \in Nat \ {0} /\ Head(s) = s[1] /\ Head(s) \in S
         /\ Tail(s) \in Seq(S) /\ Len(Tail(s)) = Len(s) - 1
         /\ \A i \in 1..(Len(s) - 1) : Tail(s)[i] = s[i + 1]
         /\ DOMAIN s = 1..Len(s) /\ DOMAIN Tail(s) = 1..(Len(s) - 1)
OBVIOUS

\* One write of the bus, lost or not.
LEMMA BusRails == ASSUME RailsInv, Bus PROVE RailsInv'
<1> DEFINE w == Head(writes)
           val == (shadow[w.port] \ w.off) \cup w.on
<1>1. PICK landed \in BOOLEAN :
        /\ BusWrite(landed)
        /\ whole' = IF landed /\ rails THEN whole \cup {Head(writes).port} ELSE whole
        /\ UNCHANGED <<stage, rails>>
  BY DEF Bus
<1>2. /\ writes # <<>> /\ writes' = Tail(writes)
      /\ shadow' = [shadow EXCEPT ![w.port] = val]
      /\ reg' = IF landed THEN [reg EXCEPT ![w.port] = val] ELSE reg
  BY <1>1 DEF BusWrite
<1>3. /\ w \in Write /\ w.port \in Port /\ w = writes[1]
      /\ w.on \subseteq Pin /\ val \subseteq Pin
      /\ Len(writes) \in Nat \ {0} /\ writes' \in Seq(Write)
      /\ Len(writes') = Len(writes) - 1
      /\ \A i \in 1..Len(writes') : writes'[i] = writes[i + 1]
      /\ DOMAIN writes = 1..Len(writes) /\ DOMAIN writes' = 1..Len(writes')
  <2>1. writes \in Seq(Write) /\ shadow \in [Port -> SUBSET Pin]
    BY DEF RailsInv, Kinds
  <2>2. /\ w \in Write /\ w = writes[1]
        /\ Len(writes) \in Nat \ {0} /\ writes' \in Seq(Write)
        /\ Len(writes') = Len(writes) - 1
        /\ \A i \in 1..Len(writes') : writes'[i] = writes[i + 1]
        /\ DOMAIN writes = 1..Len(writes) /\ DOMAIN writes' = 1..Len(writes')
    BY <1>2, <2>1, Next1
  <2>3. w.port \in Port /\ w.on \subseteq Pin
    BY <2>2 DEF Write
  <2>4. val \subseteq Pin
    BY <2>1, <2>3
  <2> QED BY <2>2, <2>3, <2>4
<1> HIDE DEF w, val
<1>4. /\ shadow'[w.port] = val
      /\ \A p \in Port : p # w.port => shadow'[p] = shadow[p]
      /\ reg'[w.port] = IF landed THEN val ELSE reg[w.port]
      /\ \A p \in Port : p # w.port => reg'[p] = reg[p]
  BY <1>2, <1>3 DEF RailsInv, Kinds
<1>5. Kinds'
  BY <1>1, <1>2, <1>3 DEF RailsInv, Kinds, w
<1>6. Rising'
  <2> SUFFICES ASSUME stage = "rails" PROVE Rising'
    BY <1>1 DEF Rising
  <2> DEFINE k == Done + 1
             n == Len(RailSeq)
  <2>1. /\ Len(BringUp) = n + 8 /\ n \in Nat \ {0}
        /\ Done \in 0..(n + 8) /\ k \in 1..(n + 8) /\ Done' = k
        /\ w = BringUp[k]
    BY <1>3, BringUpShape DEF Rising, RailsInv, Done
  <2>2. /\ k <= n => w.port = 0 /\ RailSeq[k] \in w.on
        /\ w.port = 0 /\ k > 1 => w.off \cap Rail = {}
        /\ k = n + 3 => w.port = 1 /\ "4G_PWR" \in w.on
        /\ k > n + 3 /\ w.port = 1 => "4G_PWR" \notin w.off
        /\ k = n + 6 => w.port = 1 /\ "AUDIO_ROUTE" \in w.off /\ w.on = {}
        /\ k > n + 6 => w.port = 0
    BY <2>1, BringUpShape
  <2> HIDE DEF k
  <2>3. Len(writes') <= Len(BringUp)
    BY <1>3, <2>1 DEF Rising, RailsInv
  <2>4. \A i \in 1..Len(writes') : writes'[i] = BringUp[Done' + i]
    <3>1. ASSUME NEW i \in 1..Len(writes') PROVE writes'[i] = BringUp[Done' + i]
      <4>1. i + 1 \in 1..Len(writes) /\ Done + (i + 1) = Done' + i
        BY <1>3, <2>1 DEF k
      <4> QED BY <1>3, <4>1 DEF Rising, RailsInv
    <3> QED BY <3>1
  <2>5. \A i \in 1..n : i <= k => RailSeq[i] \in shadow'[0]
    <3>1. ASSUME NEW i \in 1..n, i <= k PROVE RailSeq[i] \in shadow'[0]
      <4>1. CASE i = k
        BY <1>4, <2>1, <2>2, <3>1, <4>1 DEF val
      <4>2. CASE i # k
        <5>1. i <= Done /\ k > 1 /\ RailSeq[i] \in shadow[0] /\ RailSeq[i] \in Rail
          BY <2>1, <3>1, <4>2 DEF Rising, RailsInv, k, Rail
        <5> QED BY <1>4, <2>2, <5>1 DEF val, Port
      <4> QED BY <4>1, <4>2
    <3> QED BY <3>1
  <2>6. k >= n + 3 => "4G_PWR" \in shadow'[1]
    <3>1. CASE k = n + 3
      BY <1>4, <2>2, <3>1 DEF val
    <3>2. CASE k > n + 3
      <4>1. "4G_PWR" \in shadow[1]
        BY <2>1, <3>2 DEF Rising, RailsInv, k
      <4> QED BY <1>4, <2>2, <3>2, <4>1 DEF val, Port
    <3> QED BY <2>1, <3>1, <3>2
  <2>7. k >= n + 6 => "AUDIO_ROUTE" \notin shadow'[1]
    <3>1. CASE k = n + 6
      BY <1>4, <2>2, <3>1 DEF val
    <3>2. CASE k > n + 6
      <4>1. "AUDIO_ROUTE" \notin shadow[1]
        BY <2>1, <3>2 DEF Rising, RailsInv, k
      <4> QED BY <1>4, <2>2, <3>2, <4>1 DEF val, Port
    <3> QED BY <2>1, <3>1, <3>2
  <2> QED BY <2>1, <2>3, <2>4, <2>5, <2>6, <2>7 DEF Rising
<1>7. Standing'
  <2>1. CASE ~rails
    BY <1>1, <2>1 DEF RailsInv, Standing, PortsStayWhole, Kinds
  <2>2. CASE rails
    <3>1. Gentle(w)
      BY <1>3, <2>2 DEF RailsInv, Standing
    <3>2. Powered(w.port, shadow[w.port])
      BY <1>3, <2>2 DEF RailsInv, Standing
    <3>3. Powered(w.port, val)
      BY <1>3, <3>1, <3>2, GentleWrite DEF val
    <3>4. \A p \in Port : Powered(p, shadow'[p])
      BY <1>4, <2>2, <3>3 DEF RailsInv, Standing
    <3>5. \A i \in DOMAIN writes' : Gentle(writes'[i])
      <4>1. \A i \in 1..Len(writes') : i + 1 \in 1..Len(writes)
        BY <1>3
      <4> QED BY <1>3, <2>2, <4>1 DEF RailsInv, Standing
    <3>6. \A p \in whole' : Powered(p, reg'[p])
      BY <1>1, <1>4, <2>2, <3>3 DEF RailsInv, Standing, PortsStayWhole, Kinds, w
    <3> QED BY <1>1, <2>2, <3>4, <3>5, <3>6 DEF RailsInv, Standing, PortsStayWhole
  <2> QED BY <2>1, <2>2 DEF RailsInv, Kinds
<1> QED BY <1>5, <1>6, <1>7 DEF RailsInv

\* A call of the driver made between the bring-up and the end.
LEMMA CallRails ==
  ASSUME RailsInv, UNCHANGED <<rails, whole>>,
         stage \notin Before \cup After, stage' \notin Before \cup After,
         NEW ws \in {SetSpeakerAmp(TRUE), SetSpeakerAmp(FALSE), AudioRouteLocal,
                     ResetKeyboard, ResetTouch},
         Call(ws)
  PROVE  RailsInv'
<1>1. ws \in Seq(Write) /\ \A i \in DOMAIN ws : Gentle(ws[i])
  BY GentleCalls
<1>2. writes' = ws /\ UNCHANGED <<shadow, reg>>
  BY DEF Call, chip
<1>3. Kinds'
  BY <1>1, <1>2 DEF RailsInv, Kinds
<1>4. Rising'
  BY DEF Rising, Before
<1>5. Standing'
  BY <1>1, <1>2 DEF RailsInv, Standing, PortsStayWhole
<1> QED BY <1>3, <1>4, <1>5 DEF RailsInv

\* A step that writes nothing.
LEMMA StillRails ==
  ASSUME RailsInv, UNCHANGED <<shadow, writes, reg, rails, whole>>,
         \/ stage' = stage
         \/ stage' # "rails" /\ (stage' \in Before \cup After => stage \in Before \cup After)
  PROVE  RailsInv'
<1>1. Kinds'
  BY DEF RailsInv, Kinds
<1>2. Rising'
  BY DEF RailsInv, Rising, Done
<1>3. Standing'
  BY DEF RailsInv, Standing, PortsStayWhole
<1> QED BY <1>1, <1>2, <1>3 DEF RailsInv

\* The main task begins again.
LEMMA RestartRails ==
  ASSUME RailsInv, Restart, reg' \in [Port -> SUBSET Pin]
  PROVE  RailsInv'
<1>1. Kinds'
  <2>1. Unset \in [Port -> SUBSET Pin]
    BY DEF Unset
  <2>2. /\ shadow' = Unset /\ writes' = <<>> /\ rails' = FALSE /\ whole' = {}
    BY DEF Restart
  <2> QED BY <2>1, <2>2, EmptySeq DEF Kinds
<1>2. Rising' /\ Standing'
  BY DEF Restart, Rising, Standing, PortsStayWhole
<1> QED BY <1>1, <1>2 DEF RailsInv

\* Reset state of the chip.
LEMMA AllHighType == AllHigh \in [Port -> SUBSET Pin]
BY DEF AllHigh, Port, Pin

LEMMA InitRails == Init => RailsInv
<1> SUFFICES ASSUME Init PROVE RailsInv
  OBVIOUS
<1>1. Kinds
  <2>1. Unset \in [Port -> SUBSET Pin]
    BY DEF Unset
  <2>2. shadow = Unset /\ writes = <<>> /\ reg = AllHigh /\ rails = FALSE /\ whole = {}
    BY DEF Init
  <2> QED BY <2>1, <2>2, AllHighType, EmptySeq DEF Kinds
<1>2. Rising /\ Standing
  BY DEF Init, Rising, Standing, PortsStayWhole
<1> QED BY <1>1, <1>2 DEF RailsInv

\* The directions are set: what waits is the bring-up.
LEMMA Direction1Rails == ASSUME RailsInv, Direction1 PROVE RailsInv'
<1>1. /\ stage = "direction1" /\ writes = <<>>
      /\ UNCHANGED <<shadow, reg, rails, whole>>
  BY DEF Direction1, Goto, Configure, history
<1>2. \/ stage' = "rails" /\ writes' = BringUp
      \/ stage' = "codec" /\ writes' = <<>>
  BY DEF Direction1, Goto
<1>3. ~rails
  BY <1>1 DEF RailsInv, Standing, Before
<1>4. CASE stage' = "rails" /\ writes' = BringUp
  <2>1. Kinds'
    BY <1>1, <1>4, BringUpShape DEF RailsInv, Kinds
  <2>2. Len(BringUp) = Len(RailSeq) + 8 /\ Len(RailSeq) \in Nat /\ Done' = 0
    BY <1>4, BringUpShape DEF Done
  <2>3. Rising'
    BY <1>4, <2>2 DEF Rising
  <2>4. Standing'
    BY <1>1, <1>3 DEF RailsInv, Standing, PortsStayWhole
  <2> QED BY <2>1, <2>3, <2>4 DEF RailsInv
<1>5. CASE stage' = "codec" /\ writes' = <<>>
  BY <1>1, <1>5, StillRails DEF Before, After
<1> QED BY <1>2, <1>4, <1>5

\* The bring-up is through: every rail is in the shadow.
LEMMA RailsUpRails == ASSUME RailsInv, RailsUp PROVE RailsInv'
<1>1. /\ stage = "rails" /\ stage' = "codec" /\ writes = <<>> /\ rails' = TRUE
      /\ UNCHANGED <<shadow, writes, reg, whole>>
  BY DEF RailsUp, Goto, expander, chip
<1>2. Kinds'
  BY <1>1 DEF RailsInv, Kinds
<1>3. Rising'
  BY <1>1 DEF Rising
<1>4. ~rails /\ whole = {}
  BY <1>1 DEF RailsInv, Kinds, Standing, Before
<1>5. \A p \in Port : Powered(p, shadow[p])
  <2>1. /\ Len(BringUp) = Len(RailSeq) + 8 /\ Len(RailSeq) \in Nat
        /\ Done = Len(RailSeq) + 8
    BY <1>1, BringUpShape DEF Done
  <2>2. /\ \A i \in 1..Len(RailSeq) : RailSeq[i] \in shadow[0]
        /\ "4G_PWR" \in shadow[1] /\ "AUDIO_ROUTE" \notin shadow[1]
    BY <1>1, <2>1 DEF RailsInv, Rising
  <2>3. DOMAIN RailSeq = 1..Len(RailSeq)
    BY RailAssumption
  <2> QED BY <2>2, <2>3 DEF Powered, Port, Rail
<1>6. Standing'
  BY <1>1, <1>4, <1>5 DEF Standing, PortsStayWhole, Before, After
<1> QED BY <1>2, <1>3, <1>6 DEF RailsInv

\* power_off() takes everything down, and says so.
LEMMA DropRailsRails == ASSUME RailsInv, DropRails PROVE RailsInv'
<1>1. /\ stage' = "shutdown" /\ writes' = WritePorts({}) /\ rails' = FALSE /\ whole' = {}
      /\ UNCHANGED <<shadow, reg>>
  BY DEF DropRails, Goto, Call, chip
<1>2. WritePorts({}) \in Seq(Write)
  <2>1. Drive(0, {}, Pins(0)) \in Write /\ Drive(1, {}, Pins(1)) \in Write
    BY DEF Drive, Write, Pin, Port
  <2> QED BY <2>1 DEF WritePorts
<1>3. Kinds'
  BY <1>1, <1>2 DEF RailsInv, Kinds
<1>4. Rising' /\ Standing'
  BY <1>1 DEF Rising, Standing, PortsStayWhole
<1> QED BY <1>3, <1>4 DEF RailsInv

\* Every step.
LEMMA NextRails == ASSUME RailsInv, [Next]_vars PROVE RailsInv'
<1>1. CASE Direction0
  <2>1. /\ stage = "direction0" /\ stage' \in {"direction1", "codec"}
        /\ UNCHANGED <<shadow, writes, reg, rails, whole>>
    BY <1>1 DEF Direction0, Goto, Configure, history
  <2> QED BY <2>1, StillRails DEF Before, After
<1>2. CASE Direction1
  BY <1>2, Direction1Rails
<1>3. CASE RailsUp
  BY <1>3, RailsUpRails
<1>4. CASE RouteAudio
  <2>1. /\ stage = "codec" /\ stage' = "device" /\ Call(AudioRouteLocal)
        /\ UNCHANGED <<rails, whole>>
    BY <1>4 DEF RouteAudio, Goto, history
  <2> QED BY <2>1, CallRails DEF Before, After
<1>5. CASE OpenCodec
  <2>1. /\ stage = "device" /\ stage' = "amp"
        /\ UNCHANGED <<shadow, writes, reg, rails, whole>>
    BY <1>5 DEF OpenCodec, Goto, expander, chip, history
  <2> QED BY <2>1, StillRails DEF Before, After
<1>6. CASE AmpOffAtBoot
  <2>1. /\ stage = "amp" /\ stage' = "keyboard" /\ Call(SetSpeakerAmp(FALSE))
        /\ UNCHANGED <<rails, whole>>
    BY <1>6 DEF AmpOffAtBoot, Goto, history
  <2> QED BY <2>1, CallRails DEF Before, After
<1>7. CASE ResetController
  <2>1. /\ stage = "keyboard" /\ stage' = "KP_GPIO1" /\ Call(ResetKeyboard)
        /\ UNCHANGED <<rails, whole>>
    BY <1>7 DEF ResetController, Goto, history, Registers
  <2> QED BY <2>1, CallRails DEF Before, After
<1>8. CASE ConfigureMatrix
  <2>1. /\ stage' \in {"KP_GPIO2", "KP_GPIO3", "CFG", "sweep", "up"}
        /\ UNCHANGED <<shadow, writes, reg, rails, whole>>
    BY <1>8 DEF ConfigureMatrix, Goto, NextStage, Registers, expander, chip, history
  <2> QED BY <2>1, StillRails DEF Before, After
<1>9. CASE BeginDrain \/ DrainOne \/ DrainDone \/ DrainBreaks \/ Up
  <2>1. /\ stage' \in {"drain", "up", "loop", "dead"}
        /\ UNCHANGED <<shadow, writes, reg, rails, whole>>
    BY <1>9 DEF BeginDrain, DrainOne, DrainDone, DrainBreaks, InDrain, Up, Goto, expander, chip,
                history
  <2> QED BY <2>1, StillRails DEF Before, After
<1>10. CASE ReadKey \/ Finger
  <2>1. UNCHANGED <<stage, shadow, writes, reg, rails, whole>>
    BY <1>10 DEF ReadKey, Finger, expander, chip, history
  <2> QED BY <2>1, StillRails
<1>11. CASE SetAmp
  <2>1. PICK on \in BOOLEAN : /\ stage = "loop" /\ stage' = stage
                              /\ Call(SetSpeakerAmp(on)) /\ UNCHANGED <<rails, whole>>
    BY <1>11 DEF SetAmp, history
  <2>2. SetSpeakerAmp(on) \in {SetSpeakerAmp(TRUE), SetSpeakerAmp(FALSE)}
    BY Zenon
  <2> QED BY <2>1, <2>2, CallRails DEF Before, After
<1>12. CASE PowerOff
  <2>1. /\ stage = "loop" /\ stage' = "vbus" /\ Call(SetSpeakerAmp(FALSE))
        /\ UNCHANGED <<rails, whole>>
    BY <1>12 DEF PowerOff, Goto, history
  <2> QED BY <2>1, CallRails DEF Before, After
<1>13. CASE ReadVbus
  <2>1. /\ stage = "vbus" /\ stage' = "touch" /\ Call(ResetTouch)
        /\ UNCHANGED <<rails, whole>>
    BY <1>13 DEF ReadVbus, Goto, history
  <2> QED BY <2>1, CallRails DEF Before, After
<1>14. CASE DropRails
  BY <1>14, DropRailsRails
<1>15. CASE Shutdown \/ Sleep
  <2>1. /\ stage = "shutdown" /\ stage' \in {"dark", "asleep"}
        /\ UNCHANGED <<shadow, writes, reg, rails, whole>>
    BY <1>15 DEF Shutdown, Sleep, Goto, expander, chip, history
  <2> QED BY <2>1, StillRails DEF Before, After
<1>16. CASE Bus
  BY <1>16, BusRails
<1>17. CASE Reset \/ PowerKey
  <2>1. Restart /\ (reg' = reg \/ reg' = AllHigh)
    BY <1>17 DEF Reset, PowerKey, chip
  <2> QED BY <2>1, RestartRails, AllHighType DEF RailsInv, Kinds
<1>18. CASE UNCHANGED vars
  BY <1>18, StillRails DEF vars, expander, chip, history
<1> QED
  BY <1>1, <1>2, <1>3, <1>4, <1>5, <1>6, <1>7, <1>8, <1>9, <1>10, <1>11, <1>12, <1>13, <1>14,
     <1>15, <1>16, <1>17, <1>18 DEF Next, BootStep, LoopStep

\* A rail that a write of the bring-up or after it has raised is never dropped by
\* another, whichever rails the board has and whichever writes are lost.
THEOREM RailsStand == Spec => []PortsStayWhole
<1>1. RailsInv => PortsStayWhole
  BY DEF RailsInv, Standing
<1>2. Spec => []RailsInv
  BY InitRails, NextRails, PTL DEF Spec
<1> QED BY <1>1, <1>2, PTL

-----------------------------------------------------------------------------
(* The keys                                                                 *)

Events == [n : Nat, press : BOOLEAN, mapped : BOOLEAN]

KeyKinds ==
  /\ fifo \in Seq(Events) /\ Len(fifo) <= FifoSize
  /\ held \subseteq [n : Nat, mapped : BOOLEAN]
  /\ pressed \in Nat /\ got \in Nat /\ stale \in Nat /\ drained \in Nat

\* What is queued has happened; what is promised to be drained is queued only
\* while the drain is on, and not further back than it still reads.
Drainable ==
  \A i \in DOMAIN fifo : Reports(fifo[i]) =>
    /\ fifo[i].n <= pressed
    /\ fifo[i].n <= stale => stage = "drain" /\ i + drained <= FifoSize

KeysInv == KeyKinds /\ stale <= pressed /\ got <= pressed /\ KeysOnceInOrder /\ Drainable

LEMMA KeysTypes ==
  ASSUME KeysInv
  PROVE  /\ fifo \in Seq(Events) /\ Len(fifo) \in Nat /\ Len(fifo) <= FifoSize /\ FifoSize \in Nat
         /\ DOMAIN fifo = 1..Len(fifo)
         /\ pressed \in Nat /\ got \in Nat /\ stale \in Nat /\ drained \in Nat
         /\ stale <= pressed /\ got <= pressed
         /\ \A i \in 1..Len(fifo) : fifo[i] \in Events /\ fifo[i].n \in Nat
<1>1. /\ fifo \in Seq(Events) /\ Len(fifo) \in Nat /\ DOMAIN fifo = 1..Len(fifo)
      /\ \A i \in 1..Len(fifo) : fifo[i] \in Events
  BY DEF KeysInv, KeyKinds
<1>2. \A e \in Events : e.n \in Nat
  BY DEF Events
<1> QED BY <1>1, <1>2, FifoAssumption DEF KeysInv, KeyKinds

LEMMA InitKeys == Init => KeysInv
<1> SUFFICES ASSUME Init PROVE KeysInv
  OBVIOUS
<1>1. /\ fifo = <<>> /\ held = {} /\ pressed = 0 /\ got = 0 /\ stale = 0 /\ drained = 0
  BY DEF Init, KeypadInit
<1>2. KeyKinds
  BY <1>1, FifoAssumption, EmptySeq DEF KeyKinds
<1> QED BY <1>1, <1>2 DEF KeysInv, KeysOnceInOrder, Drainable

\* The keypad is left alone, and what was promised stays drained.
LEMMA KeysKept ==
  ASSUME KeysInv, UNCHANGED <<fifo, held, pressed, got, stale>>, drained' = drained,
         stage # "drain" \/ stage' = "drain"
  PROVE  KeysInv'
BY DEF KeysInv, KeyKinds, KeysOnceInOrder, Drainable, Reports

\* Nothing is queued.
LEMMA KeysGone ==
  ASSUME KeysInv, fifo' = <<>>, held' = {}, UNCHANGED <<pressed, got, drained>>,
         stale' \in {0, stale}
  PROVE  KeysInv'
<1>1. KeyKinds'
  BY FifoAssumption, EmptySeq DEF KeysInv, KeyKinds
<1> QED BY <1>1 DEF KeysInv, KeyKinds, KeysOnceInOrder, Drainable

\* An event is queued, or lost.
LEMMA KeysQueue ==
  ASSUME KeysInv, NEW e \in Events, Queue(e),
         held' \subseteq [n : Nat, mapped : BOOLEAN], pressed' \in Nat, pressed <= pressed',
         Reports(e) => e.n = pressed + 1 /\ e.n <= pressed',
         UNCHANGED <<got, stale, drained, stage>>
  PROVE  KeysInv'
<1>1. /\ fifo \in Seq(Events) /\ Len(fifo) \in Nat /\ Len(fifo) <= FifoSize /\ FifoSize \in Nat
      /\ DOMAIN fifo = 1..Len(fifo)
      /\ pressed \in Nat /\ got \in Nat /\ stale \in Nat /\ stale <= pressed /\ got <= pressed
      /\ \A i \in 1..Len(fifo) : fifo[i] \in Events /\ fifo[i].n \in Nat
  BY KeysTypes
<1>2. CASE fifo' = fifo
  <2>1. KeyKinds' /\ stale' <= pressed' /\ got' <= pressed'
    BY <1>1, <1>2 DEF KeysInv, KeyKinds
  <2>2. KeysOnceInOrder'
    BY <1>2 DEF KeysInv, KeysOnceInOrder, Reports
  <2>3. Drainable'
    BY <1>1, <1>2 DEF KeysInv, Drainable, Reports
  <2> QED BY <2>1, <2>2, <2>3 DEF KeysInv
<1>3. CASE fifo' = Append(fifo, e) /\ Len(fifo) < FifoSize
  <2>1. /\ fifo' \in Seq(Events) /\ Len(fifo') = Len(fifo) + 1
        /\ \A i \in 1..Len(fifo) : fifo'[i] = fifo[i]
        /\ fifo'[Len(fifo) + 1] = e
        /\ DOMAIN fifo = 1..Len(fifo) /\ DOMAIN fifo' = 1..(Len(fifo) + 1)
    BY <1>1, <1>3
  <2>2. KeyKinds'
    BY <1>1, <1>3, <2>1 DEF KeysInv, KeyKinds
  <2>3. \A i \in 1..Len(fifo) : Reports(fifo[i]) => fifo[i].n <= pressed
    BY <2>1 DEF KeysInv, Drainable
  <2>4. got <= pressed
    BY DEF KeysInv
  <2>5. KeysOnceInOrder'
    <3>1. ASSUME NEW i \in 1..(Len(fifo) + 1), Reports(fifo'[i])
          PROVE  /\ fifo'[i].n > got
                 /\ \A j \in 1..(i - 1) : Reports(fifo'[j]) => fifo'[j].n < fifo'[i].n
      <4>1. CASE i = Len(fifo) + 1
        <5>1. /\ fifo'[i] = e /\ e.n = pressed + 1
              /\ \A j \in 1..(i - 1) : j \in 1..Len(fifo) /\ fifo'[j] = fifo[j] /\ fifo[j].n \in Nat
          BY <1>1, <2>1, <3>1, <4>1 DEF Events
        <5>2. \A j \in 1..(i - 1) : Reports(fifo[j]) => fifo[j].n <= pressed
          BY <2>3, <5>1
        <5>3. \A j \in 1..(i - 1) : Reports(fifo'[j]) => fifo'[j].n < fifo'[i].n
          BY <1>1, <5>1, <5>2
        <5> QED BY <1>1, <2>4, <5>1, <5>3
      <4>2. CASE i \in 1..Len(fifo)
        <5>1. fifo'[i] = fifo[i] /\ \A j \in 1..(i - 1) : j \in 1..Len(fifo) /\ fifo'[j] = fifo[j]
          BY <1>1, <2>1, <4>2
        <5> QED BY <2>1, <3>1, <4>2, <5>1 DEF KeysInv, KeysOnceInOrder
      <4> QED BY <1>1, <4>1, <4>2
    <3>2. got' = got /\ DOMAIN fifo' = 1..(Len(fifo) + 1)
      BY <2>1
    <3> QED BY <3>1, <3>2 DEF KeysOnceInOrder, Reports
  <2>6. Drainable'
    <3>1. ASSUME NEW i \in 1..(Len(fifo) + 1), Reports(fifo'[i])
          PROVE  /\ fifo'[i].n <= pressed'
                 /\ fifo'[i].n <= stale => stage = "drain" /\ i + drained <= FifoSize
      <4>1. CASE i = Len(fifo) + 1
        <5>1. fifo'[i] = e /\ e.n = pressed + 1 /\ e.n <= pressed'
          BY <2>1, <3>1, <4>1
        <5> QED BY <1>1, <5>1
      <4>2. CASE i \in 1..Len(fifo)
        <5>1. fifo'[i] = fifo[i] /\ fifo[i].n \in Nat
          BY <1>1, <2>1, <4>2 DEF Events
        <5> QED BY <1>1, <2>1, <3>1, <4>2, <5>1 DEF KeysInv, Drainable
      <4> QED BY <1>1, <4>1, <4>2
    <3> QED BY <2>1, <3>1 DEF Drainable, Reports
  <2>7. stale' <= pressed' /\ got' <= pressed'
    BY <1>1, <2>4 DEF KeysInv, KeyKinds
  <2> QED BY <2>2, <2>5, <2>6, <2>7 DEF KeysInv
<1> QED BY <1>2, <1>3 DEF Queue

\* An event is read: its key, if it has one, is the newest read.
LEMMA KeysTake ==
  ASSUME KeysInv, TakesEvent, UNCHANGED <<held, pressed>>,
         \/ got' = got
         \/ Reports(Head(fifo)) /\ got' = Head(fifo).n,
         \/ stale' = 0 /\ drained' = drained
         \/ stale' = stale /\ drained' = drained + 1 /\ stage' = stage
         \/ stale' = stale /\ drained' = drained /\ stage # "drain"
  PROVE  KeysInv'
<1> DEFINE e == fifo[1]
<1>1. /\ fifo \in Seq(Events) /\ Len(fifo) \in Nat \ {0} /\ Len(fifo) <= FifoSize /\ FifoSize \in Nat
      /\ pressed \in Nat /\ got \in Nat /\ stale \in Nat /\ drained \in Nat
      /\ stale <= pressed /\ got <= pressed
      /\ \A i \in 1..Len(fifo) : fifo[i] \in Events /\ fifo[i].n \in Nat
  BY KeysTypes, Next1 DEF TakesEvent
<1>2. /\ fifo' \in Seq(Events) /\ Len(fifo') = Len(fifo) - 1 /\ Head(fifo) = e
      /\ \A i \in 1..(Len(fifo) - 1) : fifo'[i] = fifo[i + 1]
      /\ DOMAIN fifo = 1..Len(fifo) /\ DOMAIN fifo' = 1..(Len(fifo) - 1)
  BY <1>1, Next1 DEF TakesEvent
<1>3. KeyKinds'
  BY <1>1, <1>2 DEF KeysInv, KeyKinds
<1>4. /\ got <= got' /\ got' <= pressed
      /\ \A i \in 2..Len(fifo) : Reports(fifo[i]) => fifo[i].n > got'
  <2>1. CASE got' = got
    BY <1>1, <1>2, <2>1, SMTT(40) DEF KeysInv, KeysOnceInOrder
  <2>2. CASE Reports(e) /\ got' = e.n
    <3>1. 1 \in DOMAIN fifo /\ e.n > got /\ e.n <= pressed
      BY <1>1, <1>2, <2>2 DEF KeysInv, KeysOnceInOrder, Drainable
    <3>2. ASSUME NEW i \in 2..Len(fifo), Reports(fifo[i]) PROVE fifo[i].n > e.n
      <4>1. i \in DOMAIN fifo /\ 1 \in 1..(i - 1) /\ fifo[i].n \in Nat /\ e.n \in Nat
        BY <1>1, <1>2
      <4> QED BY <2>2, <3>2, <4>1 DEF KeysInv, KeysOnceInOrder
    <3> QED BY <1>1, <2>2, <3>1, <3>2
  <2> QED BY <1>2, <2>1, <2>2
<1>5. KeysOnceInOrder'
  <2>1. ASSUME NEW i \in 1..(Len(fifo) - 1), Reports(fifo'[i])
        PROVE  /\ fifo'[i].n > got'
               /\ \A j \in 1..(i - 1) : Reports(fifo'[j]) => fifo'[j].n < fifo'[i].n
    <3>1. /\ i + 1 \in 2..Len(fifo) /\ fifo'[i] = fifo[i + 1]
          /\ \A j \in 1..(i - 1) : j + 1 \in 1..((i + 1) - 1) /\ fifo'[j] = fifo[j + 1]
      BY <1>1, <1>2
    <3>2. fifo'[i].n > got'
      BY <1>4, <2>1, <3>1
    <3>3. ASSUME NEW j \in 1..(i - 1), Reports(fifo'[j]) PROVE fifo'[j].n < fifo'[i].n
      <4>1. i + 1 \in DOMAIN fifo /\ Reports(fifo[i + 1]) /\ Reports(fifo[j + 1])
        BY <1>2, <2>1, <3>1, <3>3
      <4>2. fifo[j + 1].n < fifo[i + 1].n
        BY <3>1, <4>1 DEF KeysInv, KeysOnceInOrder
      <4> QED BY <3>1, <4>2
    <3> QED BY <3>2, <3>3
  <2> QED BY <1>2, <2>1 DEF KeysOnceInOrder, Reports
<1>6. Drainable'
  <2>1. ASSUME NEW i \in 1..(Len(fifo) - 1), Reports(fifo'[i])
        PROVE  /\ fifo'[i].n <= pressed'
               /\ fifo'[i].n <= stale' => stage' = "drain" /\ i + drained' <= FifoSize
    <3>1. i + 1 \in 1..Len(fifo) /\ fifo'[i] = fifo[i + 1] /\ fifo[i + 1].n \in Nat
      BY <1>1, <1>2
    <3>2. fifo[i + 1].n > got /\ fifo[i + 1].n <= pressed
      BY <1>2, <2>1, <3>1 DEF KeysInv, KeysOnceInOrder, Drainable
    <3>3. fifo[i + 1].n <= stale => stage = "drain" /\ (i + 1) + drained <= FifoSize
      BY <1>2, <2>1, <3>1 DEF KeysInv, Drainable
    <3> QED BY <1>1, <3>1, <3>2, <3>3
  <2> QED BY <1>2, <2>1 DEF Drainable, Reports
<1>7. stale' <= pressed' /\ got' <= pressed'
  BY <1>1, <1>4
<1> QED BY <1>3, <1>5, <1>6, <1>7 DEF KeysInv

\* The drain has begun: all that is queued is in its reach.
LEMMA KeysSweep ==
  ASSUME KeysInv, UNCHANGED <<fifo, held, pressed, got>>,
         drained' = 0, stale' = pressed, stage' = "drain"
  PROVE  KeysInv'
<1>1. /\ fifo \in Seq(Events) /\ Len(fifo) <= FifoSize /\ FifoSize \in Nat
      /\ DOMAIN fifo = 1..Len(fifo) /\ Len(fifo) \in Nat
  BY FifoAssumption DEF KeysInv, KeyKinds
<1>2. Drainable'
  BY <1>1 DEF KeysInv, Drainable, Reports
<1> QED BY <1>2 DEF KeysInv, KeyKinds, KeysOnceInOrder, Reports

\* The promise is dropped.
LEMMA KeysForgotten ==
  ASSUME KeysInv, UNCHANGED <<fifo, held, pressed, got, drained>>, stale' = 0
  PROVE  KeysInv'
<1>1. \A i \in DOMAIN fifo : fifo[i].n \in Nat
  BY KeysTypes
<1>2. Drainable'
  BY <1>1 DEF KeysInv, KeyKinds, KeysOnceInOrder, Drainable, Reports
<1> QED BY <1>2 DEF KeysInv, KeyKinds, KeysOnceInOrder, Reports

\* The drain ends with nothing queued, or having read a queueful.
LEMMA KeysDrained ==
  ASSUME KeysInv, DrainEnds,
         UNCHANGED <<fifo, held, pressed, got, stale, drained>>
  PROVE  KeysInv'
<1>1. CASE fifo = <<>>
  BY <1>1 DEF KeysInv, KeyKinds, KeysOnceInOrder, Drainable
<1>2. CASE drained = DrainMax
  <2>1. \A i \in DOMAIN fifo : i \in Nat \ {0}
    BY DEF KeysInv, KeyKinds
  <2>2. \A i \in DOMAIN fifo : ~(i + drained <= FifoSize)
    BY <1>2, <2>1, FifoAssumption
  <2>3. Drainable'
    BY <2>2 DEF KeysInv, Drainable, Reports
  <2> QED BY <2>3 DEF KeysInv, KeyKinds, KeysOnceInOrder, Reports
<1> QED BY <1>1, <1>2 DEF DrainEnds

\* What a read of the controller may do when it reports nothing.
LEMMA KeysNoEvent ==
  ASSUME KeysInv, NoEvent, UNCHANGED <<held, pressed, got, drained>>,
         stale' = 0 \/ (stale' = stale /\ stage # "drain")
  PROVE  KeysInv'
<1>1. CASE TakesEvent
  BY <1>1, KeysTake
<1>2. CASE UNCHANGED fifo /\ stale' = 0
  BY <1>2, KeysForgotten
<1>3. CASE UNCHANGED fifo /\ stale' = stale /\ stage # "drain"
  BY <1>3, KeysKept
<1> QED BY <1>1, <1>2, <1>3 DEF NoEvent

\* A finger goes down or up.
LEMMA KeysFinger == ASSUME KeysInv, Finger PROVE KeysInv'
<1>0. stage' = stage
  BY DEF Finger
<1>1. ASSUME NEW mapped \in BOOLEAN, Press(mapped) PROVE KeysInv'
  <2> DEFINE e == Event(pressed + 1, TRUE, mapped)
  <2>1. /\ pressed' = pressed + 1 /\ Queue(e) /\ UNCHANGED <<drained, got, stale>>
        /\ held' = held \cup {[n |-> pressed + 1, mapped |-> mapped]}
    BY <1>1 DEF Press
  <2>2. e \in Events /\ e.n = pressed + 1
    BY KeysTypes DEF Event, Events
  <2>3. held' \subseteq [n : Nat, mapped : BOOLEAN] /\ pressed' \in Nat /\ pressed <= pressed'
    BY <2>1, KeysTypes DEF KeysInv, KeyKinds
  <2> HIDE DEF e
  <2> QED BY <1>0, <2>1, <2>2, <2>3, KeysQueue
<1>2. ASSUME Release PROVE KeysInv'
  <2>1. PICK k \in held :
          /\ held' = held \ {k} /\ Queue(Event(k.n, FALSE, k.mapped))
          /\ UNCHANGED <<pressed, drained, got, stale>>
    BY <1>2 DEF Release
  <2>2. /\ Event(k.n, FALSE, k.mapped) \in Events
        /\ ~Reports(Event(k.n, FALSE, k.mapped))
    BY <2>1 DEF KeysInv, KeyKinds, Event, Events, Reports
  <2>3. held' \subseteq [n : Nat, mapped : BOOLEAN] /\ pressed' \in Nat /\ pressed <= pressed'
    BY <2>1, KeysTypes DEF KeysInv, KeyKinds
  <2> QED BY <1>0, <2>1, <2>2, <2>3, KeysQueue
<1> QED BY <1>1, <1>2 DEF Finger

\* get_key().
LEMMA KeysRead ==
  ASSUME KeysInv, ReadKey
  PROVE  KeysInv' /\ (got' # got => got' > stale)
<1>1. stage = "loop" /\ stage' = stage /\ UNCHANGED <<held, pressed, drained, stale>>
  BY DEF ReadKey, GetKey, fingers
<1>2. ASSUME TakesEvent, Reports(Head(fifo)), got' = Head(fifo).n
      PROVE  KeysInv' /\ (got' # got => got' > stale)
  <2>1. KeysInv'
    BY <1>1, <1>2, KeysTake
  <2>2. Head(fifo) = fifo[1] /\ 1 \in 1..Len(fifo)
    BY <1>2, KeysTypes, Next1 DEF TakesEvent
  <2>3. ~(fifo[1].n <= stale)
    BY <1>1, <1>2, <2>2, KeysTypes DEF KeysInv, Drainable
  <2> QED BY <1>2, <2>1, <2>2, <2>3, KeysTypes
<1>3. ASSUME TakesEvent, got' = got PROVE KeysInv'
  BY <1>1, <1>3, KeysTake
<1>4. ASSUME NoEvent, UNCHANGED got PROVE KeysInv'
  BY <1>1, <1>4, KeysNoEvent
<1> QED BY <1>2, <1>3, <1>4 DEF ReadKey, GetKey

\* The drain at boot.
LEMMA KeysDrain ==
  ASSUME KeysInv, BeginDrain \/ DrainOne \/ DrainDone \/ DrainBreaks
  PROVE  KeysInv'
<1>1. CASE BeginDrain
  <2>1. /\ drained' = 0 /\ stale' = pressed /\ stage' = "drain"
        /\ UNCHANGED <<fifo, held, pressed, got>>
    BY <1>1 DEF BeginDrain, Goto, DrainBegins, controller, fingers
  <2> QED BY <2>1, KeysSweep
<1>2. CASE DrainOne
  <2>1. /\ TakesEvent /\ drained' = drained + 1 /\ stage' = stage
        /\ UNCHANGED <<held, pressed, got, stale>>
    BY <1>2 DEF DrainOne, InDrain, Drains, fingers
  <2> QED BY <2>1, KeysTake
<1>3. CASE DrainDone
  <2>1. DrainEnds /\ UNCHANGED <<fifo, held, pressed, got, stale, drained>>
    BY <1>3 DEF DrainDone, keypad, controller, fingers
  <2> QED BY <2>1, KeysDrained
<1>4. CASE DrainBreaks
  <2>1. NoEvent /\ stale' = 0 /\ UNCHANGED <<held, pressed, got, drained>>
    BY <1>4 DEF DrainBreaks, DrainFails, fingers
  <2> QED BY <2>1, KeysNoEvent
<1> QED BY <1>1, <1>2, <1>3, <1>4

\* A bus that drives the reset line, and the two ways to begin again.
LEMMA KeysReset == ASSUME KeysInv, Bus \/ Reset \/ PowerKey PROVE KeysInv'
<1>1. CASE Bus
  <2>1. stage' = stage /\ (HeldInReset \/ UNCHANGED keypad)
    BY <1>1 DEF Bus
  <2>2. CASE HeldInReset
    BY <2>2, KeysGone DEF HeldInReset
  <2>3. CASE UNCHANGED keypad
    BY <2>1, <2>3, KeysKept DEF keypad, controller, fingers
  <2> QED BY <2>1, <2>2, <2>3
<1>2. CASE Reset
  BY <1>2, KeysForgotten DEF Reset, DrainForgotten, controller, fingers
<1>3. CASE PowerKey
  BY <1>3, KeysGone DEF PowerKey, HeldInReset
<1> QED BY <1>1, <1>2, <1>3

\* A step of the main task that leaves the queue alone.
OffTheQueue ==
  \/ Direction0 \/ Direction1 \/ RailsUp \/ RouteAudio \/ OpenCodec \/ AmpOffAtBoot
  \/ ResetController \/ ConfigureMatrix \/ Up
  \/ SetAmp \/ PowerOff \/ ReadVbus \/ DropRails \/ Shutdown \/ Sleep

LEMMA KeysElsewhere == ASSUME KeysInv, OffTheQueue PROVE KeysInv'
<1>1. UNCHANGED <<fifo, held, pressed, got, stale, drained>>
  BY DEF OffTheQueue, Direction0, Direction1, RailsUp, RouteAudio, OpenCodec, AmpOffAtBoot,
         ResetController, ConfigureMatrix, ConfigureKeypad, Up, SetAmp, PowerOff, ReadVbus,
         DropRails, Shutdown, Sleep, keypad, controller, fingers
<1>2. stage # "drain"
  <2>1. CASE ConfigureMatrix
    <3>1. PICK i \in DOMAIN Registers : stage = Registers[i]
      BY <2>1 DEF ConfigureMatrix, Goto
    <3>2. DOMAIN Registers = 1..4 /\ \A j \in 1..4 : Registers[j] # "drain"
      BY DEF Registers
    <3> QED BY <3>1, <3>2
  <2>2. CASE ~ConfigureMatrix
    BY <2>2 DEF OffTheQueue, Direction0, Direction1, RailsUp, RouteAudio, OpenCodec,
         AmpOffAtBoot, ResetController, Up, SetAmp, PowerOff, ReadVbus, DropRails, Shutdown,
         Sleep, Goto
  <2> QED BY <2>1, <2>2
<1> QED BY <1>1, <1>2, KeysKept

LEMMA NextKeys == ASSUME KeysInv, [Next]_vars PROVE KeysInv'
<1>1. CASE OffTheQueue
  BY <1>1, KeysElsewhere
<1>2. CASE BeginDrain \/ DrainOne \/ DrainDone \/ DrainBreaks
  BY <1>2, KeysDrain
<1>3. CASE ReadKey
  BY <1>3, KeysRead
<1>4. CASE Finger
  BY <1>4, KeysFinger
<1>5. CASE Bus \/ Reset \/ PowerKey
  BY <1>5, KeysReset
<1>6. CASE UNCHANGED vars
  BY <1>6, KeysKept DEF vars, keypad, controller, fingers
<1> QED
  BY <1>1, <1>2, <1>3, <1>4, <1>5, <1>6 DEF Next, BootStep, LoopStep, OffTheQueue

\* get_key() gives each press at most once and in the order of the fingers, for
\* every length of the controller's queue and whatever transfers fail.
THEOREM KeysInOrder == Spec => []KeysOnceInOrder
<1>1. KeysInv => KeysOnceInOrder
  BY DEF KeysInv
<1>2. Spec => []KeysInv
  BY InitKeys, NextKeys, PTL DEF Spec
<1> QED BY <1>1, <1>2, PTL

\* A drain that reads at least a queueful leaves no press from before it to the
\* loop, unless one of its reads failed.
THEOREM NoKeyFromBefore == Spec => NoStaleKey
<1>1. ASSUME KeysInv, [Next]_vars
      PROVE  [stage = "loop" /\ got' # got => got' > stale]_vars
  <2>1. CASE ReadKey
    BY <1>1, <2>1, KeysRead
  <2>2. CASE OffTheQueue
    BY <2>2 DEF OffTheQueue, Direction0, Direction1, RailsUp, RouteAudio, OpenCodec,
         AmpOffAtBoot, ResetController, ConfigureMatrix, ConfigureKeypad, Up, SetAmp, PowerOff,
         ReadVbus, DropRails, Shutdown, Sleep, keypad
  <2>3. CASE BeginDrain \/ DrainOne \/ DrainDone \/ DrainBreaks
    BY <2>3 DEF BeginDrain, DrainBegins, DrainOne, DrainDone, DrainBreaks, Drains, DrainFails,
         keypad
  <2>4. CASE Finger \/ Bus \/ Reset \/ PowerKey
    BY <2>4 DEF Finger, Press, Release, Bus, HeldInReset, Reset, DrainForgotten, PowerKey, keypad
  <2>5. CASE UNCHANGED vars
    BY <2>5
  <2> QED
    BY <1>1, <2>1, <2>2, <2>3, <2>4, <2>5 DEF Next, BootStep, LoopStep, OffTheQueue
<1>2. Spec => []KeysInv
  BY InitKeys, NextKeys, PTL DEF Spec
<1> QED BY <1>1, <1>2, PTL DEF Spec, NoStaleKey

-----------------------------------------------------------------------------
(* What the boot reports                                                    *)

\* Stages in which the keyboard's reset line is left alone...
Later == {"KP_GPIO2", "KP_GPIO3", "CFG", "sweep", "drain", "up", "loop"}

\* ...so what is still to be written then is for the other port; and a boot without
\* a failure so far has done all that lies behind it.
Told ==
  /\ outputs \subseteq Port /\ matrix \subseteq {"KP_GPIO1", "KP_GPIO2", "KP_GPIO3", "CFG"}
  /\ stage \in Later => \A i \in DOMAIN writes : writes[i].port = 0
  /\ ~initFailed =>
       /\ stage # "direction0" => 0 \in outputs
       /\ stage \notin {"direction0", "direction1"} => 1 \in outputs
       /\ stage \notin {"direction0", "direction1", "rails", "codec", "device"} => codec = "open"
       /\ stage \in Later => "KEYBOARD_RST" \in reg[1] /\ "KP_GPIO1" \in matrix
       /\ stage \in Later \ {"KP_GPIO2"} => "KP_GPIO2" \in matrix
       /\ stage \in Later \ {"KP_GPIO2", "KP_GPIO3"} => "KP_GPIO3" \in matrix
       /\ stage \in Later \ {"KP_GPIO2", "KP_GPIO3", "CFG"} => "CFG" \in matrix

LEMMA RegisterNames ==
  /\ DOMAIN Registers = 1..4 /\ Len(Registers) = 4
  /\ Registers[1] = "KP_GPIO1" /\ Registers[2] = "KP_GPIO2"
  /\ Registers[3] = "KP_GPIO3" /\ Registers[4] = "CFG"
BY DEF Registers

\* A register is written only to a controller out of reset.
LEMMA MatrixTold == ASSUME RailsInv, Told, ConfigureMatrix PROVE Told'
<1>1. PICK i \in 1..4, ok \in BOOLEAN :
        /\ Goto(Registers[i], IF ok THEN NextStage(i) ELSE "up")
        /\ Low(1, "KEYBOARD_RST") => ~ok
        /\ IF Low(1, "KEYBOARD_RST") THEN UNCHANGED keypad ELSE ConfigureKeypad(Registers[i], ok)
        /\ Tried(ok)
        /\ UNCHANGED <<expander, codec, onUsb, history>>
  BY RegisterNames DEF ConfigureMatrix
<1>2. /\ stage = Registers[i] /\ writes = <<>> /\ UNCHANGED <<writes, outputs, reg, codec>>
      /\ initFailed' = (initFailed \/ ~ok)
  BY <1>1 DEF Goto, Tried, expander, chip
<1>3. Registers[i] \in {"KP_GPIO1", "KP_GPIO2", "KP_GPIO3", "CFG"}
  BY RegisterNames
<1>4. /\ matrix' \subseteq matrix \cup {Registers[i]}
      /\ matrix \subseteq matrix'
  BY <1>1 DEF ConfigureKeypad, keypad, controller
<1>5. \A j \in DOMAIN writes' : writes'[j].port = 0
  BY <1>2
<1>6. CASE ~ok
  <2>1. initFailed' = TRUE
    BY <1>2, <1>6
  <2> QED BY <1>2, <1>3, <1>4, <1>5, <2>1 DEF Told
<1>7. CASE ok
  <2>1. ~Low(1, "KEYBOARD_RST") /\ matrix' = matrix \cup {Registers[i]} /\ stage' = NextStage(i)
    BY <1>1, <1>7 DEF ConfigureKeypad, Goto
  <2>2. 1 \in outputs => "KEYBOARD_RST" \in reg[1]
    BY <2>1 DEF Low
  <2>3. \/ i = 1 /\ stage = "KP_GPIO1" /\ stage' = "KP_GPIO2"
        \/ i = 2 /\ stage = "KP_GPIO2" /\ stage' = "KP_GPIO3"
        \/ i = 3 /\ stage = "KP_GPIO3" /\ stage' = "CFG"
        \/ i = 4 /\ stage = "CFG" /\ stage' = "sweep"
    BY <1>2, <2>1, RegisterNames DEF NextStage
  <2>4. ~initFailed' => ~initFailed
    BY <1>2, <1>7
  <2> QED BY <1>2, <1>3, <1>5, <2>1, <2>2, <2>3, <2>4, RegisterNames DEF Told, Later
<1> QED BY <1>6, <1>7

\* The bus: a write for the other port leaves the keyboard's reset line where it is.
LEMMA BusTold == ASSUME RailsInv, Told, Bus PROVE Told'
<1>1. PICK landed \in BOOLEAN :
        /\ BusWrite(landed)
        /\ IF Low(1, "KEYBOARD_RST")' THEN HeldInReset ELSE UNCHANGED keypad
        /\ UNCHANGED <<stage, initFailed, codec>>
  BY DEF Bus
<1>2. /\ writes # <<>> /\ writes' = Tail(writes) /\ outputs' = outputs
      /\ \/ reg' = reg
         \/ \E val : reg' = [reg EXCEPT ![Head(writes).port] = val]
  BY <1>1 DEF BusWrite
<1>3. /\ writes \in Seq(Write) /\ reg \in [Port -> SUBSET Pin]
      /\ Len(writes) \in Nat \ {0} /\ Head(writes) = writes[1]
      /\ \A i \in DOMAIN writes' : writes'[i] = writes[i + 1] /\ i + 1 \in DOMAIN writes
      /\ 1 \in DOMAIN writes
  <2>1. writes \in Seq(Write) /\ reg \in [Port -> SUBSET Pin]
    BY DEF RailsInv, Kinds
  <2> QED BY <1>2, <2>1, Next1
<1>4. matrix' \subseteq matrix /\ (~Low(1, "KEYBOARD_RST")' => matrix' = matrix)
  BY <1>1 DEF HeldInReset, keypad, controller
<1>5. CASE stage \notin Later
  BY <1>1, <1>2, <1>4, <1>5 DEF Told, Later
<1>6. CASE stage \in Later
  <2>1. Head(writes).port = 0 /\ \A i \in DOMAIN writes' : writes'[i].port = 0
    BY <1>3, <1>6 DEF Told
  <2>2. reg'[1] = reg[1]
    BY <1>2, <1>3, <2>1 DEF Port
  <2>3. "KEYBOARD_RST" \in reg[1] => matrix' = matrix
    BY <1>2, <1>4, <2>2 DEF Low
  <2> QED BY <1>1, <1>2, <1>4, <1>6, <2>1, <2>2, <2>3 DEF Told
<1> QED BY <1>5, <1>6

\* Every step of the board keeps it.
LEMMA StepTold == ASSUME RailsInv, Told, [Next]_vars PROVE Told'
<1> USE DEF Goto, expander, chip, keypad, controller, history
<1>1. CASE Direction0 \/ Direction1
  BY <1>1 DEF Direction0, Direction1, Configure, Tried, Told, Later, Port
<1>2. CASE RailsUp \/ RouteAudio \/ OpenCodec \/ AmpOffAtBoot \/ ResetController
  BY <1>2, RegisterNames DEF RailsUp, RouteAudio, OpenCodec, AmpOffAtBoot, ResetController, Call,
     Tried, Told, Later
<1>3. CASE ConfigureMatrix
  BY <1>3, MatrixTold
<1>4. CASE BeginDrain \/ DrainOne \/ DrainDone \/ DrainBreaks
  BY <1>4 DEF BeginDrain, DrainBegins, InDrain, DrainOne, Drains, DrainDone, DrainBreaks, DrainFails,
     Told, Later
<1>5. CASE Up
  BY <1>5 DEF Up, Told, Later
<1>6. CASE ReadKey
  BY <1>6 DEF ReadKey, GetKey, Told
<1>7. CASE SetAmp
  <2>1. PICK on \in BOOLEAN :
          /\ stage = "loop" /\ UNCHANGED stage
          /\ Call(SetSpeakerAmp(on))
          /\ UNCHANGED <<keypad, initFailed, codec, onUsb, history>>
    BY <1>7 DEF SetAmp
  <2>2. \A i \in DOMAIN writes' : writes'[i].port = 0
    BY <2>1 DEF Call, SetSpeakerAmp, Set, Clear, Drive
  <2> QED BY <2>1, <2>2 DEF Call, Told
<1>8. CASE PowerOff \/ ReadVbus \/ DropRails \/ Shutdown \/ Sleep
  BY <1>8 DEF PowerOff, ReadVbus, DropRails, Shutdown, Sleep, Call, Told, Later
<1>9. CASE Bus
  BY <1>9, BusTold
<1>10. CASE Finger
  BY <1>10 DEF Finger, Release, Press, Told
<1>11. CASE Reset \/ PowerKey
  BY <1>11 DEF Reset, PowerKey, Restart, DrainForgotten, HeldInReset, Told, Later
<1>12. CASE UNCHANGED vars
  BY <1>12 DEF vars, Told
<1> QED BY <1>1, <1>2, <1>3, <1>4, <1>5, <1>6, <1>7, <1>8, <1>9, <1>10, <1>11, <1>12
     DEF Next, BootStep, LoopStep

\* A boot that logged no failure has its pins driven, its codec open and its
\* keypad scanning, whichever transfers were lost without a word.
THEOREM BootIsHonest == Spec => []BootTellsFailures
<1>1. Init => Told
  BY DEF Init, KeypadInit, Told, Later
<1>2. RailsInv /\ Told => BootTellsFailures
  <2> SUFFICES ASSUME Told, stage \in {"up", "loop"}, ~initFailed
               PROVE  /\ outputs = Port /\ codec = "open"
                      /\ ~Low(1, "KEYBOARD_RST") /\ Scans
    BY DEF BootTellsFailures
  <2>1. matrix = {"KP_GPIO1", "KP_GPIO2", "KP_GPIO3", "CFG"}
    BY DEF Told, Later
  <2>2. Scans
    BY <2>1, RegisterNames DEF Scans
  <2> QED BY <2>2 DEF Told, Later, Port, Low
<1>3. RailsInv /\ Told /\ [Next]_vars => Told'
  BY StepTold
<1> QED BY <1>1, <1>2, <1>3, InitRails, NextRails, PTL DEF Spec
=============================================================================
