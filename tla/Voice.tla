--------------------------------- MODULE Voice ---------------------------------
(***************************************************************************)
(* The computations a call's voice depends on, against what they must do:  *)
(* a sample through the codec and the gains, an endpoint out of an offer.  *)
(* The state is the input: samples are taken in order, an offer is read    *)
(* line by line, and may end at any of them.                               *)
(***************************************************************************)
EXTENDS AudioMath, SdpOffer, Sequences

CONSTANTS
  Ports,     (* numbers an m= line may carry                                *)
  LinesMax   (* bound on the lines of an offer                              *)

VARIABLES
  pcm,   (* a sample                                                        *)
  body,  (* the lines of an offer                                           *)
  sdp    (* what the reader has made of them                                *)

ASSUME PortsAssumption == Ports \subseteq Nat

Lines ==
  {Line("v", 0), Line("other", 0)}
  \cup {Line("c", a) : a \in Address \cup {Unset}} \cup {Line("m", p) : p \in Ports}

Init == pcm = -32768 /\ body = <<>> /\ sdp = NoMedia

NextSample == body = <<>> /\ pcm < 32767 /\ pcm' = pcm + 1 /\ UNCHANGED <<body, sdp>>

NextLine ==
  /\ pcm = -32768 /\ Len(body) < LinesMax
  /\ \E l \in Lines : body' = Append(body, l) /\ sdp' = ReadLine(sdp, l)
  /\ UNCHANGED pcm

Next == NextSample \/ NextLine

Spec == Init /\ [][Next]_<<pcm, body, sdp>>

-----------------------------------------------------------------------------
(* The codec and the gains                                                  *)

Carried(s) == Decode(Encode(s))

\* The far end hears the sample to within half a step of its segment, 1/32 of
\* the biased magnitude; its sign is kept, louder stays louder, and a second
\* pass through the codec changes nothing.  -32768, whose negation is no
\* int16_t, is no exception (g711.c:9).
CompandingIsFaithful(s) ==
  LET c == IF s < 0 THEN -Least(-s, Clip) ELSE Least(s, Clip) IN
  /\ Encode(s) \in Byte
  /\ 32 * Abs(Carried(s) - c) <= Abs(c) + Bias
  /\ Carried(s) * s >= 0
  /\ s < 32767 => Carried(s) <= Carried(s + 1)
  /\ Encode(Carried(s)) = Encode(s) \/ Carried(s) = 0

\* No gain turns a sample over: attenuation shrinks it, amplification does not
\* wrap, and the magnitude of what the codec delivers is its absolute value.
GainsAreFaithful(s) ==
  /\ Abs(Ducked(s)) <= Abs(s) /\ Ducked(s) * s >= 0
  /\ Louder(s) \in Pcm /\ Louder(s) * s >= 0
  /\ RxGainQ8 >= 256 => Abs(Louder(s)) >= Abs(s)
  /\ Magnitude(Carried(s)) = Abs(Carried(s))

\* What the far end says is what the speaker plays, whatever the sample.
VoiceIsFaithful == CompandingIsFaithful(pcm) /\ GainsAreFaithful(pcm)

-----------------------------------------------------------------------------
(* The endpoint                                                             *)

Where(type) == {i \in DOMAIN body : body[i].type = type}

\* A session description of one stream: it starts with v=, has one m= line with
\* a port a datagram can be sent to, at most one c= before it and one after.
OneStream ==
  /\ body # <<>> /\ body[1].type = "v" /\ Where("v") = {1}
  /\ \E m \in Where("m") :
       /\ Where("m") = {m} /\ body[m].value < 65536
       /\ \A i, j \in Where("c") : (i < m /\ j < m) \/ (i > m /\ j > m) => i = j

\* The address of the stream is its own c= line, else that of the session (the
\* rule of RFC 4566): the endpoint the phone aims at is the one offered, and one
\* is learnt exactly when the stream has an address and is not refused by port 0.
EndpointIsOffered ==
  OneStream =>
    LET m    == CHOOSE i \in Where("m") : TRUE
        own  == {i \in Where("c") : i > m}
        used == IF own # {} THEN own ELSE Where("c")
    IN /\ Learns(TRUE, sdp) <=> (\E i \in used : body[i].value # Unset) /\ body[m].value # 0
       /\ Learns(TRUE, sdp) =>
            \E i \in used : Target(sdp) = [ip |-> body[i].value, port |-> body[m].value]
       /\ ~Learns(FALSE, sdp)
=============================================================================
