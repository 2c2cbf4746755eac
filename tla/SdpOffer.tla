------------------------------- MODULE SdpOffer --------------------------------
(***************************************************************************)
(* How the phone finds the far end's RTP endpoint in a SIP message: the    *)
(* SDP reader of sip_core (SipSdpMessage) and what TincanUac makes of it.  *)
(* A body is a sequence of lines; a line is its type and the value the     *)
(* code takes from it: an address for c=, a number for m=.  The loop of    *)
(* the reader is one ReadLine per line.                                    *)
(***************************************************************************)
EXTENDS Integers

CONSTANTS
  Address,  (* what may follow the last blank of a c= line                  *)
  Unset     (* an empty string: nothing read, or nothing after that blank   *)

Line(type, value) == [type |-> type, value |-> value]

\* extractRtpPort(): the digits are read until the number gets too large.
ExtractRtpPort(digits) == IF digits \div 10 > 200000000 THEN 200000000 ELSE digits

\* Nothing read.  Of the version only whether there is one.
NoMedia == [version |-> "none", connection |-> Unset, port |-> 0]

\* Mutant: the first c= line is kept.
ParseLine_FirstConnection(sdp, line) ==
  CASE line.type = "v" -> [sdp EXCEPT !.version = "read"]
    [] line.type = "c" /\ sdp.connection = Unset -> [sdp EXCEPT !.connection = line.value]
    [] line.type = "m" -> [sdp EXCEPT !.port = ExtractRtpPort(line.value)]
    [] OTHER           -> sdp

\* A later line of the same type replaces the earlier one.
ParseLine(sdp, line) ==
  CASE line.type = "v" -> [sdp EXCEPT !.version = "read"]
    [] line.type = "c" -> [sdp EXCEPT !.connection = line.value]
    [] line.type = "m" -> [sdp EXCEPT !.port = ExtractRtpPort(line.value)]
    [] OTHER           -> sdp

\* parseSdp(), one line on: whatever precedes the first v= is skipped.
ReadLine(sdp, line) ==
  IF sdp.version = "read" \/ line.type = "v" THEN ParseLine(sdp, line) ELSE sdp

\* learnRemoteMedia(): `hasSdp` says that the message mentions application/sdp,
\* in whatever header.  FALSE leaves the endpoint known so far.
Learns(hasSdp, sdp) == hasSdp /\ sdp.port > 0 /\ sdp.connection # Unset

\* publishMediaTarget(): the port goes on the wire as a uint16_t.
Target(sdp) == [ip |-> sdp.connection, port |-> sdp.port % 65536]
=============================================================================
