SPECIFICATION Spec
CONSTANTS
  RxGainQ8 = 1019
  DuckQ8 = 16
  Address = {a1, a2}
  Unset = Unset
  Ports = {0, 4000, 65535, 65536}
  LinesMax = 5
INVARIANTS
  VoiceIsFaithful
  EndpointIsOffered
CHECK_DEADLOCK FALSE
