SPECIFICATION FairSpec
CONSTANTS
  Calls = 3
  Backlog = 2
  CountMax = 2
INVARIANTS
  FrameIsOfOneCall
  CensusIsOfThisCall
  BacklogIsFlushed
  AtMostOneLateFrame
PROPERTIES
  ArmedCallSpeaks
  VoicePathSpec
