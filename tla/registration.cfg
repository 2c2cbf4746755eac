SPECIFICATION FairSpec
CONSTANTS
  Expires = 12
  RetryAfter = 3
  DialMax = 4
  KeepAlive = 2
INVARIANTS
  RecoversInTime
PROPERTIES
  LapseNeedsLongCall
  RegistrationHeals
