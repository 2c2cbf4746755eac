SPECIFICATION FairSpec
CONSTANTS
  LocalId = {l1}
  RemoteId = {r1, r2}
  Endpoint = {e1, e2}
  Number = {n1}
  None = None
  RegisterAttempts = 3
  InviteAttempts = 8
  ResendWindow = 6
INVARIANTS
  TypeOK
  MediaIsOfTheCall
  RetransmittedOkIsOfTheCall
PROPERTIES
  RingingIsAnswered
  CallEndIsSignalled
  EndpointFrozenWhileArmed
  LineSpec
  BlockingCallsReturn
