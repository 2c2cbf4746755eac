SPECIFICATION AppSpec
CONSTANTS
  LocalId = {l1}
  RemoteId = {r1}
  Endpoint = {e1}
  Number <- Dialable
  None = None
  RegisterAttempts = 1
  InviteAttempts = 2
  ResendWindow = 1
  Digit = {d1}
  DialBufferMax = 1
  KeyFifo = 1
INVARIANT CallUpIsOnScreen
