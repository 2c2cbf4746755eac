SPECIFICATION Spec
CONSTANTS
  LocalId = {l1}
  RemoteId = {r1, r2}
  Endpoint = {e1}
  Number = {n1}
  None = None
  RegisterAttempts = 2
  InviteAttempts = 3
  ResendWindow = 2
INVARIANT MediaHasEndpoint
