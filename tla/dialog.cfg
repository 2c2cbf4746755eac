SPECIFICATION DialogSpec
CONSTANTS
  LocalId = {l1}
  RemoteId = {r1}
  Endpoint = {e1}
  Number = {n1}
  None = None
  RegisterAttempts = 1
  InviteAttempts = 3
  ResendWindow = 3
  NetMax = 3
INVARIANTS
  EstablishedIsAgreed
  NoGhostRing
  FarEndIsTold
