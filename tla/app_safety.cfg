SPECIFICATION AppSpec
CONSTANTS
  LocalId = {l1}
  RemoteId = {r1}
  Endpoint = {e1}
  Number <- Dialable
  None = None
  RegisterAttempts = 1
  InviteAttempts = 2
  ResendWindow = 1
  Digit = {d1}
  DialBufferMax = 2
  KeyFifo = 1
INVARIANTS
  AppTypeOK
  AmpFollowsUi
  PanelNamesTheParty
  OffLeavesNoCall
PROPERTIES
  AnswersTheCallAnnounced
  RemembersConnectedNumbers
