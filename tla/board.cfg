SPECIFICATION Spec
CONSTANTS
  RailSeq <- TwoRails
  FifoSize = 2
  DrainMax = 2
  Presses = 2
INVARIANTS
  PortsStayWhole
  BootTellsFailures
  KeysOnceInOrder
PROPERTIES
  NoStaleKey
