SPECIFICATION FairSpec
CONSTANTS
  Conns = {c1, c2}
  Listen = listen
  BufferSize = 2
  MaxBytes = 3
  MaxFaults = 1
INVARIANTS
  EventMatchesWatch
  EchoInOrder
PROPERTY
  EchoArrives
CHECK_DEADLOCK FALSE
