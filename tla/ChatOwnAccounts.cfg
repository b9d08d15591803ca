SPECIFICATION Spec
CONSTANTS
  u1 = u1
  u2 = u2
  away = away
  c1 = c1
  c2 = c2
  t1 = t1
  t2 = t2
  NoConn = NoConn
  NoUser = NoUser
  NoThread = NoThread
  Users = {u1, u2, away}
  Conns = {c1, c2}
  Threads = {t1, t2}
  LoopOf <- MCLoopOf
  Accounts <- OwnAccounts
  Members = {u1, u2, away}
  MissedAck = TRUE
  StopKinds = {}
  MaxMsgs = 2
  MaxDbFaults = 0
  MaxStops = 0
INVARIANTS
  TypeOK
  DbAgreesWithMap
  NoDuplicate
  LossNeedsDeadPeer
  ShownInOrder
PROPERTIES
  ImplementsMailbox
