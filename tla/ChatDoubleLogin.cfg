SPECIFICATION Spec
CONSTANTS
  u1 = u1
  u2 = u2
  away = away
  c1 = c1
  c2 = c2
  t1 = t1
  t2 = t2
  NoConn = NoConn
  NoUser = NoUser
  NoThread = NoThread
  Users = {u1, u2}
  Conns = {c1, c2}
  Threads = {t1, t2}
  LoopOf <- MCLoopOf
  Accounts <- SharedAccount
  Members = {u1, u2}
  MissedAck = FALSE
  StopKinds = {}
  MaxMsgs = 0
  MaxDbFaults = 0
  MaxStops = 0
INVARIANTS
  NoDoubleLogin
