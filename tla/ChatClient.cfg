SPECIFICATION FairSpec
CONSTANTS
  Users = {u1, u2}
  NoUser = NoUser
  MaxAsks = 3
  MaxCommands = 2
  MaxPushes = 2
INVARIANTS
  TypeOK
  MenuMeansGranted
  RequestsFitSession
  OneAnswerPerWait
PROPERTIES
  UserStableInMenu
  WaitEnds
