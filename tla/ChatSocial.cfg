SPECIFICATION Spec
CONSTANTS
  Threads = {l1, l2}
  Names = {ann, bob}
  NoName = noname
  MaxUserId = 2
  MaxGroupId = 2
  MaxRequests = 5
  MaxFaults = 1
INVARIANTS
  TypeOK
  FriendsBothWays
  GroupHasCreator
  AnswersTrue
CHECK_DEADLOCK FALSE
