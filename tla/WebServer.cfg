SPECIFICATION FairSpec
CONSTANTS
  Fds = {5, 6}
  Listen = listen
  NoFd = nofd
  MaxConns = 3
  MaxRequests = 2
INVARIANTS
  TypeOK
  MarksMatchOpen
  BlockedOnlyByReuse
PROPERTIES
  RequestTaken
  IdleClosed
