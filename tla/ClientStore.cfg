CONSTANTS
  Users = {1, 2}
  MsgIds = {m1, m2}
  ConvIds = {c1}
  NoMessage = NoMessage
  Me = 1
  Peer = 2
  Clients = {p1, p2}
  NoId = NoId
  InboxLimit = 1
  MaxFaults = 2
SPECIFICATION FairSpec
CHECK_DEADLOCK FALSE
INVARIANTS
  ClientTypeOK
  LocalFollowsServer
PROPERTIES
  ImplementsReplica
  RevocationReachesThread
  NewestAreFetched
