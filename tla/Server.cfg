CONSTANTS
  Users = {1, 2, 3}
  MsgIds = {m1, m2}
  ConvIds = {c1, c2}
  NoMessage = NoMessage
  Handlers = {h1, h2}
  NoConv = NoConv
  MaxTime = 2
SPECIFICATION Spec
SYMMETRY IdAndRequestSymmetry
CHECK_DEADLOCK FALSE
INVARIANTS
  ServerTypeOK
  OneConversationPerPair
  EndpointsAgree
  EveryMessageQueued
PROPERTIES
  FeedsPipeline
  ImplementsMailbox
