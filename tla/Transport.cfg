SPECIFICATION FairSpec
CONSTANTS
  Requests = {send, drop}
  HasBody = {send}
  ReadsBody = {send}
  NoRequest = NoRequest
  MaxAddresses = 2
CHECK_DEADLOCK FALSE
INVARIANT TransportTypeOK
INVARIANT NoHandleIsLost
INVARIANT OnlyTheServerIsTold
INVARIANT OutcomeIsTrue
PROPERTY CallReturns
