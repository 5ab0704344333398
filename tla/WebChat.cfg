CONSTANTS
  Accounts = {a1, a2}
  Peers = {p1, p2}
  Texts = {x, y}
  None = None
  Tasks = {k1, k2}
  MaxMessages = 2
  MaxVersion = 2
  MaxClicks = 5
  MaxFaults = 1
SPECIFICATION Spec
SYMMETRY Symmetry
CHECK_DEADLOCK FALSE
INVARIANTS
  WebChatTypeOK
  TextsAreTrue
  SentOpensForRecipient
  SpinnerHasHandler
