CONSTANTS
  OwnIds = {o1}
  PeerIds = {q1}
  NoId = NoId
  Keys = {"/delete", "/back", "number", "text", "erase", "esc", "ctrl-d", "enter"}
  Numbers = {1}
  BufSize = 2
  MaxKeys = 3
  MaxChanges = 2
  MaxFaults = 1
SPECIFICATION FairSpec
CHECK_DEADLOCK FALSE
INVARIANTS
  ChatTypeOK
  PromptShowsLine
  NumberMeansWhatWasShown
PROPERTIES
  ChangesAreNoticed
