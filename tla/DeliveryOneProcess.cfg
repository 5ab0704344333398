SPECIFICATION DeliverySpec
CONSTANTS
  NoPin = NoPin
  Peers = {bob, carol}
  Keys = {k1, k2}
  Processes = {t1}
  MaxVersion = 2
  Me = alice
  MyKey = myKey
  Texts = {hello}
  Times = {ms1}
  OtherTimes = {ms2}
  NoTime = NoTime
  MsgIds = {m1, m2}
  NoRow = NoRow
  Ephemerals = {e1, e2}
  MaxMixed = 1
SYMMETRY DeliverySymmetry
INVARIANT DeliveryTypeOK
INVARIANT UsedKeyIsPinned
INVARIANT SyncSavesWhatOpens
PROPERTY PinsChangeByConfirmation
PROPERTY SavedIsAuthentic
PROPERTY SealsForThePinned
