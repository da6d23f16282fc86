\* Spec 4.1: an ERROR event leaves the cursor unchanged.
CONSTANTS
  u1 = u1
  u2 = u2
  Uids <- MC_Uids
  NoUid = NoUid
  NoVersion = NoVersion
  MaxLog = 4
  MaxDeliveries = 4
  Transports = {"ordered"}
SPECIFICATION Spec
INVARIANT CursorTracksServer
CHECK_DEADLOCK FALSE
