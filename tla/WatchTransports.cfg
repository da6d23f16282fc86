\* Each watch runs over an ordered, exactly-once stream or over one that
\* reorders and duplicates; the mirror claims are made of the ordered one.
CONSTANTS
  u1 = u1
  u2 = u2
  Uids <- MC_Uids
  NoUid = NoUid
  NoVersion = NoVersion
  MaxLog = 4
  MaxDeliveries = 4
  Transports = {"ordered", "unreliable"}
SPECIFICATION Spec
INVARIANT TypeOK
INVARIANT MirrorsServer
INVARIANT UidsUnique
INVARIANT CompleteWhenDrained
INVARIANT ApplyIdempotent
\* The server stops after MaxLog events and the stream then goes quiet.
CHECK_DEADLOCK FALSE
