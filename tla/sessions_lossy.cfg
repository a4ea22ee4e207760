CONSTANTS
  o1 = o1
  o2 = o2
  o3 = o3
  o4 = o4
  Objects = {o1, o2, o3}
  SPs = {"Admin", "Locking"}
  DriveSPs = {"Admin", "Locking"}
  Lossy = TRUE
  MaxLost = 2
  FirstTsn = 5

SPECIFICATION FairSpec
INVARIANTS TypeOK LiveIsKnown LeaksNeedFailures
PROPERTIES OnlyOwnerEnds EndEnds
CHECK_DEADLOCK FALSE
