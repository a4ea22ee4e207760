CONSTANTS
  o1 = o1
  o2 = o2
  o3 = o3
  o4 = o4
  Objects = {o1, o2, o3, o4}
  SPs = {"Admin", "Locking", "Unknown"}
  DriveSPs = {"Admin", "Locking"}
  Lossy = FALSE
  MaxLost = 0
  FirstTsn = 5

SPECIFICATION Spec
SYMMETRY ObjectSymmetry
INVARIANTS OneSessionPerSP NoLeak
CHECK_DEADLOCK FALSE
