CONSTANTS
  s1 = s1
  s2 = s2
  s3 = s3
  c1 = c1
  c2 = c2
  t1 = t1
  t2 = t2
  NoCall = NoCall
  Calls = {s1, s2, s3, c1, c2}
  TPers = {t1, t2}
  TPerOf <- TwoTPerObjects
  LayerOf <- MCLayers
  Drive <- MockDrive
  Sizes = {2, 3}
  ReceiveBuffer = 2
  TransferLimit = 4
  MaxDelay = 3

SPECIFICATION FairSpec
INVARIANTS NoReplyTwice
PROPERTIES EveryCallEnds
CHECK_DEADLOCK FALSE
