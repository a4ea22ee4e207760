CONSTANTS
  empty = empty
  p = p
  q = q
  msid = msid
  psid = psid
  factoryPin = factoryPin
  free = free
  Texts = {empty, p, q}
  Empty = empty
  Msid = msid
  Psid = psid
  FactoryPin = factoryPin
  TableEditor = TRUE
  MaxMishaps = 1
  MaxDetours = 1
  Free = free

SPECIFICATION Spec
INVARIANTS TypeOK NobodyLockedOut SuccessMeansConfigured NoOrphan
PROPERTIES OwnershipKept
