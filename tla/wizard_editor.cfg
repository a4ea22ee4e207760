CONSTANTS
  empty = empty
  p = p
  q = q
  msid = msid
  psid = psid
  factoryPin = factoryPin
  free = free
  Texts = {empty, p}
  Empty = empty
  Msid = msid
  Psid = psid
  FactoryPin = factoryPin
  TableEditor = TRUE
  MaxMishaps = 0
  MaxDetours = 1
  Free = free

SPECIFICATION Spec
INVARIANTS AcceptedOwnerGoesThrough
