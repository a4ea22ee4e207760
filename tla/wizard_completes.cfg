CONSTANTS
  empty = empty
  p = p
  q = q
  msid = msid
  psid = psid
  factoryPin = factoryPin
  free = free
  Texts = {empty, p}
  Empty = empty
  Msid = msid
  Psid = psid
  FactoryPin = factoryPin
  TableEditor = FALSE
  MaxMishaps = 1
  MaxDetours = 1
  Free = free

SPECIFICATION PatientSpec
INVARIANTS OwnerIsAdmin1
PROPERTIES Completes
