CONSTANTS
  Objects = {o1, o2, o3, o4}
  SPs = {p1, p2}
  Tpers = {t1, t2, t3}
  NoTper = none
  SharedComId = TRUE
  Authorities = {a1, a2}
  NoObject = nobody
  Labels <- MCLabels
  Kind <- MCKind
  Held <- MCHeld
  Flaky = {"flaky"}
  Users = {"admin", "user"}
  Named <- MCNamed
  Password <- MCPassword
  Typed = {"1234", "5678"}
  MayUnlock <- MCMayUnlock
  LockingRows <- MCRows
  MaxTries = 5
SPECIFICATION ProgramSpec
INVARIANTS SessionsAreHeld PromptIsTrue EachDriveOnItsOwn
PROPERTIES OwnTperIsHarmless ProgramsComeBack
CHECK_DEADLOCK FALSE
