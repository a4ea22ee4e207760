CONSTANTS
  Futures = {f1, f2}
  Streams = {s1}
  Length <- MCLength
  SyncCalls = {y1}
  MayFail = {f1, f2, s1}
  Nobody = nobody
SPECIFICATION FairSpec
INVARIANTS AnswersArriveOnce ErrorIsNotOlder
PROPERTY EveryCallIsAnswered
CHECK_DEADLOCK FALSE
