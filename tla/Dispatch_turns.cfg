SPECIFICATION FairSpec
CONSTANTS
  w1 = w1
  w2 = w2
  NoJob = NoJob
  User = {1, 2, 3}
  Worker <- OneWorker
  Interval = 1
  Jitter = {0}
  Backoffs <- OneBackoff
  RetryAfter = {}
  Commanding = {}
  MaxLate = 3
  MaxFaults = 0
PROPERTIES DueAccountIsClaimed ImplementsPollSession
INVARIANTS TypeOK InFlightIsExact
