SPECIFICATION FairSpec
CONSTANTS
  w1 = w1
  w2 = w2
  NoJob = NoJob
  User = {1, 2}
  Worker <- TwoWorkers
  Interval = 1
  Jitter = {0}
  Backoffs <- OneBackoff
  RetryAfter = {0}
  Commanding = {1}
  MaxLate = 0
  MaxFaults = 1
PROPERTIES ClaimIsReleased PauseQuiesces
INVARIANTS OnePollPerAccount
