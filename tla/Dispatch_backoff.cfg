SPECIFICATION Spec
CONSTANTS
  w1 = w1
  w2 = w2
  NoJob = NoJob
  User = {1}
  Worker <- OneWorker
  Interval = 1
  Jitter = {0}
  Backoffs <- OneBackoff
  RetryAfter = {0}
  Commanding = {1}
  MaxLate = 0
  MaxFaults = 0
PROPERTIES BackoffIsKept
