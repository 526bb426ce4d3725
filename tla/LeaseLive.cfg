SPECIFICATION FairSpec
CONSTANTS
  r1 = r1
  r2 = r2
  w1 = w1
  c1 = c1
  Runs = {r1, r2}
  Workers = {w1}
  Reconcilers = {c1}
  NoRun = NoRun
  NoWorker = NoWorker
  MaxTries = 2
  MaxFaults = 1
  KeepRuntime = FALSE
PROPERTIES
  ThreadReleased
CHECK_DEADLOCK FALSE
