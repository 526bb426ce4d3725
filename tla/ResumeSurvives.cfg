SPECIFICATION Spec
CONSTANTS
  r1 = r1
  r2 = r2
  w1 = w1
  w2 = w2
  c1 = c1
  Runs = {r1, r2}
  Workers = {w1, w2}
  Reconcilers = {c1}
  NoRun = NoRun
  NoWorker = NoWorker
  MaxTries = 2
  MaxFaults = 1
  KeepRuntime = FALSE
INVARIANT
  ResumeSurvives
CHECK_DEADLOCK FALSE
