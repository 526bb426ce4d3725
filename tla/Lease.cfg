SPECIFICATION Spec
CONSTANTS
  r1 = r1
  r2 = r2
  r3 = r3
  w1 = w1
  w2 = w2
  c1 = c1
  Runs = {r1, r2, r3}
  Workers = {w1, w2}
  Reconcilers = {c1}
  NoRun = NoRun
  NoWorker = NoWorker
  MaxTries = 2
  MaxFaults = 3
  KeepRuntime = FALSE
SYMMETRY Symmetry
CONSTRAINT Bounded
INVARIANTS
  TypeOK
  AttemptLedger
  OutcomeAgrees
  OneThreadHolder
  FenceExcludesOwner
  NoOrphanSubagent
  QuietBehindFence
  EndBehindFence
PROPERTIES
  TerminalIsFinal
  CancelHonoured
  ImplementsThreadRuns
CHECK_DEADLOCK FALSE
