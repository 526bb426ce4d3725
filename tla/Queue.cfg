SPECIFICATION QueueSpec
CONSTANTS
  q1 = q1
  q2 = q2
  q3 = q3
  r1 = r1
  r2 = r2
  r3 = r3
  r4 = r4
  Requests = {q1, q2, q3}
  ChatRequests = {q1, q2}
  ChannelRequests = {q3}
  Runs = {r1, r2, r3, r4}
  NoRun = NoRun
SYMMETRY Symmetry
INVARIANTS
  TypeOK
  OneRunAtATime
  OneRunPerRequest
  NoOvertaking
  PoliciesKept
  InterruptedIsResumed
PROPERTIES
  HaltedNeedsUser
  SteerGoesNext
CHECK_DEADLOCK FALSE
