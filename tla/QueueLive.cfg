SPECIFICATION FairQueueSpec
CONSTANTS
  q1 = q1
  q2 = q2
  r1 = r1
  r2 = r2
  r3 = r3
  Requests = {q1, q2}
  ChatRequests = {q1}
  ChannelRequests = {}
  Runs = {r1, r2, r3}
  NoRun = NoRun
PROPERTY
  QueueMoves
CHECK_DEADLOCK FALSE
