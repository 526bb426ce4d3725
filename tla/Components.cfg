SPECIFICATION Spec
CONSTANTS
  w1 = w1
  w2 = w2
SYMMETRY Symmetry
INVARIANTS
  BasesSafe
  IdentitySafe
  GovernanceSafe
  OutboundSafe
  CodingSafe
  DedicatedSafe
  GraphSafe
  SkillsSafe
  MigrationSafe
  GitSafe
  TasksSafe
  FilesSafe
  SandboxesSafe
  MessagesSafe
  ThreadsSafe
PROPERTIES
  ExecutionsFenced
CHECK_DEADLOCK FALSE
