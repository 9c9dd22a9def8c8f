SPECIFICATION Spec
CONSTANTS
  RollbackCall = {b1, b2}
  DeleteCall = {d1}
  MaxRollbacks = 3
  Job = {j1, j2}
  MaxAttempts = 2
  Region = {r1, r2}
  Primary = p
  Replicated = {b1, b2}
  ReplicationQueue = 1
  MaxFailovers = 2
  Hooks = 2
  MaxRetries = 1
  MaxByUser = 1
  Cooldowns = {0, 2}
  MaxCooldown = 2
  LeastReplicas = {1, 2}
  MostReplicas = {2, 3}
  Key = {1}
  Rule = {1, 2}
  TopLevel = 1
  MaxAlerts = 4
  AlertQueue = 1
  NoRule = NoRule
  Recording = {r1, r2}
  Bandwidth = {1, 3, 5}
  SampleWindow = 2
  UpgradeDelay = 4
  DowngradeDelay = 2
INVARIANTS
  TypeOK
  StatusIsTrue
  AdaptsSlowly
PROPERTIES
  WorkEnds
  WorkIsClosed
CHECK_DEADLOCK FALSE
