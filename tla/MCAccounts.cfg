SPECIFICATION Spec
CONSTANTS
  Token = {1,2,3}
  Visitor = {v1, v2}
  NoToken = 0
  Secret = {1,2}
  Dialog = {d1, d2}
  MaxRoles = 1
  Account = {hub1, hub2, lab1}
  Provider = {{hub1, hub2}, {lab1}}
  Caller = {k1, k2}
  NoAccount = NoAccount
  Asker = {a1, a2}
  CacheTTL = 1
  Delay = 1
  MaxChanges = 2
  KeyWriter = {w1}
  Rotator = {r1, r2}
  MaxKeys = 3
  SshKey = {1,2,3,4}
  Rotation = {r1, r2}
  Connection = {c1, c2, c3}
  SshCaller = {p1, p2, p3}
  NoCaller = NoCaller
  MaxConnectionsPerEnv = 2
  MaxSshCalls = 8
  Subscription = {1, 2}
  Client = {c1, c2}
  PlanLimit = {1}
  MaxFree = 1
  Name = {n1, n2}
  Link = {l1, l2}
  MaxLinks = 1
  MaxViews = 1
  NoName = NoName
  Clients = {k1, k2, k3}
  Limit = 2
  Window = 3
  Pod = {e1, e2, e3}
  AdjustCaller = {c1, c2}
  TopCpu = 2
  InitialCpu = 1
  QuotaCpu = 1
  MaxAdjustments = 3
  NoPod = NoPod
  Env = {e1, e2}
  NetworkCaller = {c1, c2}
  MaxUnions = 2
  NoEnv = NoEnv
  ApiKey = {k1, k2}
  ApiClient = {c1, c2}
  MaxKeyCalls = 6
  NoRow = NoRow
  Reconciler = {c1, c2}
INVARIANTS
  TypeOK
  UsedOnce
  AccessIsRight
  RecordsAgree
  OvershootBounded
CHECK_DEADLOCK FALSE
