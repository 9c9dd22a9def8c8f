SPECIFICATION Spec
CONSTANTS
  c1 = c1
  c2 = c2
  c3 = c3
  Editors = {c1, c2, c3}
  UserOf <- TwoUsers
  MaxRunes = 2
  MaxPosition = 0
  MaxRequested = 3
  MaxDocuments = 2
  Subscriber = {s1, s2, s3}
  Notifier = {n1}
  QueueSize = 1
  NoSubscriber = NoSubscriber
  Updater = {u1, u2}
  Reporter = {r1, r2}
  Content = {"a", "b"}
  Editor = {e1, e2}
  MaxVersions = 3
  Config = {"a", "b"}
  NoSum = NoSum
  Saver = {s1, s2}
  VersionLimit = 2
  MaxNumber = 3
  MaxCodeBackups = 3
  MaxEdits = 2
  MaxBackups = 4
  GitCaller = {g1, g2}
  MaxConnects = 2
  MaxRepos = 2
  MaxCommits = 2
  Visit = {v1, v2, v3}
  MaxSessions = 2
  MaxParticipants = 2
  Palette = 2
  HistoryCap = 2
  HistoryTrim = 1
  MaxRecords = 3
  User = {h, u}
  Host = h
  MaxEntries = 2
  NoJoin = NoJoin
INVARIANTS
  TypeOK
  EditsAreKept
  ChangesAreTold
  VersionsAgree
  CopiesAreTrue
PROPERTY
  TextsGrow
CHECK_DEADLOCK FALSE
