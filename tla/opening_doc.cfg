SPECIFICATION OpeningSpec
INVARIANT ChangesCountedOnce
CHECK_DEADLOCK FALSE
CONSTANTS
  e1 = e1
  e2 = e2
  Endpoint = {e1, e2}
  Configs <- MCConfigs
  Wants <- MCWants
  OverRate <- MCOverRate
  OverRatio <- MCOverRatio
  OverFails <- MCOverFails
  OverCost <- MCOverCost
  DefaultRate = 20
  DefaultRatio = 2
  DefaultCost = 3
  DefaultFails = 1
  Budget = {b1}
  Limit = 5
  Steps = {1, 4}
  Tool = {t1}
  Window = 2
  HourTicks = 1
  DayTicks = 2
  Lookback = 1
  SpikeCooldown = 2
  RegressionCooldown = 1
  MaxTicks = 3
  MaxCalls = 3
  MaxSpent = 5
  MaxTurns = 1
  Delivery = {1, 2, 3, 4}
  MaxAttempts <- MCMaxAttempts
  HookQueueCap = 1
  LastWord = 4
  Notices = {3}
  Client = {c1, c2}
  IsWeb = {c1}
  Caster = {1, 2}
  Feed <- MCFeed
  WireCap = 1
  InboxCap = 1
  OutCap = 1
  Process = {p1, p2, p3}
  IsDashboard = {p1}
  Socket = {1, 2}
  Nobody = Nobody
  MaxKills = 1
  MaxBackups = 2
  MaxBytes = 1
  MaxLogLines = 8
  MaxMishaps = 2
  Keep = 2
  MaxAutos = 4
  MaxRuns = 2
  Reader = {p1, p2}
  Interval = 2
  MaxClock = 3
  Agent <- MCAgents
  RootList <- MCRoots
  Usages <- MCUsages
  NoModel = NoModel
  NoId = NoId
  Models <- MCModels
  KimiDefault = "m1"
  KimiCutoff = 2
  KimiPrices <- MCKimiPrices
  ProjectOf <- MCProjectOf
  MaxMessages = 2
  MaxNow = 2
  MaxEvents = 1
  Kind <- MCKind
  Listed <- MCListed
  Zone <- MCZone
  DayLen = 2
  WeekLen = 2
  MonthLen = 3
  RecentDays = 2
  LastInstant = 4
  MaxRows = 2
  MaxWrites = 2
  MaxPages = 1
  PlatformOf <- MCPlatformOf
  CwdOf <- MCPlatformOf
  Price <- MCPrice
  Tier = 3
  DropsEnd <- MCDropsEnd
  MaxScanned = 1
  Item = {1}
  SessionOf <- MCSessionOf
  Text = {"a", "b"}
  NoText = NoText
  Handler = {g1, g2}
  Daemon = d
  Command = {c}
  MaxSeen = 3
  MaxFailures = 1
  Writer = d
  Visitor = {c}
  ChangeId = {f}
  CacheDay = {d1}
  LastTick = 2
  MaxChanges = 4
  MaxBreaks = 1
  Caller = {"p1", "p2"}
  CommandOf <- MCCmd
  Ours = {"tm", "agmon", "a b/tm"}
  Verbatim = {"tm"}
  HookEvent = {"Stop", "PreToolUse"}
  Shapes <- MCShapes
  Odd = Odd
  NoSettings = NoSettings
  Chapters = {"x", "tm emit"}
  Quoting = {"tm emit"}
  MaxCallers = 2
  MaxMoves = 1
