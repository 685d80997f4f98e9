SPECIFICATION FairSpec
CONSTANTS
  KeyId = {k1, k2}
  NoKey = NoKey
  Held = {}
  MaxListings = 2
  Owners = {o}
  Others = {u}
  Nobody = Nobody
  MaxMeCalls = 3
  Days = {d1, d2}
  Empty = {d2}
  FirstDays = d1
  NoReport = NoReport
  MaxReports = 2
  Notches = 4
  MaxRows = 6
  Person = {p, q}
  Ranges = {r1, r2}
  FirstRange = r1
  MaxQueries = 2
  Text = {t1, t2}
  Chat = flash
  Image = zimage
  StoredMessage = {1, 2}
  OlderMarks <- OlderPage
  NewerMarks <- NewerPage
  MaxReactions = 2
  Member = {a}
  MaxPayments = 2
  MaxFetches = 2
  Ttl = 3
  Latency = 1
  ServerTtl = 1
  Endpoints = 2
  LogLimit = 2
  MaxSweeps = 2
  MaxProbes = 1
  MaxTimers = 2
  Category = {analytics, marketing}
  Links <- PageLinks
  AdminLinks <- OwnerLinks
  Widths = {2, 3, 4, 5, 6, 7, 20}
  MobileWidths = {2, 3, 4, 5, 6, 7}
  CardCount = 3
  SettleTime = 2
  Interval = 3
  Autoplay = 5
  OpeningTime = 2
  MaxChunks = 1
  MaxMessages = 4
  MaxBranches = 1
  Kinds = {"video"}
  Efforts = {"high"}
  FirstEffort = "high"
  Presets = {4096}
  FirstPreset = 4096
  MaxTurnMessages = 4
  Client = {c1, c2}
  Routes = {"auth", "v1"}
  LimitTo <- LimitOf
  Minute = 3
  Second = 2
  MaxBuckets = 1
  Horizon = 7
  Stories <- ShortStories
  Prompt = 4
  Budgets <- TwoBudgets
  Used <- SomeUse
  DataRows <- TwoDays
  Cells <- ThreeCells
  DayCounts = {0, 1, 2, 40}
  Quotas <- SomeQuotas
  FreeModels = {mf}
  PaidModels = {mp, mq}
  NoModel = NoModel
  MaxMarks = 2
  Zones <- SomeZones
  Expirations = {0, 2, 4}
  FirstExpiration = 2
  MaxHour = 7
  Sessions = {s1, s2}
  ApiKeys = {x1, x2}
  Nowhere = Nowhere
  ModelsTtl = 2
  Chats = {ch1, ch2}
  FirstChats = {ch1}
  MaxLists = 2
  MaxReads = 4
  SampleModels = {"flash", "pro"}
  FirstModel = "flash"
  ServerTabs = {"Go", "PHP"}
  KeyLists <- SomeKeys
  MaxTicks = 2
INVARIANTS
  TypeOK
  UserHoldsToken
  ConsentFirst
  TickIsForThisKey
  ListsAgree
  AnswersMatch
  SpinnerMeansWork
  StaysInBounds
  QuestionFirst
PROPERTY UsageFollowsDays
CHECK_DEADLOCK FALSE
