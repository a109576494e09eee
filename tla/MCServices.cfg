CONSTANTS
  Watchers = {c1, c2, c3}
  MaxMembers = 2
  QueueDepth = 2
  MaxPublishes = 2
  MaxRooms = 2
  Writers = {w1, w2}
  Readers = {r1}
  TX_PERMITS = 2
  BroadcastCapacity = 2
  MaxTransactions = 3
  MaxCompactions = 1
  MaxEvictions = 1
  THROTTLE_SECS = 1
  DEBOUNCE_SECS = 2
  OBJECT_DEBOUNCE_SECS = 1
  MaxTime = 4
  MaxEdits = 2
  MaxMoves = 2
  MaxSweeps = 1
  Calls = {d1, d2}
  MaxCalls = 3
  MaxHour = 2
  MaxStops = 1
  Tenants = {t1, t2}
  SafetyWindow = 1
  MaxDays = 1
  MaxSyncs = 2
  MaxSweepsOfGc = 1
  MaxFetchErrors = 1
  Leaders = {l1, l2}
  SiteDocs = {1, 2}
  MountPaths = {"/", "/blog"}
  MaxGenerations = 3
  MaxSiteCalls = 4
  Uids = {"u", "v"}
  Editors = {e1}
  MaxSecond = 3
  MaxWrites = 4
  MAX_SYNC_PAGE = 3
  Phones = {p1, p2}
  Polls = {q1, q2}
  TnIds = {t1, t2}
  Getters = {g1, g2}
  SettingValues = {"x", "y"}
  MaxSettingWrites = 2
  Uploads = {f1, f2}
  Renditions = {"sd"}
  MaxUploadStops = 1
  EarlyRetries = {r2, r5, r15}
  MaxRenewals = 1
  MaxOnboardingStops = 1
SPECIFICATION ServicesSpec
INVARIANTS ServicesTypeOK RosterAgrees IndexAgrees SentAsMeant UpdatesKept SubscribersAgree NeverStuck FilesWhole SiteServed SyncComplete DenialStands SettingsServed FilesIdentified WelcomeCared
CHECK_DEADLOCK FALSE
