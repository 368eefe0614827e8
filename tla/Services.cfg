SPECIFICATION MCSpec
CONSTANTS
  ann = ann
  ben = ben
  cat = cat
  r1 = r1
  r2 = r2
  r3 = r3
  upload = upload
  p1 = p1
  p2 = p2
  e1 = e1
  e2 = e2
  e3 = e3
  e4 = e4
  y1 = y1
  y2 = y2
  w1 = w1
  w2 = w2
  warn = warn
  tell = tell
  d1 = d1
  d2 = d2
  d3 = d3
  d4 = d4
  ba = ba
  bb = bb
  v1 = v1
  v2 = v2
  v3 = v3
  v4 = v4
  Report = {r1, r2, r3}
  Reporter = {ann, ben, cat}
  ReporterOf <- MCReporterOf
  SourceOf <- MCSourceOf
  NsfwReport = {r1, r2, r3}
  ScanMessage = {upload}
  Uploader = cat
  Nobody = Nobody
  MaxReportFaults = 1
  Poll = {p1, p2}
  RelayReport = {e1, e2, e3, e4}
  Refused = {}
  Unavailable = {e1}
  PageLimit = 2
  MaxPages = 2
  NoTime = NoTime
  MaxPollTime = 4
  MaxPollFaults = 1
  Sync = {y1, y2}
  Wrap = {w1, w2}
  ContentReport = {w1}
  FetchLimit = 1
  Drift = 2
  NoSync = NoSync
  MaxDay = 2
  MaxInboxFaults = 1
  Dm = {warn, tell}
  Outcome = {tell}
  Warning = {warn}
  Unsendable = {}
  Relay = {ra, rb}
  DivineRelay = ra
  DefaultRelays = {rb}
  ReadRelays = {rb}
  OverrideRelays = {}
  MaxRelays = 2
  RateLimitMax = 1
  RateLimitWindow = 1
  MaxSends = 2
  MaxDmTime = 1
  MaxDmFaults = 1
  Moderator = {m1, m2}
  Version = {f1, f2}
  MaxEnforcements = 2
  MaxLapses = 1
  Unset = Unset
  Video = {1}
  Cron = {c1, c2}
  HumanActions = {"SAFE"}
  ListLimit = 1
  MaxRuns = 2
  MaxBreaks = 1
  Detection = {a1, a2}
  FailureThreshold = 1
  Cooldown = 2
  Timeout = 1
  MaxAttempts = 2
  MaxDetectorTime = 4
  DeleteRow = {d1, d2, d3, d4}
  ShaOf <- MCShaOf
  NoSha = NoSha
  FlushBatch = 1
  MaxSweepFaults = 1
  MaxToggles = 2
  RowCount = 3
  FullAtRelay = {1, 2}
  UnknownAtRelay = {}
  BatchSize = 1
  Origin = Origin
  MaxBackfillTime = 2
  MaxBackfillFaults = 1
  Clip = {v1, v2, v3, v4}
  ClipTime <- MCClipTime
  Shaless = {v2}
  ClipsPerPage = 2
  Concurrency = 2
  NoUntil = NoUntil
  MaxWalkFaults = 1
  Scorings <- MCScorings
  Text = {"oaths", "slurs", "rant"}
  Weight <- MCWeight
  Offers <- MCOffers
  Plans <- MCPlans
  MaxClaims = 2
  MaxProbeFaults = 1
  NotAHash = "no hash"
  List <- MCList
  Pictured = {4}
  ListSource = "sha-list"
  Signals <- MCSignals
  TagsOf <- MCTagsOf
  Enforced <- MCEnforced
  PageSize = 2
  MaxInvocations = 4
  MaxRollbackFaults = 2
INVARIANTS
  AutomaticMeansTwo TwoReportersRestrict NothingPassedOver NoMessageSlips NeverWaitsInVain
  NoSecondCopy EnforcementIsInForce EscalationSettles OneProbeAtATime StampsAreTrue
  EveryRowTried WalkSeesAll SafeMeansQuiet LeftoversReported
  RollbackReaches
PROPERTIES ReportsCatchUp
CHECK_DEADLOCK FALSE
