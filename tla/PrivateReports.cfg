SPECIFICATION Spec
CONSTANTS
  c1 = c1
  c2 = c2
  w1 = w1
  w2 = w2
  w3 = w3
  w4 = w4
  spam = spam
  minor = minor
  child = child
  Nothing = Nothing
  Cron = {c1, c2}
  Wrap = {w1, w2}
  Report = {minor, spam}
  ReportOf <- MCReportOf
  Priority <- MCPriority
  Stuck = {}
  Limit = 1
  Budget = 2
  BaseDelay = 1
  MaxDelay = 2
  MaxFaults = 1
INVARIANTS TypeOK LoggedMeansRecorded SettledRowsRest
PROPERTIES ImplementsOutbox
