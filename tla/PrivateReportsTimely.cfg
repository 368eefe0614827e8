SPECIFICATION TimelySpec
CONSTANTS
  c1 = c1
  c2 = c2
  w1 = w1
  w2 = w2
  w3 = w3
  w4 = w4
  spam = spam
  minor = minor
  child = child
  Nothing = Nothing
  Cron = {c1}
  Wrap = {w1, w2, w3, w4}
  Report = {minor, child, spam}
  ReportOf <- MCReportOf
  Priority <- MCPriority
  Stuck = {minor, child}
  Limit = 2
  Budget = 3
  BaseDelay = 1
  MaxDelay = 2
  MaxFaults = 1
INVARIANTS UrgentFirst
PROPERTIES PendingSettled
