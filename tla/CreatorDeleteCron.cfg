SPECIFICATION Spec
CONSTANTS
  k1 = k1
  k2 = k2
  c1 = c1
  c2 = c2
  s1 = s1
  Nothing = Nothing
  Kind5 = {k1}
  Cron = {c1, c2}
  Sync = {s1}
  Overlap = 3
  Lag = 1
  Timeout = 2
  MaxRetries = 2
  Backoff <- MCBackoff
  MaxFaults = 1
INVARIANTS TypeOK UnclaimedStaysInWindow
PROPERTIES SettledOrStranded
