SPECIFICATION Spec
CONSTANTS
  sync = sync
  cron = cron
  k = k
  mine = mine
  theirs = theirs
  blob = blob
  other = other
  alice = alice
  bob = bob
  NoBlob = NoBlob
  NoRow = NoRow
  Worker = {sync, cron}
  Kind5 = {k}
  Target = {mine, theirs}
  Blob = {blob, other}
  Author <- MCAuthor
  ETags <- MCETags
  TargetAuthor <- MCTargetAuthor
  TargetBlob <- MCTargetBlob
  WorkWindow <- MCWorkWindow
  MaxTargets = 2
  MaxRetries = 2
  InProgressTimeout = 3
  RetryBase = 1
  RetryCap = 2
  ClaimWindow = 1
  MaxTime = 3
PROPERTIES SuccessIsTerminal
