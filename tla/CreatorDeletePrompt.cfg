SPECIFICATION PromptSpec
CONSTANTS
  w1 = w1
  w2 = w2
  w3 = w3
  k = k
  mine = mine
  blob = blob
  alice = alice
  NoBlob = NoBlob
  NoRow = NoRow
  Worker = {w1, w2, w3}
  Kind5 = {k}
  Target = {mine}
  Blob = {blob}
  Author <- MCAuthor
  ETags <- MCETags
  TargetAuthor <- MCTargetAuthor
  TargetBlob <- MCTargetBlob
  WorkWindow <- MCWorkWindow
  MaxTargets = 2
  MaxRetries = 3
  InProgressTimeout = 3
  RetryBase = 1
  RetryCap = 4
  ClaimWindow = 1
  MaxTime = 6
PROPERTIES ImplementsLedger
