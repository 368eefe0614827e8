SPECIFICATION Spec
CONSTANTS
  w1 = w1
  w2 = w2
  Nothing = Nothing
  Worker = {w1, w2}
  Reactive = FALSE
  Decisions = {"SAFE", "QUARANTINE", "PERMANENT_BAN"}
  Enforcements = {"none", "approval_required"}
  MaxAttempts = 2
  MaxRequests = 3
  MaxFaults = 1
SYMMETRY Invocations
CHECK_DEADLOCK FALSE
INVARIANTS EnforcedMeansRecorded DecisionLands RestedDecisionStands
