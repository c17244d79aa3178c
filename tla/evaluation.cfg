SPECIFICATION EvaluationSpec
CONSTANTS
  None = None
  NoLid = NoLid
  a = a
  b = b
  c = c
  d = d
  e = e
  w1 = w1
  w2 = w2
  NumGroups = 3
  NumUsers = 2
  MaxJobs = 2
  GatewayLimit = 1
  Attempts = 3
  MaxFaults = 2
  MaxTimeouts = 2
  CaseGroups = {1, 2}
  ImagesOf <- MCImagesOf
  Stages <- MCStages
  ImageStages = 3
  LidScoped = {1, 2}
  OwnLine = {3, 4}
  Skips = {}
  CallAttempts = 3
  MaxErrors = 2
  MaxLeavers = 1
  Tasks <- MCTasks
  Workers = {w1, w2}
  MaxClock = 1
  MaxLost = 1
  MaxTwice = 1
SYMMETRY Alike
INVARIANTS CompletedIsTrue OneRecordPerJob FaultsAreSurvived RecoveredJobCompleted MttrPositive OverlapIsReal ImagesAreReal
CHECK_DEADLOCK FALSE
