SPECIFICATION Spec
CONSTANTS
  j1 = j1
  j2 = j2
  j3 = j3
  u1 = u1
  u2 = u2
  p1 = p1
  p2 = p2
  t1 = t1
  t2 = t2
  k1 = k1
  k2 = k2
  Null = Null
  Jobs = {j1}
  Users = {u1}
  Projects = {p1}
  HttpThreads = {t1}
  ImageKeys = {k1, k2}
  StatusKinds <- TwoImageKinds
  MaxConcurrentJobs = 2
  PublishAttempts = 2
  AmbiguousPublish = TRUE
  MaxRedeliveries = 1
SYMMETRY Symmetry
INVARIANTS ReportLinkMatchesVerdict ProgressKept
CHECK_DEADLOCK FALSE
