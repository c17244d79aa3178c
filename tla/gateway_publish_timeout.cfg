SPECIFICATION Spec
CONSTANTS
  j1 = j1
  j2 = j2
  j3 = j3
  u1 = u1
  u2 = u2
  p1 = p1
  p2 = p2
  t1 = t1
  t2 = t2
  k1 = k1
  k2 = k2
  Null = Null
  Jobs = {j1, j2}
  Users = {u1}
  Projects = {p1}
  HttpThreads = {t1}
  ImageKeys = {k1}
  StatusKinds <- VerdictKinds
  MaxConcurrentJobs = 5
  PublishAttempts = 3
  AmbiguousPublish = TRUE
  MaxRedeliveries = 0
PROPERTIES CompletedIsFinal
CHECK_DEADLOCK FALSE
