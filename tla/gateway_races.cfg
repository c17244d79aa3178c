SPECIFICATION Spec
CONSTANTS
  j1 = j1
  j2 = j2
  j3 = j3
  u1 = u1
  u2 = u2
  p1 = p1
  p2 = p2
  t1 = t1
  t2 = t2
  k1 = k1
  k2 = k2
  Null = Null
  Jobs = {j1, j2, j3}
  Users = {u1, u2}
  Projects = {p1, p2}
  HttpThreads = {t1, t2}
  ImageKeys = {k1}
  StatusKinds <- ImageAndEnd
  MaxConcurrentJobs = 1
  PublishAttempts = 1
  AmbiguousPublish = FALSE
  MaxRedeliveries = 0
SYMMETRY Symmetry
INVARIANTS TypeOK EventLogAgrees OvershootBounded
PROPERTIES TerminalAbsorbing
CHECK_DEADLOCK FALSE
