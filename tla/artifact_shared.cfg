SPECIFICATION Spec
CONSTANTS
  a1 = a1
  a2 = a2
  a3 = a3
  p1 = p1
  p2 = p2
  j1 = j1
  j2 = j2
  j3 = j3
  w1 = w1
  w2 = w2
  m1 = m1
  m2 = m2
  Null = Null
  Artifacts = {a1, a2, a3}
  Products = {p1}
  Jobs = {j1, j2, j3}
  Project <- TwoProjects
  Workers = {w1, w2}
  MaxEvictable = 1
  MaxFaults = 1
SYMMETRY Symmetry
INVARIANTS TypeOK InReportIsOwned OneReportPerArtifact CompletedIsStored RetentionBounded ResultIsComplete
CHECK_DEADLOCK FALSE
