SPECIFICATION FairSpec
CONSTANTS
  j1 = j1
  j2 = j2
  l1 = l1
  l2 = l2
  w1 = w1
  w2 = w2
  Null = Null
  Jobs = {j1, j2}
  Lids = {l1}
  Workers = {w1, w2}
  Images <- OneAndNone
  Faults = {"duplicate", "late", "rebalance"}
  MaxFaults = 1
PROPERTIES EventuallyVerdict
CHECK_DEADLOCK FALSE
