SPECIFICATION Spec
CONSTANTS
  j1 = j1
  j2 = j2
  l1 = l1
  l2 = l2
  w1 = w1
  w2 = w2
  Null = Null
  Jobs = {j1}
  Lids = {l1, l2}
  Workers = {w1}
  Images <- TwoImages
  Faults = {"duplicate", "lost", "status_lost", "exhausted", "send_raises", "late", "rebalance", "crash"}
  MaxFaults = 1
SYMMETRY Symmetry
INVARIANTS TypeOK VerdictJustified EntryIncomplete TaskAccounted
PROPERTIES VerdictIsLast
CHECK_DEADLOCK FALSE
