SPECIFICATION Spec
CONSTANTS
  p1 = p1
  p2 = p2
  p3 = p3
  w1 = w1
  w2 = w2
  Null = Null
  Products = {p1, p2, p3}
  Colour = {p1}
  Unsupported = {p3}
  Workers = {w1, w2}
  MaxAttempts = 2
  Faults = {"misread", "call_raises", "read_raises", "delete_fails", "crash"}
  MaxFaults = 2
SYMMETRY Symmetry
INVARIANTS TypeOK SkipIsSafe TransformHasSource LeftoversOwned
