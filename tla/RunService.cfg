CONSTANTS
  r1 = r1
  c1 = c1
  c2 = c2
  w1 = w1
  w2 = w2
  Backends = {"redis", "celery"}
  Runs = {r1}
  Clients = {c1, c2}
  Workers = {w1, w2}
  MaxAttempts = 2
  MaxOps = 3
  MaxFaults = 1
  MaxLeases = 3
SPECIFICATION Spec
CHECK_DEADLOCK FALSE
SYMMETRY Swaps
INVARIANTS
  RunsReachable
PROPERTIES
  KeepsPromise
  ResultsFinal
