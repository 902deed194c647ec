CONSTANTS
  Runs = {r1, r2}
  Workers = {w1, w2}
  MaxConcurrency = 1
  Envs = {{"cancel", "abort", "stall"}, {"raise", "abort", "stall", "stop"}}
  MaxEnqueues = 2
  MaxFaults = 2
  MaxRenewals = 1
SPECIFICATION FairSpec
CHECK_DEADLOCK FALSE
INVARIANTS
  QueueSound
PROPERTIES
  KeepsPromise
  Served
