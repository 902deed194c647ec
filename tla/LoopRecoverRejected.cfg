CONSTANTS
  p1 = p1
  p2 = p2
  i1 = i1
  i2 = i2
  s1 = s1
  s2 = s2
  s3 = s3
  Requests = {"r1"}
  StepIds = {s1, s2, s3}
  Keys = {"k1"}
  Procs = {p1, p2}
  Instances = {i1, i2}
  InstanceOf <- Apart
  Plans <- ShortPlans
  Env <- CrashEnv
  MaxCycles = 2
  MaxAttempts = 2
  MaxStepsPerPlan = 2
  HasEvaluator = FALSE
  MaxCalls = 3
  MaxBeats = 0
  MaxFaults = 1
SPECIFICATION Spec
INVARIANTS
  CompletedMeansVerified
