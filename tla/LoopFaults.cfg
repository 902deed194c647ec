CONSTANTS
  p1 = p1
  p2 = p2
  i1 = i1
  i2 = i2
  s1 = s1
  s2 = s2
  s3 = s3
  Requests = {"r1"}
  StepIds = {s1, s2, s3}
  Keys = {"k1"}
  Procs = {p1}
  Instances = {i1}
  InstanceOf <- Alone
  Plans <- AnyPlans
  Env <- FaultEnv
  MaxCycles = 2
  MaxAttempts = 2
  MaxStepsPerPlan = 2
  HasEvaluator = TRUE
  MaxCalls = 2
  MaxBeats = 1
  MaxFaults = 2
SPECIFICATION Spec
PROPERTIES
  FaultsSurvived
