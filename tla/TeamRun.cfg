CONSTANTS
  a = a
  b = b
  z = z
  c1 = c1
  c2 = c2
  Tasks <- MCTasks
  dependencies <- MCDependencies
  requiresApproval <- MCRequiresApproval
  replaySafe <- MCReplaySafe
  Controllers = {c1, c2}
  Faults <- MCFaults
  Requests <- MCRequests
  MaxFaults = 1
  MaxOps = 3
  None = None
  Review = Review
SPECIFICATION Spec
CHECK_DEADLOCK FALSE
SYMMETRY Symmetry
INVARIANTS
  TeamSound
  CallsJustified
PROPERTIES
  EndedStaysEnded
