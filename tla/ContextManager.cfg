CONSTANTS
  p1 = p1
  p2 = p2
  responses = responses
  chat = chat
  Absent = Absent
  Procs = {p1, p2}
  Models = {responses, chat}
  Natives = {responses}
  Summarised = {chat}
  Target = 4
  Soft = 6
  Hard = 9
  Reserved = 1
  ToolTokens = 1
  RecentTurns = 1
  MaxPasses = 2
  Big = 5
  MaxManaged = 3
  MaxExpiries = 1
  MaxStarts = 2
  MaxRevision = 3
SYMMETRY Swaps
SPECIFICATION Spec
CHECK_DEADLOCK FALSE
INVARIANTS
  ContextComplete
PROPERTIES
  VersionsFollow
