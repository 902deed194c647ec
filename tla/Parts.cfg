CONSTANTS
  AgentIds = {1, 2}
  Borrowers = {c1, c2}
  MaxLimit = 2
  MaxEdits = 3
  Recipients = {"r", "s"}
  Teams = {"t", "u"}
  MaxMail = 3
  BusAgents = {1, 2}
  Corrs = {"c"}
  InboxSize = 1
  MaxSends = 2
  Clients = {"c", "d"}
  Stoppers = {"k", "l"}
  Resources = 2
  Names = {"n"}
  Versions = {1, 2}
  Contracts <- Contracts3
  Payloads <- Payloads3
  MaxHistory = 3
  None = None
  c1 = c1
  c2 = c2
  e1 = e1
  e2 = e2
  Callers = {c1, c2}
  Executions = {e1, e2}
  Requests <- Orders
  Adapters = {"a", "b", "d"}
  DeepSeeks = {"d"}
  ModelOf <- AdapterModels
  Reasoners = {"a"}
  Schemas = {"s"}
  NoSchema = "no"
  Nobody = "nobody"
  MaxTurns = 2
  Commands = {"git"}
  MaxTimeout = 1
  Keep = 2
  MaxWritten = 3
  ReadSize = 2
  Savers = {c1, c2}
  Nil = Nil
  Junk = Junk
  MaxContexts = 3
  PartNames = {"a", "b"}
  Installers = {"i"}
  Plugins <- EntryPoints
  NoPart = 0
  MaxMade = 3
  TaskIds = {"t", "u"}
  Skills = {"x", "y"}
  PlannerMax = 3
  RequestMax = 2
  PassScore = 1
  MaxScore = 1
  MaxDamage = 1
  QueueSize = 2
  MaxPending = 2
  MaxItems = 5
  Closers = {"app", "other"}
  FlushAt = 2
  QueueCap = 2
  MaxCalls = 4
  Procs = {c1, c2}
  MaxSpans = 5
  MaxTasks = 3
  Hosts = {c1, c2}
  MaxTeamSpans = 3
  MaxVersion = 3
  Publishers = {c1, c2}
  Subs = {"s", "route"}
  RouterSub = "route"
  Priorities <- RulePriorities
  MaxEvents = 2
  StreamCap = 2
  MaxEntries = 6
SYMMETRY Swaps
SPECIFICATION Spec
CHECK_DEADLOCK FALSE
INVARIANTS
  CloseIsOrderly
  CatalogSound
  SandboxSound
  CheckpointsSound
  RolesSound
  TraceIsTree
  LiveTraceSound
  TeamTraceSound
  FanoutSound
  PagingSound
  DialogueSound
PROPERTIES
  DirectorySound
  MessagesArrive
  EffectsSettled
  InstallAtomic
  PipelineContract
