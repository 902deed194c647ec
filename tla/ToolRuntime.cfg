SPECIFICATION Spec
CONSTANTS
  Runners = {t1}
  Callers = {t2}
  Host = host
  Shutdown = shutdown
  s1 = s1
  s2 = s2
  c1 = c1
  c2 = c2
  c3 = c3
  Servers = {s1, s2}
  Targets = {s1}
  Conns = {c1, c2, c3}
  ServerOf <- MCServerOf
  Initial = {c1, c3}
  Clients = {m1, m2}
  First = m1
  Capabilities = {"tools", "prompts"}
  Cursors = {k1}
  MaxRounds = 1
  MaxPages = 2
  MaxItems = 1
  None = None
CHECK_DEADLOCK FALSE
INVARIANTS
  LeasesHonoured
PROPERTIES
  ShutdownCompletes
