SPECIFICATION Spec
CONSTANTS
  t1 = t1
  c1 = c1
  c2 = c2
  safe = safe
  risky = risky
  barred = barred
  run = run
  team = team
  None = None
  Scopes = {run, team}
  Rates <- MCRates
  Unit = 2
  Tenants = {t1}
  Callers = {c1, c2}
  Tools = {safe, risky, barred}
  Risky = {risky}
  Rules <- MCRules
  Limits <- MCLimits
  Lowered <- MCLowered
  Run = run
  Tuned = {team}
  Cleared = {run}
  EstInput = 1
  EstOutput = 1
  Usages <- MCUsages
  MaxPerRun = 1
  MaxCalls = 1
  MaxToolCalls = 1
  MaxOps = 2
SYMMETRY Swaps
CHECK_DEADLOCK FALSE
INVARIANTS
  BooksBalance
  CallsAccounted
