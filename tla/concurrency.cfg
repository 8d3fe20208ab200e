SPECIFICATION Spec
CONSTANTS
  tun0 = tun0
  tun1 = tun1
  t1 = t1
  t2 = t2
  good = good
  good2 = good2
  bad = bad
  None = None
  Metered = Metered
  Tables = {t1}
  Clients = {good, good2, bad}
  Broken = {bad}
  Configs <- Strict
  Devs = {tun0, tun1}
  Persistent = {}
  MaxIndex = 3
  Budget <- BudgetConcurrency
  FreeCommits = TRUE
  FreeStarts = TRUE
SYMMETRY Permute
INVARIANTS
  TypeOK
  StoppedIsInert
PROPERTY ImplementsKillswitch
CHECK_DEADLOCK FALSE
