SPECIFICATION Spec
CONSTANTS
  tun0 = tun0
  tun1 = tun1
  t1 = t1
  t2 = t2
  good = good
  good2 = good2
  bad = bad
  None = None
  Metered = Metered
  Tables = {t1}
  Clients = {good, good2, bad}
  Broken = {bad}
  Configs <- TwoModes
  Devs = {tun0}
  Persistent = {}
  MaxIndex = 2
  Budget <- BudgetRacing
  FreeCommits = FALSE
  FreeStarts = FALSE
INVARIANT ArmedWhileAttached
CHECK_DEADLOCK FALSE
