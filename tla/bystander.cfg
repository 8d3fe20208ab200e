SPECIFICATION Spec
CONSTANTS
  tun0 = tun0
  tun1 = tun1
  t1 = t1
  t2 = t2
  good = good
  good2 = good2
  bad = bad
  None = None
  Metered = Metered
  Tables = {t1}
  Clients = {good, good2, bad}
  Broken = {bad}
  Configs <- AnyMode
  Devs = {tun0, tun1}
  Persistent = {tun1}
  MaxIndex = 4
  Budget <- BudgetBystander
  FreeCommits = FALSE
  FreeStarts = FALSE
INVARIANT NoOlderDevice
CHECK_DEADLOCK FALSE
