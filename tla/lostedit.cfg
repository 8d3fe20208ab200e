SPECIFICATION FairSpec
CONSTANTS
  tun0 = tun0
  tun1 = tun1
  t1 = t1
  t2 = t2
  good = good
  good2 = good2
  bad = bad
  None = None
  Metered = Metered
  Tables = {t1}
  Clients = {good, good2, bad}
  Broken = {bad}
  Configs <- Racing
  Devs = {tun0}
  Persistent = {}
  MaxIndex = 2
  Budget <- BudgetRacing
  FreeCommits = TRUE
  FreeStarts = FALSE
PROPERTY SettingsTakeEffect
CHECK_DEADLOCK FALSE
