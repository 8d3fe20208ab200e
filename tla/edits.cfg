SPECIFICATION EditsSpec
CONSTANTS
  tun0 = tun0
  tun1 = tun1
  t1 = t1
  t2 = t2
  good = good
  good2 = good2
  bad = bad
  None = None
  Metered = Metered
  Tables = {t1, t2}
  Clients = {good, good2, bad}
  Broken = {bad}
  Configs <- Editable
  Devs = {tun0}
  Persistent = {}
  MaxIndex = 4
  Budget <- BudgetEdits
  FreeCommits = FALSE
  FreeStarts = FALSE
INVARIANTS
  OnlyAppliedTable
  ModesExclusive
  AttachmentAgrees
PROPERTIES
  SettingsTakeEffect
  EventuallyAttached
CHECK_DEADLOCK FALSE
