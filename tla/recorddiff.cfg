SPECIFICATION Spec
CONSTANTS
  None = None
  Tables <- SomeTables
  Clients <- SomeClients
  Broken = {}
  Configs <- Meanings
  Values <- SomeValues
  Certs = {"none", "pinned"}
  Commits <- SomeCommits
INVARIANTS
  DiffIsExact
  DearestDecides
  NeverTooCheap
CHECK_DEADLOCK FALSE
