SPECIFICATION FairSpec
CONSTANTS
  site = site
  sub = sub
  echo = echo
  a4 = a4
  b4 = b4
  a6 = a6
  p443 = p443
  p80 = p80
  work = work
  home = home
  None = None
  Installed = Installed
  Measured = Measured
  Failed = Failed
  Dash = Dash
  Names <- AllNames
  Parents <- ParentsOf
  Addresses = {a4, b4, a6}
  Six = {a6}
  Ports = {p443, p80}
  Profiles = {work, home}
  Configs <- SomeConfigs
  EchoHosts <- Echoes
  Resolve <- AddressOf
  Https = p443
  Queries <- Asked
  Slots = {1, 2}
  Budgets <- SomeBudgets
  BoxLines = 2
  ExportLines = 3
INVARIANTS
  TypeOK
  
  PreviewTellsTruth
  NoOrphanSpinner
  DiagnosisTellsTruth
  ReportIsComplete
  DomainTellsTruth
PROPERTIES
  RateIsOfLastInterval
  StatusCatchesUp
  LogCatchesUp
  EverySpinnerEnds
CHECK_DEADLOCK FALSE
