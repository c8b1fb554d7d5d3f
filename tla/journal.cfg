SPECIFICATION Spec
CONSTANTS
  Jail = {"ssh", "mail"}
  Addr = {"a", "b"}
  NoAddr = "none"
  Ignored <- MCIgnored
  findTime <- MCFindTime
  maxRetries <- MCMaxRetries
  banTime <- MCBanTime
  PruneEvery = 3
  Faults = {"restart"}
  MaxTime = 5
  MaxLine = 4
INVARIANTS TypeOK NoneOverdue ReportsAreBans
PROPERTIES WindowSpec
