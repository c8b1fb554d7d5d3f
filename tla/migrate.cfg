SPECIFICATION Spec
CONSTANTS
  Manager = {"iptables", "firewalld"}
  Given <- MCGiven
  Directory = {"etc", "saved"}
  Config <- MCConfig
  holds <- MCHolds
  Content <- State
  Prior <- MCPrior
  Default <- Defaults
  Failed = Failed
  None = None
  NoDump = NoDump
  Read <- importSystemFirewall
  Addr = {1, 2}
  Iface = {"e0", "e1"}
  Service = {"ssh", "web", "icmp6", "ping"}
  ofFamily <- MCOfFamily
  Before <- MCBefore
  EtcFile <- MCEtcFile
  Icmp = {"icmp6", "ping"}
  Prefix = {{1}, {2}, {1, 2}}
  Protocol = {"icmp6"}
  PolicyService = {"icmp6"}
  Zone = {"public", "work"}
  zoneOrder <- MCZoneOrder
  Named = {"both", "more", "loop"}
  definition <- MCDefinition
INVARIANTS TypeOK NeverBare OneFirewall Undone IptablesKept UndeclaredKept FirewalldKept
PROPERTIES HandedOver
CHECK_DEADLOCK FALSE
