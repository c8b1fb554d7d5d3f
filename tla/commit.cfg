SPECIFICATION Spec
CONSTANTS
  p1 = p1
  p2 = p2
  Nobody = Nobody
  Proc = {p1, p2}
  Item = {"a", "bad"}
  NatItem = {}
  BadItem = {"bad"}
  Policy = {"allow", "deny"}
  Cmds = {"ext", "rule", "sweep", "enable", "disable", "reload", "bootLoad", "bootUnload"}
  Faults = {"apply", "hook", "frag", "flush", "reboot"}
INVARIANTS HolderSeesCurrent KernelInv NotAhead
