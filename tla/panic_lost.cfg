SPECIFICATION Spec
CONSTANTS
  p1 = p1
  p2 = p2
  Nobody = Nobody
  Proc = {p1, p2}
  Item = {"a"}
  NatItem = {}
  BadItem = {}
  Policy = {"allow", "deny"}
  Cmds = {"rule", "panicOn", "enable"}
  Faults = {}
PROPERTY PanicHeld
