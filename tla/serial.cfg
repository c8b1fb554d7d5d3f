SPECIFICATION Spec
CONSTANTS
  p1 = p1
  p2 = p2
  Nobody = Nobody
  Proc = {p1, p2}
  Item = {"a"}
  NatItem = {}
  BadItem = {}
  Policy = {"allow", "deny"}
  Cmds = {"ext", "sweep", "default", "logging", "import", "panicOn", "panicOff", "enable", "disable", "reload", "reset", "bootLoad", "bootUnload"}
  Faults = {"apply", "hook", "frag", "flush", "save", "crash", "reboot"}
INVARIANTS AppliedOnSuccess
PROPERTIES PanicSticky PanicHeld SerialSpec
SYMMETRY Symmetry
