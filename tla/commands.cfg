SPECIFICATION FairSpec
CONSTANTS
  p1 = p1
  p2 = p2
  Nobody = Nobody
  Proc = {p1, p2}
  Item = {"a"}
  NatItem = {}
  BadItem = {}
  Policy = {"deny"}
  Cmds = {"rule", "app", "appDefault", "panicOn", "enable", "reset"}
  Faults = {"frag"}
INVARIANTS TypeOK LockInv
PROPERTIES CommandsEnd
