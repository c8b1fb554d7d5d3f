SPECIFICATION FairSpec
CONSTANTS
  Decision = {"d1", "d2", "bad"}
  Captcha = {}
  Unreadable = {"bad"}
  Addr = {"a"}
  address <- MCAddress
  Jail = {"ssh"}
  banTime <- MCBanTime
  lifetimes <- MCLifetimes
  NoDecision = "none"
  Faults = {"response", "lock", "restart"}
  MaxTime = 2
INVARIANTS TypeOK OneBan Reconciled
PROPERTIES LocalBansKept DecisionsTakeEffect
