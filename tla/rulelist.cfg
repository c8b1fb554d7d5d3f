SPECIFICATION Spec
CONSTANTS
  Plain = {"ssh", "dns"}
  Group = {"app", "app4"}
  Item = {1, 2}
  profileOf <- MCProfileOf
  families <- MCFamilies
  Act <- MCAct
  Wanted <- MCWanted
  Documents <- MCDocuments
  ProfileSizes = {1, 2}
  MaxLen = 3
INVARIANTS TypeOK
PROPERTIES NoneDoubled OthersKept PrependFirst GroupsKept TwinOrder
VIEW WithoutOp
