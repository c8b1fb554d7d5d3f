SPECIFICATION Spec
CONSTANTS
  Plain = {"ssh"}
  Group = {"app"}
  Item = {1, 2, 3}
  profileOf <- MCProfileOf
  families <- MCFamilies
  Act <- MCAct
  Wanted <- MCWanted
  Documents <- MCDocuments
  ProfileSizes = {3}
  MaxLen = 4
INVARIANTS GroupsWhole
VIEW WithoutOp
