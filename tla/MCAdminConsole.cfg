SPECIFICATION ConsoleSpec
CONSTANTS
  Users = {o, u1, u2}
  Owner = o
  CustomNames = {"custom"}
  CustomPermissions <- MCCustomPermissions
  Tokens = {t}
  SessionLength = 1
  MaxTime = 2
  None = None
SYMMETRY MCSymmetry
INVARIANTS
  TypeOK
  ConsoleTypeOK
  OwnerKeepsControl
  BanTakesHold
PROPERTIES
  OwnersComeFromOwners
  LockoutIsForGood
