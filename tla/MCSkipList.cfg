SPECIFICATION Spec
CONSTANTS
  v1 = v1
  Keys <- MCKeys
  Values <- MCValues
  KeyLen <- MCKeyLen
  ValLen <- MCValLen
  MAX_LEVEL = 4
  MaxPuts = 4
INVARIANTS
  TypeOK
  LevelsAgree
  GetFollowsList
PROPERTY
  ImplementsNodeList
