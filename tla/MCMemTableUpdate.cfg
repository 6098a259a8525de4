SPECIFICATION Spec
CONSTANTS
  v2 = v2
  none = none
  Keys <- MCKeys
  Values <- MCValues
  KeyLen <- MCKeyLen
  ValLen <- MCValLen
  Empty = none
  MaxPuts = 3
INVARIANT
  LastWriteWins
