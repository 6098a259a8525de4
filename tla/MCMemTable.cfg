SPECIFICATION Spec
CONSTANTS
  v2 = v2
  none = none
  Keys <- MCKeys
  Values <- MCValues
  KeyLen <- MCKeyLen
  ValLen <- MCValLen
  Empty = none
  MaxPuts = 5
INVARIANTS
  TypeOK
  TailSorted
  FlushPreservesLookups
  OnlyFirstKeyHidden
  NeverFullEarly
