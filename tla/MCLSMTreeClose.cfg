SPECIFICATION Spec
CONSTANTS
  v1 = v1
  none = none
  NoMem = NoMem
  Keys = {1, 2}
  Values = {v1, none}
  KeyLen <- MCKeyLen
  ValLen <- MCValLen
  Readers = {}
  Empty = none
  MaxSize = 2
  CompactAbove = 2
  MaxPuts = 3
  MaxFailures = 0
  MaxRestarts = 0
PROPERTY
  CloseFlushesRemaining
