SPECIFICATION FairSpec
CONSTANTS
  v1 = v1
  none = none
  NoMem = NoMem
  Keys = {1, 2}
  Values = {none}
  KeyLen <- MCKeyLen
  ValLen <- MCValLen
  Readers = {r1}
  Empty = none
  MaxSize = 1
  CompactAbove = 2
  MaxPuts = 3
  MaxFailures = 0
  MaxRestarts = 0
INVARIANT
  ReadsOnlyWritten
PROPERTIES
  FlushEnds
  GetReturns
  CloseReturns
  CompactionCatchesUp
