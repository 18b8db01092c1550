SPECIFICATION FairSpec
CONSTANTS
  r1 = r1
  r2 = r2
  w1 = w1
  w2 = w2
  Readers <- MCReaders
  Writers <- MCWriters
  Word = 8
  NoTask = none
  Systems <- OnlyMicrobench
CHECK_DEADLOCK FALSE
PROPERTY WaitIsFulfilled
