SPECIFICATION FairSpec
CONSTANTS
  Readers = {r1, r2, r3}
  Writers = {w1, w2}
  Local = {r1, w1}
  Aborts = TRUE
CHECK_DEADLOCK FALSE
INVARIANTS IInv HoldIsGranted
PROPERTIES ImplementsRWLock EventuallyServed
