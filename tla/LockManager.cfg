SPECIFICATION FairSpec
CONSTANTS
  Tasks = {l1, r1, r2}
  Local = {l1}
  MaxReq = 2
CHECK_DEADLOCK FALSE
INVARIANTS
  TypeOK
  ManagerExact
PROPERTIES
  ImplementsRWLock
  EventuallyHolds
