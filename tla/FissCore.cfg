SPECIFICATION FairSpec
CONSTANTS
  h1 = h1
  h2 = h2
  h3 = h3
  t1 = t1
  t2 = t2
  Hosts = {h1, h2}
  NoHost = NoHost
  TaskIds = {t1, t2}
  NoTask = NoTask
  CntMod = 8
  FwdBackMax = 2
  Clients <- TwoByOne
  Ops = {"SHARED", "EXCL"}
  MaxReq = 1
  Aborts = FALSE
CHECK_DEADLOCK FALSE
INVARIANTS
  TypeOK
  CounterAgrees
  SwitchAgrees
  HolderRecorded
  AssertionsHold
PROPERTIES
  ImplementsRWLock
  Settles
  ReadersServed
