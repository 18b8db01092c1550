SPECIFICATION Spec
CONSTANTS
  h1 = h1
  h2 = h2
  h3 = h3
  t1 = t1
  t2 = t2
  Hosts = {h1, h2, h3}
  NoHost = NoHost
  TaskIds = {t1}
  NoTask = NoTask
  CntMod = 8
  FwdBackMax = 2
  Clients <- OneEach
  Ops = {"SHARED", "EXCL"}
  MaxReq = 1
  Aborts = FALSE
CHECK_DEADLOCK FALSE
INVARIANTS
  OneAgent
  RequestConserved
  StallsOnlyParked
