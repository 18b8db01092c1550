SPECIFICATION Spec
CONSTANTS
  Hosts = {h1}
  Self = h1
  NoHost = NoHost
  TaskIds = {t1, t2, t3, t4}
  Tasks = {t1, t2, t3, t4}
  Hasty = {t4}
  NoTask = NoTask
  CntMod = 8
  FwdBackMax = 2
CHECK_DEADLOCK FALSE
INVARIANTS
  MutualExclusion
