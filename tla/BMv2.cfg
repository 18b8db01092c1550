SPECIFICATION FairSpec
CONSTANTS
  Hosts = {h1}
  Self = h1
  NoHost = NoHost
  TaskIds = {t1, t2, t3}
  Tasks = {t1, t2, t3}
  Hasty = {t2,t3}
  NoTask = NoTask
  CntMod = 8
  FwdBackMax = 2
CHECK_DEADLOCK FALSE
INVARIANTS
  TypeOK
  HolderAlone
  StallsOnly
  RequestOnce

  
