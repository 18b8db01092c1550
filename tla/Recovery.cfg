SPECIFICATION FairSpec
CONSTANTS
  t1 = t1
  t2 = t2
  Hosts = {1, 2, 3}
  HostNum = 3
  NoHost = NoHost
  TaskIds = {t1, t2, restore}
  NoTask = NoTask
  Restore = restore
  CntMod = 8
  FwdBackMax = 2
  MaxUsers = 3
  Clients <- MCClients
CHECK_DEADLOCK FALSE
INVARIANTS
  TypeOK
  RestoredOnce
  VerdictExact
  SecondAgentOnly
  
  MissedOnly
  LeftInQueue
  SwitchKnowsAgent
PROPERTIES
  RecoveryEnds
