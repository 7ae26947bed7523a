SPECIFICATION FairSpec
CONSTANTS
  g1 = g1
  g2 = g2
  t1 = t1
  t2 = t2
  t3 = t3
  NoThread = NoThread
  Sites = {g1, g2}
  Threads = {t1, t2, t3}
  SiteOf <- ThreeOnTwo
  datacenterId <- MCDatacenter
  machineId <- MCMachine
  MAX_DATACENTER_NUM = 1
  MAX_MACHINE_NUM = 1
  MAX_SEQUENCE = 1
  START_STMP = 1
  TIME_RANGE = 4
  MaxClock = 3
  MaxSetBacks = 1
  Unsteady = {g1}
  MaxRestarts = 2
  MaxIds = 3
INVARIANTS TypeOK UniqueIds IdsIncrease
PROPERTIES CallsEnd IssuesInTurn
CHECK_DEADLOCK FALSE
