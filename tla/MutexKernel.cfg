SPECIFICATION CeilingSpec
CONSTANTS
  t1 = t1  t2 = t2  t3 = t3  m1 = m1  m2 = m2  m3 = m3
  Task = {t1, t2, t3}
  NULL = NULL
  TNUM_TPRI = 3
  WaitQueue = {m1, m2, m3}
  TPRI = {m1, m2}
  CEILING = {m1, m2}
  ceilpri <- MCceilpri
  ipriority <- SamePri
  MaxNest = 1
SYMMETRY Symmetry
VIEW View
CONSTRAINT FewCombinations
INVARIANTS OwnerListsAgree WaitQueuesOK SchedulerOK PriorityIsCeiling CeilingNeverBlocks
PROPERTIES HandedToBestWaiter
