SPECIFICATION Spec
CONSTANTS
  t1 = t1  t2 = t2  t3 = t3
  Task = {t1, t2, t3}
  NULL = NULL
  TNUM_TPRI = 2
  Static = {t1}
  itskpri <- SamePri
  ACT = {t1}
  NOACTQUE = {}
  MaxNest = 1
SYMMETRY Symmetry
CONSTRAINT FewCombinations
INVARIANTS TypeOK ReadyQueuesOK SchedIsFirst DispatchingOK RunningIsScheduled RasterOK TimeEventsOK RequestsOK AssertsHold
PROPERTIES SuspendedUntilResumed FifoKept
