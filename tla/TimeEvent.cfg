SPECIFICATION FairSpec
CONSTANTS
  e1 = e1 e2 = e2
  TMEVTB = {e1, e2}
  Cyclic = {e2}
  NULL = NULL
  EVT = 12 SYS = 24 MARGIN = 5 TCYC = 8 TSTEP = 2 BOUND = 3
  ADJTIM = 0
  RELTIM <- MCRELTIM
  cyctim = 3
  SetTimes <- NoTimes
  MaxDelay = 1
INVARIANTS ClocksOK
PROPERTIES NeverEarly InOrder EventsHappen
