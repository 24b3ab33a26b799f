SPECIFICATION Spec
CONSTANTS
  e1 = e1
  e2 = e2
  TMEVTB = {e1}
  Cyclic = {}
  NULL = NULL
  EVT = 12 SYS = 24 MARGIN = 5 TCYC = 6 TSTEP = 2 BOUND = 2
  ADJTIM = 1
  RELTIM <- FewRELTIM
  cyctim = 3
  SetTimes <- MCSetTimes
  MaxDelay = 1
INVARIANTS NeverLate
PROPERTIES NeverEarly ClockExact
