SPECIFICATION Spec
CONSTANTS
  TMEVTB = {c, a, e1, e2, e3, e4}
  Cyclic = {c}
  Alarm = {a}
  NULL = NULL
  EVT = 4
  cyctim = 1
  BOUNDARY_MARGIN = 1
SYMMETRY Symmetry
INVARIANTS HeapOK StartedIsRegistered
PROPERTIES QueueSpec
