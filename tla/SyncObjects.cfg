SPECIFICATION Spec
CONSTANTS
  t1 = t1  t2 = t2  t3 = t3  d1 = d1  d2 = d2  d3 = d3  b1 = b1  b2 = b2
  Task = {t1, t2, t3}
  NULL = NULL
  TNUM_TPRI = 2
  Sem = Sem  Flg = Flg  Mpf = Mpf
  dtq_swait = dtq_swait  dtq_rwait = dtq_rwait
  pdq_swait = pdq_swait  pdq_rwait = pdq_rwait
  WaitQueue = {Sem, Flg, Mpf, dtq_swait, dtq_rwait, pdq_swait, pdq_rwait}
  TPRI = {Sem, Mpf, dtq_swait, pdq_swait}
  TMAX_MAXSEM = 2
  Bit = {b1, b2}
  MaxBlkcnt = 3
  INDEX_NULL = INDEX_NULL
  INDEX_ALLOC = INDEX_ALLOC
  Data = {d1, d2}
  MaxDtqcnt = 2
  Item <- MCItem
  MaxPdqcnt = 2
  ipriority <- MCipriority
  MaxNest = 1
SYMMETRY Symmetry
CONSTRAINT FewCombinations
INVARIANTS KernelOK NobodyWaitsInVain StorageOK
PROPERTIES ChannelSpec PriChannelSpec
