SPECIFICATION Spec
CONSTANTS
  t1 = t1  t2 = t2  t3 = t3  short = short  long = long
  Task = {t1, t2, t3}
  NULL = NULL
  TNUM_TPRI = 2
  mbf_swait = mbf_swait  mbf_rwait = mbf_rwait
  WaitQueue = {mbf_swait, mbf_rwait}
  TPRI = {}
  Msg = {short, long}
  Size <- MCSize
  WORD = 2
  mbfsz = 8
  ipriority <- MCipriority
  MaxNest = 1
SYMMETRY Symmetry
INVARIANTS MessageBufferOK
PROPERTIES MsgChannelSpec
