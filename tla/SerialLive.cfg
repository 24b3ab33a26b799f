SPECIFICATION Spec
CONSTANTS
  wr = wr  rd = rd  a = a  b = b
  LF = LF  CR = CR  FC_STOP = FC_STOP  FC_START = FC_START
  NULL = NULL
  Task = {wr, rd}
  Writer = {wr}
  Reader = {rd}
  Manager = {rd}
  Closer = {}
  Text <- OneChar
  Input = {LF}
  Length = {1}
  IoControl = {}
  sendBufferSize = 2
  receiveBufferSize = 2
  TxSize = 1
  RxSize = 1
  ReleasesEcho = FALSE
  ClosesInUse = FALSE
PROPERTIES WriteReturns
