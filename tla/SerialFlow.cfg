SPECIFICATION SafeSpec
CONSTANTS
  wr = wr  rd = rd  a = a  b = b
  LF = LF  CR = CR  FC_STOP = FC_STOP  FC_START = FC_START
  NULL = NULL
  Task = {wr, rd}
  Writer = {wr}
  Reader = {rd}
  Manager = {rd}
  Closer = {}
  Text <- OneLine
  Input = {b}
  Length = {1, 2}
  IoControl <- MCIoControl
  sendBufferSize = 2
  receiveBufferSize = 3
  TxSize = 1
  RxSize = 1
  ReleasesEcho = FALSE
  ClosesInUse = FALSE
INVARIANTS FlowControlAgrees
