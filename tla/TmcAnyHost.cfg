SPECIFICATION Spec
CONSTANTS
  Pkg = 3
  Hdr = 2
  Buf = 6
  M = 32
  MsgIds = {"DEV_DEP_MSG_OUT", "REQUEST_DEV_DEP_MSG_IN"}
  Tags = {1, 2}
  Sizes = {3, 6}
  BufSize = 0
  Lens = {}
  TxMax = 0
  Patient = FALSE
  Faulty = TRUE
  Resets = TRUE
  Aborts = TRUE
  Traced = FALSE
INVARIANT RxInBuffer
