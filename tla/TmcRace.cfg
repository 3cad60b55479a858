SPECIFICATION Spec
CONSTANTS
  Pkg = 3
  Hdr = 1
  Buf = 8
  M = 32
  MsgIds = {"DEV_DEP_MSG_OUT", "REQUEST_DEV_DEP_MSG_IN"}
  Tags = {1, 2}
  Sizes = {1, 3}
  BufSize = 6
  Lens = {1}
  TxMax = 4
  Patient = FALSE
  Faulty = FALSE
  Resets = FALSE
  Aborts = FALSE
  Traced = TRUE
PROPERTY MessageIsWhole
CHECK_DEADLOCK FALSE
