SPECIFICATION Spec
CONSTANTS
  Pkg = 3
  Hdr = 1
  Buf = 8
  M = 32
  MsgIds = {"DEV_DEP_MSG_OUT", "REQUEST_DEV_DEP_MSG_IN"}
  Tags = {1, 2}
  Sizes = {1, 2, 3, 6}
  BufSize = 6
  Lens = {1, 3, 5, 8}
  TxMax = 10
  Patient = TRUE
  Faulty = FALSE
  Resets = FALSE
  Aborts = TRUE
  Traced = TRUE
INVARIANTS FinishedIsIdle NoLostWakeup
PROPERTIES MessageIsTaken MessageIsWhole ResponseInOrder SendReturns
CHECK_DEADLOCK FALSE
