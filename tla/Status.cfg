\* Errors, events, masks and SRE together; a queue of two errors.
CONSTANTS
  Capacity = 2
  CondBit = {"b0"}
  SreVals <- SreMasks
  EseVals <- EseMasks
  CondVals <- Conditions
  DeviceErrors <- OwnErrors
  ParamFaults <- Faults
SPECIFICATION Spec
VIEW Lasting
INVARIANTS StatusByte HostKnowsSTB DeviceKnowsErrors ClsClearsAll
PROPERTIES EventsAreReported ErrorsLeaveInOrder
