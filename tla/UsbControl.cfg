SPECIFICATION Spec
CONSTANTS
  MaxPacketSize = 255
  Requests <- MCRequests
  Strings = {3}
  Paced = TRUE
  GiveUps = 1
INVARIANTS AnswerIsRight AddressAgreed ConfiguredIsKnown
PROPERTY TransferEnds
