\* size = FIFO_SIZE = the number of elements of data, as fifo_init leaves it.
CONSTANTS
  Size = 3
  Declared = 3
  Value = {v1, v2}
  NoValue = none
SPECIFICATION Spec
PROPERTY StoreInsideArray
