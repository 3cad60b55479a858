\* A ring of 3 in a larger array, as in test/test_fifo.c.
CONSTANTS
  Size = 3
  Declared = 4
  Value = {v1, v2, v3}
  NoValue = none
SPECIFICATION Spec
PROPERTY IsBoundedQueue
