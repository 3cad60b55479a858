SPECIFICATION Spec
CONSTANTS
  W = 8
  H = 128
  Delays = {0, 1, 2, 3, 7, 8, 9, 17}
  MaxGap = 7
  MaxTicks = 40
INVARIANT CounterInTime
