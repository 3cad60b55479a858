SPECIFICATION Spec
CONSTANTS
  MemSize = 92
  Struct = 8
  MinSize = 12
  Align = 4
  W = 256
  Sizes = {1, 14, 24, 40, 100}
  Levels = 2
CONSTRAINT NoRace
INVARIANTS WellFormed EnoughRoom NoFalseNull
 
