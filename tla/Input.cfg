\* A small buffer fed with short texts, a large one with whole lines.
SPECIFICATION Spec
CONSTANTS
  Lengths = {6, 32}
  Chunks <- MCChunks
  Known <- MCKnown
INVARIANTS InBuffer LineIsWhole OnlyEmptyUnitsWait
  RestUntouched ResultsApart ComposedInPlace
PROPERTY InputReturns
