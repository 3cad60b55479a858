SPECIFICATION Spec
CONSTANTS
  Forms <- MCForms
  Numbered = {"N#"}
  Common = {"*I"}
  Units <- MCUnits
  Reads <- MCReads
  Options <- MCOptions
  UnitNames <- MCUnitNames
  BufLen = 5
  MaxLen = 5
INVARIANTS MatchIsRight NumbersAreRight NumbersAreLongest StringsEnd DetectedIsRead TextIsCopied ListsAreRead
PROPERTY UnitEnds
CHECK_DEADLOCK FALSE
