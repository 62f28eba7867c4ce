SPECIFICATION Spec
CONSTANTS
  Texts <- SmallTexts
  Raws <- SmallRaws
  Masks <- SmallMasks
  Strings <- SmallStrings
INVARIANTS
  Denotes
  AcceptsExactly
  Scannable
  FitsCompiled
  SurvivesPrinting
CHECK_DEADLOCK FALSE
