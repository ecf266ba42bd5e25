SPECIFICATION Spec
CONSTANTS
  Line <- Lines
  OptionSets <- OptionsTried
  Code = {"BADPAT", "EBRACE"}
  MaxLines = 3
  MaxFiles = 2
CHECK_DEADLOCK FALSE
INVARIANTS TypeOK PatternsAreFreed AlarmsAreOff NothingInSkippedBlocks LocaleIsLeft
PROPERTIES VerdictsAreRight LinesEnd
