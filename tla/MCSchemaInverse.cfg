\* A server whose one tool takes an enumeration of numbers.
CONSTANTS
  Nothing = Nothing
  Letters <- MCLetters
  Lower <- MCLower
  Short = {"X", "x"}
  Separator <- MCSeparator
  Config <- MCConfig
  File <- MCFile
  ToolList <- MCNumberList
  MaxSources = 8
  Texts <- MCTexts
  Parts <- MCParts
  Bare <- MCBare
  Trimmed <- MCTrimmed
  Bracketed <- MCBracketed

SPECIFICATION Spec
INVARIANT
  CompactionInverted
CHECK_DEADLOCK FALSE
