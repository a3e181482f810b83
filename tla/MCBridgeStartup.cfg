\* Up to four sources in the config file and four in mcp.json, two tool lists.
CONSTANTS
  Nothing = Nothing
  Letters <- MCLetters
  Lower <- MCLower
  Short = {"X", "x"}
  Separator <- MCSeparator
  Config <- MCConfig
  File <- MCFile
  ToolList <- MCToolList
  MaxSources = 8
  Texts <- MCTexts
  Parts <- MCParts
  Bare <- MCBare
  Trimmed <- MCTrimmed
  Bracketed <- MCBracketed

SPECIFICATION FairSpec
INVARIANTS
  TypeOK
  RoutedHome
  ChildrenAccounted
  ImportedInFull
  SchemaSurvives
PROPERTIES
  StartUpEnds
\* The process ends.
CHECK_DEADLOCK FALSE
