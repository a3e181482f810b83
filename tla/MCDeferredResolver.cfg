\* Two goroutines; windowSize 3, and option 0 selects the default threshold 3.
CONSTANTS
  sql = sql
  email = email
  audit = audit
  NoTag = NoTag
  NoIntent = NoIntent
  NoAnswer = NoAnswer
  Goroutine = {g1, g2}
  Capability <- MCCapability
  AllCapabilities <- MCAllCapabilities
  RawTag <- MCRawTag
  Normalize <- MCNormalize
  Intent <- MCIntent
  Fallback <- MCFallback
  WindowSizeOption = 3
  NarrowThresholdOption = 0
  MaxObservations = 4

SPECIFICATION Spec
INVARIANTS
  TypeOK
  WindowIsNewest
  NeverNarrowedToNothing
PROPERTIES
  NarrowedUntilReset
  KeepsPromise
SYMMETRY MCSymmetry
