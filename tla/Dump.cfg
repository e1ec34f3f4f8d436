SPECIFICATION FairSpec
CONSTANTS
  p1 = p1  p2 = p2
  Parsers = {p1, p2}
  MaxRows = 3
  MaxGen = 1
  MaxWrites = 2
  MaxTrouble = 2
  BatchSize = 2
  MaxRetries = 1
INVARIANTS
  TypeOK
  CursorCoversSent
  ExtraCopiesHaveCause
PROPERTIES
  CursorGoesBackOnlyByOverlap
  QuietFileIsSent
CHECK_DEADLOCK FALSE
