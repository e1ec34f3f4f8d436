SPECIFICATION FairSpec
CONSTANTS
  p1 = p1  p2 = p2
  Parsers = {p1}
  MaxRows = 1
  MaxGen = 0
  MaxWrites = 1
  MaxTrouble = 1
  BatchSize = 2
  MaxRetries = 1
PROPERTY
  FailedBatchIsRetried
CHECK_DEADLOCK FALSE
