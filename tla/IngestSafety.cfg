SPECIFICATION Spec
CONSTANTS
  h1 = h1  g1 = g1  g2 = g2  m1 = m1  m2 = m2  m3 = m3  b1 = b1  b2 = b2  b3 = b3  b4 = b4
  Http = Http  Single = Single  Batch = Batch
  Wrong = Wrong  Big = Big  Query = Query
  Ticks <- MCTicks
  Valid <- MCValid
  Calls <- MCCalls
  Malformed = {}
  Kind <- MCKind
  Payload <- MCPayload
  MaxRequest = 3
  MaxQueue = 2
  MaxBatch = 2
  MaxFailures = 3
  MaxTimeouts = 1
  Queries = {}
  LatestCalled = FALSE
  MayLeak = FALSE
INVARIANTS
  TypeOK
  HeldOnce
  SilentLossNeedsExit
  DuplicatesNeedLostAck
  DropNeedsCause
  NoOvertaking
  AckCountsMatch
  LastFlushIsRefused
PROPERTIES
  ImplementsAttempts
