SPECIFICATION Spec
CONSTANTS
  a1 = a1  a2 = a2  a3 = a3  b1 = b1   A = A  B = B
  Rows <- MCRows
  Time <- MCTime
  Key <- MCKey
  NoRow = NoRow
  Instants = {10, 15}
  Day = 10
  SecondMs = 5
  DefaultLimit = 1
  MaxLimit = 2
  Asked = {0, 3}
  HttpIntervals = {0}
  GrpcIntervals = {"INTERVAL_5MS", "UNKNOWN"}
INVARIANTS
  TypeOK
  ExportMissesNothing
  QuietExportRepeatsNothing
PROPERTY
  LatestNeverGoesBack
