SPECIFICATION FairSpec
CONSTANTS
  Ids = {i1, i2, i3}
  Items = {g1, g2, g3}
  Targets = {t1}
  Files = {f1}
  Requests <- MCRequests
  ItemOf <- MCItemOf
  FilesOf <- MCFilesOf
  Traced = {}
  Async = {}
  SkipStaging = FALSE
  MaxTime = 0
  SecondLength = 1
  MaxAttempts = 1
  Failures = {"sns", "db", "lambda", "agreement"}
  Limit = 2
  MaxWorkers = 2
  MaxChanges = 0
  InFargate = FALSE
  PageFailures = {"raises", "no-features"}
CHECK_DEADLOCK FALSE
INVARIANTS SuccessMeansRecorded PoolMovesOn
PROPERTIES JobEnds JobImplementsLedger
