SPECIFICATION Spec
CONSTANTS
  Ids = {i1}
  Items = {g1}
  Targets = {t1}
  Files = {f1}
  Requests <- MCRequests
  ItemOf <- MCItemOf
  FilesOf <- MCFilesOf
  Traced = {}
  Async = {}
  SkipStaging = FALSE
  MaxTime = 0
  SecondLength = 1
  MaxAttempts = 1
  Failures = {}
  Limit = 1
  MaxWorkers = 1
  MaxChanges = 0
  InFargate = TRUE
  PageFailures = {"raises"}
CHECK_DEADLOCK FALSE
INVARIANTS ExitTellsOutcome
