SPECIFICATION Spec
CONSTANTS
  Ids = {i1}
  Items = {g1, g2, g3, g4}
  Targets = {t1}
  Files = {}
  Requests <- MCRequests
  ItemOf <- MCItemOf
  FilesOf <- MCFilesOf
  Traced = {}
  Async = {}
  SkipStaging = FALSE
  MaxTime = 0
  SecondLength = 1
  MaxAttempts = 1
  Failures = {"staging"}
  Limit = 2
  MaxWorkers = 2
  MaxChanges = 2
  InFargate = FALSE
  PageFailures = {"raises", "no-features"}
CHECK_DEADLOCK FALSE
SYMMETRY Symmetry
INVARIANTS CollectionTypeOK PagingInv EachChangeCostsOneGranule
