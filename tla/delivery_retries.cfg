SPECIFICATION Spec
CONSTANTS
  Ids = {i1, i2}
  Items = {g1}
  Targets = {t1, t2}
  Files = {f1}
  Requests = {r1}
  Traced = {r1}
  Async = {r1}
  SkipStaging = TRUE
  Messages = {m1}
  MaxTime = 1
  MaxAttempts = 2
  MaxReceives = 1
  Failures = {"lambda", "sns", "sns-reply"}
  SecondLength = 2
  ItemOf <- MCItemOf
  FilesOf <- MCFilesOf
  CollectionOf <- MCCollectionOf
SYMMETRY Symmetry
CHECK_DEADLOCK FALSE
INVARIANTS SendLoopLeavesNoGap StatusesAreTrue RowsNameTheirOwner SendsBoundedByRuns
PROPERTIES ImplementsLedger
