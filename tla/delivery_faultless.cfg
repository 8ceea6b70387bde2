SPECIFICATION FairSpec
CONSTANTS
  Ids = {i1, i2}
  Items = {g1, g2}
  Targets = {t1}
  Files = {f1}
  Requests = {r1, r2}
  Traced = {r1}
  Async = {r1}
  SkipStaging = FALSE
  Messages = {m1}
  MaxTime = 1
  MaxAttempts = 1
  MaxReceives = 2
  Failures = {}
  SecondLength = 2
  ItemOf <- MCItemOf
  FilesOf <- MCFilesOf
  CollectionOf <- MCCollectionOf
CHECK_DEADLOCK FALSE
PROPERTIES Delivers
