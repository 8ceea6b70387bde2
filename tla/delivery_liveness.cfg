SPECIFICATION FairSpec
CONSTANTS
  Ids = {i1}
  Items = {g1}
  Targets = {t1}
  Files = {f1}
  Requests = {r1}
  Traced = {r1}
  Async = {r1}
  SkipStaging = FALSE
  Messages = {m1}
  MaxTime = 1
  MaxAttempts = 2
  MaxReceives = 2
  Failures = {"staging", "traces", "sns-reply", "db", "sfa", "s3", "storage", "lambda", "schema", "agreement"}
  SecondLength = 2
  ItemOf <- MCItemOf
  FilesOf <- MCFilesOf
  CollectionOf <- MCCollectionOf
CHECK_DEADLOCK FALSE
PROPERTIES ResponsesDrain RequestsSettle
