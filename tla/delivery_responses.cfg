SPECIFICATION Spec
CONSTANTS
  Ids = {i1}
  Items = {g1}
  Targets = {t1}
  Files = {f1}
  Requests = {r1}
  Traced = {r1}
  Async = {r1}
  SkipStaging = TRUE
  Messages = {m1, m2}
  MaxTime = 1
  MaxAttempts = 2
  MaxReceives = 2
  Failures = {"db", "sfa", "s3", "storage", "lambda", "schema"}
  SecondLength = 1
  ItemOf <- MCItemOf
  FilesOf <- MCFilesOf
  CollectionOf <- MCCollectionOf
SYMMETRY Symmetry
CHECK_DEADLOCK FALSE
INVARIANTS TypeOK DeliveryInv AnswerFollowsSubmission DeletedMeansRecorded SummaryCountsEveryRow AnswersComeWithSubmissions
PROPERTIES FirstRowStands ClosedWindowsStand
