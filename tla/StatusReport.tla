---------------------------- MODULE StatusReport ----------------------------
(***************************************************************************)
(* What a user learns of the delivery while both Lambdas still write:       *)
(* GET /archive/report, the counts of one collection at one DAAC collection *)
(* over a window of time, and GET /archive/{operation_id}, the statuses of  *)
(* one operation (catalya_uds_api/granules_archive_api.py).  Both only read *)
(* the status table, so this adds no state to DaacDelivery.                 *)
(***************************************************************************)
EXTENDS DaacDelivery, SequencesExt

CONSTANT CollectionOf  \* the collection of each item

ASSUME ReportAssumption == DOMAIN CollectionOf = Items

Collections == {CollectionOf[g] : g \in Items}

\* A bound that was not given.
None == -1

Windows == [start: {None} \union (0..MaxTime), end: {None} \union (0..MaxTime)]

\* Both bounds are inclusive.
InWindow(row, w) ==
  /\ w.start = None \/ w.start <= row.datetime
  /\ w.end = None \/ row.datetime <= w.end

\* Rows of collection c and DAAC collection t in window w.
Counted(c, t, w) ==
  {row \in rows : CollectionOf[row.subject[1]] = c /\ row.subject[2] = t /\ InWindow(row, w)}

\* CataliaStatusDb.count_by_status: a status without rows is absent.
CountByStatus(c, t, w) ==
  LET found == Counted(c, t, w)
  IN  [s \in {row.status : row \in found} |-> Cardinality({row \in found : row.status = s})]

(***************************************************************************)
(* archival_status_schema: a status names a stage and a result.             *)
(***************************************************************************)
Status(stage, result, name) == [stage |-> stage, result |-> result, name |-> name]

KnownStatuses ==
  << Status("authorized", "success", "cnm-authorized-success"),
     Status("authorized", "failed", "cnm-authorized-failed"),
     Status("staged", "success", "cnm-staged-success"),
     Status("staged", "failed", "cnm-staged-failed"),
     Status("submit", "success", "cnm-submit-success"),
     Status("submit", "failed", "cnm-submit-failed"),
     Status("receive", "success", "cnm-receive-success"),
     Status("receive", "failed", "cnm-receive-failed") >>

\* Faulty variant of FindStatus: the result is not looked at.
FindStatusOfStage(stage, result) ==
  KnownStatuses[Min({k \in DOMAIN KnownStatuses : KnownStatuses[k].stage = stage})].name

\* The first known status with both keywords.
FindStatus(stage, result) ==
  KnownStatuses[Min({k \in DOMAIN KnownStatuses :
    KnownStatuses[k].stage = stage /\ KnownStatuses[k].result = result})].name

\* get_archive_report: the count of one stage and result, 0 without rows.
Summary(c, t, w, stage, result) ==
  LET counts == CountByStatus(c, t, w)
      s      == FindStatus(stage, result)
  IN  IF s \in DOMAIN counts THEN counts[s] ELSE 0

SubmittedCount(c, t, w) ==
  Summary(c, t, w, "submit", "success") + Summary(c, t, w, "submit", "failed")
AnsweredCount(c, t, w) ==
  Summary(c, t, w, "receive", "success") + Summary(c, t, w, "receive", "failed")

\* The rows of S, each once, by ascending datetime.
InOrder(S) ==
  {s \in Injection(1..Cardinality(S), S) :
     \A j, k \in DOMAIN s : j < k => s[j].datetime <= s[k].datetime}

\* get_archive_status: the statuses of an operation in the order of their
\* datetimes; none is a 404.
StatusList(i) == CHOOSE s \in InOrder(Get(i)) : TRUE

-----------------------------------------------------------------------------
(***************************************************************************)
(* Properties.                                                              *)
(***************************************************************************)

\* No row escapes the summary and none is counted twice: what the two Lambdas
\* write is what the report looks for.
SummaryCountsEveryRow ==
  \A c \in Collections, t \in Targets, w \in Windows :
    SubmittedCount(c, t, w) + AnsweredCount(c, t, w) = Cardinality(Counted(c, t, w))

\* An answer is never shown without a submission: the status list of an
\* operation begins with one, and so does, for every collection and target, the
\* report up to any moment.
AnswersComeWithSubmissions ==
  /\ \A i \in Ids : StatusList(i) # << >> => Head(StatusList(i)).status \in SubmitStatuses
  /\ \A c \in Collections, t \in Targets, w \in Windows :
       (w.start = None /\ AnsweredCount(c, t, w) > 0) => SubmittedCount(c, t, w) > 0

\* The time of w is over, and nobody holds a status stamped before it ended.
Closed(w) ==
  /\ w.end # None /\ w.end < now
  /\ \A r \in Requests : pc[r] = "insert" => stamp[r] > w.end
  /\ \A m \in Messages : mpc[m] = "insert" => mstamp[m] > w.end

\* A status is stamped before it is inserted, so the report of a past window may
\* still change; once the statuses stamped in it are inserted it is final,
\* whatever is retried later.
ClosedWindowsStand ==
  [][\A w \in Windows : Closed(w) =>
       /\ Closed(w)'
       /\ \A c \in Collections, t \in Targets : Counted(c, t, w)' = Counted(c, t, w)]_vars
=============================================================================
