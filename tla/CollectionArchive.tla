-------------------------- MODULE CollectionArchive --------------------------
(***************************************************************************)
(* Archiving a whole collection (DaacArchiverCatalia.archive_collection):   *)
(* page through the STAC catalogue by offset, then archive every granule    *)
(* that was fetched on a thread pool, each with an archiver of its own      *)
(* (DaacSender, container mode).  The job runs in a Fargate task started by *)
(* the API (docker_entrypoint) or inside the API's own container.  Its      *)
(* agreements are fixed when it is launched: `authorised` does not change.  *)
(*                                                                          *)
(* The catalogue may list a granule twice across pages, so a request is the *)
(* n-th occurrence of a granule: Requests = Items \X (1..n).                *)
(***************************************************************************)
EXTENDS DaacSender, SequencesExt

CONSTANTS
  Limit,        \* granules per page (100)
  MaxWorkers,   \* size of the thread pool (10)
  MaxChanges,   \* bound on the changes of the catalogue while the job pages
  InFargate,    \* the job runs in a Fargate task
  PageFailures  \* which ways a page request may fail

ASSUME CollectionAssumption ==
  /\ Limit \in Nat \ {0}
  /\ MaxWorkers \in Nat \ {0}
  /\ MaxChanges \in Nat
  /\ InFargate \in BOOLEAN
  /\ PageFailures \subseteq {"raises", "no-features"}
  /\ Requests = Items \X (1..(MaxChanges + 1))
  /\ \A r \in Requests : ItemOf[r] = r[1]
  /\ Async = {}

VARIABLES
  catalogue,  \* the collection's granules, in the order the catalogue lists them
  stayed,     \* history: granules in the catalogue ever since the job started
  changes,    \* history: changes of the catalogue since then
  malformed,  \* history: a page came back without features
  job,        \* where the job is
  page,       \* next page to fetch
  found,      \* all_granule_jsons
  next,       \* position in found of the next task the pool will start
  successful, \* successful_granules
  failed,     \* failed_granules
  exit        \* exit code of the Fargate task, or the answer of the API

catalogueVars  == <<catalogue, stayed, changes>>
jobVars        == <<malformed, job, page, found, next, successful, failed, exit>>
collectionVars == <<storeVars, senderVars, catalogueVars, jobVars>>

\* A granule of the job counts as successful or as failed, never as both, and
\* the pool never runs past the list that was fetched.
CollectionTypeOK ==
  /\ SenderTypeOK
  /\ catalogue \in Seq(Items) /\ IsInjective(catalogue)
  /\ stayed \subseteq ToSet(catalogue)
  /\ changes \in 0..MaxChanges
  /\ malformed \in BOOLEAN
  /\ job \in {"idle", "paging", "archiving", "returned", "raised", "lost"}
  /\ page \in Nat \ {0}
  /\ found \in Seq(Items)
  /\ next \in 1..(Len(found) + 1)
  /\ successful \union failed \subseteq Requests
  /\ successful \intersect failed = {}
  /\ exit \in {"none", "ok", "error"}

Init ==
  /\ StoresInit
  /\ SenderInit
  /\ catalogue \in UNION {Injection(1..n, Items) : n \in 0..Cardinality(Items)}
  /\ stayed = ToSet(catalogue)
  /\ changes = 0
  /\ malformed = FALSE
  /\ job = "idle"
  /\ page = 1
  /\ found = << >>
  /\ next = 1
  /\ successful = {}
  /\ failed = {}
  /\ exit = "none"

-----------------------------------------------------------------------------
(***************************************************************************)
(* The catalogue is the STAC FastAPI's; others add and remove granules, at  *)
(* whatever place of its order.  Only changes before the last page matter.  *)
(***************************************************************************)
CatalogueChanges ==
  /\ job \in {"idle", "paging"}
  /\ changes < MaxChanges
  /\ changes' = changes + 1
  /\ \/ \E i \in DOMAIN catalogue : catalogue' = RemoveAt(catalogue, i)
     \/ \E i \in 1..(Len(catalogue) + 1), g \in Items \ ToSet(catalogue) :
          catalogue' = InsertAt(catalogue, i, g)
  /\ stayed' = stayed \intersect ToSet(catalogue')
  /\ UNCHANGED <<storeVars, senderVars, jobVars>>

-----------------------------------------------------------------------------
(***************************************************************************)
(* archive_entire_collection and archive_collection.                        *)
(***************************************************************************)

\* The API answers 403 without an agreement; otherwise the job starts.
Launch ==
  /\ job = "idle"
  /\ authorised # {}
  /\ job' = "paging"
  /\ UNCHANGED <<storeVars, senderVars, catalogueVars, malformed, page, found, next,
                 successful, failed, exit>>

\* Faulty variant of Page: offset and limit as first and last position.
PageToLimit == SubSeq(catalogue, (page - 1) * Limit + 1,
                      IF Limit <= Len(catalogue) THEN Limit ELSE Len(catalogue))

\* get_items(limit, offset = (page - 1) * limit).
Page == SubSeq(catalogue, (page - 1) * Limit + 1,
               IF page * Limit <= Len(catalogue) THEN page * Limit ELSE Len(catalogue))

\* Faulty variant of LastPage: a full page also ends the pagination.
LastPageEager(granules) == Len(granules) <= Limit

\* An empty page, or one shorter than the limit, is the last.
LastPage(granules) == Len(granules) < Limit

\* What follows the last page: nothing to archive, or the thread pool.
AfterPaging(granules) == IF granules = << >> THEN "returned" ELSE "archiving"

FetchPage ==
  /\ job = "paging"
  /\ found' = found \o Page
  /\ IF LastPage(Page)
       THEN job' = AfterPaging(found') /\ UNCHANGED page
       ELSE page' = page + 1 /\ UNCHANGED job
  /\ UNCHANGED <<storeVars, senderVars, catalogueVars, malformed, next, successful,
                 failed, exit>>

\* A response without features ends the pagination with what there is; an
\* exception that outlasts backoff_wrapper becomes a RuntimeError.
FetchPageFails ==
  /\ job = "paging"
  /\ \/ /\ "no-features" \in PageFailures
        /\ malformed' = TRUE
        /\ job' = AfterPaging(found)
     \/ /\ "raises" \in PageFailures
        /\ job' = "raised"
        /\ UNCHANGED malformed
  /\ UNCHANGED <<storeVars, senderVars, catalogueVars, page, found, next, successful,
                 failed, exit>>

-----------------------------------------------------------------------------
(***************************************************************************)
(* archive_granules: a pool of MaxWorkers threads over the fetched list.    *)
(***************************************************************************)

\* The request that the k-th fetched granule stands for.
Task(k) == <<found[k], Cardinality({j \in 1..k : found[j] = found[k]})>>
Tasks   == {Task(k) : k \in DOMAIN found}

Busy == {r \in Requests : pc[r] \in Running}

\* Faulty variant of StartTask: no task is started once one has failed.
StartTaskUntilFailure ==
  /\ job = "archiving"
  /\ next \in DOMAIN found
  /\ Cardinality(Busy) < MaxWorkers
  /\ failed = {}
  /\ Accept(Task(next)) \/ Reject(Task(next))
  /\ next' = next + 1
  /\ UNCHANGED <<catalogueVars, malformed, job, page, found, successful, failed, exit>>

\* Faulty variant of StartTask: a granule that is refused is not taken off the
\* queue.
StartTaskKeepsRefused ==
  /\ job = "archiving"
  /\ next \in DOMAIN found
  /\ Cardinality(Busy) < MaxWorkers
  /\ \/ Accept(Task(next)) /\ next' = next + 1
     \/ Reject(Task(next)) /\ UNCHANGED next
  /\ UNCHANGED <<catalogueVars, malformed, job, page, found, successful, failed, exit>>

\* A free thread takes the next granule and generates its identifiers, which
\* an unusable asset makes raise.
StartTask ==
  /\ job = "archiving"
  /\ next \in DOMAIN found
  /\ Cardinality(Busy) < MaxWorkers
  /\ Accept(Task(next)) \/ Reject(Task(next))
  /\ next' = next + 1
  /\ UNCHANGED <<catalogueVars, malformed, job, page, found, successful, failed, exit>>

\* A thread works on: archive_granule_json of its own archiver.
Work(r) ==
  /\ job = "archiving"
  /\ ArchiverStep(r)
  /\ UNCHANGED <<catalogueVars, jobVars>>

\* Faulty variant of Collect: the else is lost, a success also counts as failed.
CollectWithoutElse(r) ==
  /\ job = "archiving"
  /\ pc[r] \in Settled
  /\ r \notin successful \union failed
  /\ successful' = IF pc[r] = "finished" THEN successful \union {r} ELSE successful
  /\ failed' = failed \union {r}
  /\ UNCHANGED <<storeVars, senderVars, catalogueVars, malformed, job, page, found, next,
                 exit>>

\* as_completed: the wrapper turned any exception into a result.
Collect(r) ==
  /\ job = "archiving"
  /\ pc[r] \in Settled
  /\ r \notin successful \union failed
  /\ \/ pc[r] = "finished" /\ successful' = successful \union {r} /\ UNCHANGED failed
     \/ pc[r] # "finished" /\ failed' = failed \union {r} /\ UNCHANGED successful
  /\ UNCHANGED <<storeVars, senderVars, catalogueVars, malformed, job, page, found, next,
                 exit>>

\* All futures collected: the summary is logged and archive_collection returns.
Summarise ==
  /\ job = "archiving"
  /\ Tasks = successful \union failed
  /\ job' = "returned"
  /\ UNCHANGED <<storeVars, senderVars, catalogueVars, malformed, page, found, next,
                 successful, failed, exit>>

\* The container is stopped or dies with everything in it.
ContainerLost ==
  /\ "lambda" \in Failures
  /\ job \in {"paging", "archiving"}
  /\ job' = "lost"
  /\ pc' = [r \in Requests |-> IF pc[r] \in Running THEN "dropped" ELSE pc[r]]
  /\ UNCHANGED <<storeVars, authorised, sending, pos, status, stamp, attempts, published,
                 catalogueVars, malformed, page, found, next, successful, failed, exit>>

\* choose_process falls through to its last line after the job has returned;
\* the API answers "archive completed".
Exit ==
  /\ job \in {"returned", "raised"}
  /\ exit = "none"
  /\ exit' = IF InFargate \/ job = "raised" THEN "error" ELSE "ok"
  /\ UNCHANGED <<storeVars, senderVars, catalogueVars, malformed, job, page, found, next,
                 successful, failed>>

JobStep ==
  \/ FetchPage \/ FetchPageFails \/ StartTask \/ Summarise \/ Exit
  \/ \E r \in Requests : Collect(r)

Next ==
  \/ Launch \/ CatalogueChanges \/ JobStep \/ ContainerLost
  \/ \E r \in Requests : Work(r)

\* The threads of a live container run; nobody has to launch a job.
Spec == Init /\ [][Next]_collectionVars
FairSpec ==
  /\ Spec
  /\ WF_collectionVars(JobStep)
  /\ \A r \in Requests : WF_collectionVars(Work(r))

-----------------------------------------------------------------------------
(***************************************************************************)
(* Properties.                                                              *)
(***************************************************************************)

\* Offset pagination of a catalogue nobody changes fetches every granule once,
\* in order: also at a page boundary, and for an empty collection.
PagesCoverCatalogue ==
  (job \in {"archiving", "returned"} /\ changes = 0 /\ ~malformed) => found = catalogue

\* Why it does, as an inductive invariant: page by page, what has been fetched
\* is the beginning of the catalogue.
PageInv ==
  /\ changes \in Nat
  /\ (changes = 0 /\ ~malformed) =>
       /\ catalogue \in Seq(Items)
       /\ job \in {"idle", "paging"} =>
            /\ page \in Nat \ {0}
            /\ (page - 1) * Limit <= Len(catalogue)
            /\ found = SubSeq(catalogue, 1, (page - 1) * Limit)
  /\ PagesCoverCatalogue

\* A granule counted as successful has a submission on record for every one of
\* its identifiers, under its own name, whatever happened to the granules
\* beside it and whatever the container lost.
SuccessMeansRecorded ==
  \A r \in successful : \A k \in DOMAIN sending[r] :
    \E row \in Get(sending[r][k].id) :
      row.subject = <<ItemOf[r], sending[r][k].target>>

\* What the abstract ledger sees of the job; answers are not its business.
Ledger == INSTANCE DeliveryLedger WITH
  issued  <- {i \in Ids : Issued(i)},
  sent    <- {i \in Ids : published[i] > 0},
  answers <- {},
  ledger  <- {<<row.identifier, row.status>> : row \in rows}

\* A pool of archivers over one status table keeps the promise a single request
\* does, however their steps interleave, and also when the container is lost:
\* no identifier is issued twice, none is sent that was not issued, and a
\* success to submit is on record only of a message that was sent.
JobImplementsLedger == Ledger!Spec

\* A job that starts paging ends, with every fetched granule reported on one
\* way or the other, although any number of them fails.
JobEnds ==
  job = "paging" ~> \/ job \in {"raised", "lost"}
                    \/ job = "returned" /\ Tasks = successful \union failed

\* The pool never gets stuck: while the job archives, a thread is at work, or one
\* is free and the next granule has not been started, or a future is done and not
\* collected, or everything is and the job can return.
PoolMovesOn ==
  job = "archiving" =>
    \/ Busy # {}
    \/ next \in DOMAIN found /\ Cardinality(Busy) < MaxWorkers /\ pc[Task(next)] = "new"
    \/ \E r \in Requests : pc[r] \in Settled /\ r \notin successful \union failed
    \/ Tasks = successful \union failed

\* Others may change the collection between two pages, which moves the places
\* the next pages start from.  One change costs one granule at most: of those
\* that were there all the time no more are missing from the list, and from the
\* report of a job that returned, than changes were made; and no more are fetched
\* twice, also when a malformed page ends the list.
Reported == {ItemOf[r] : r \in successful \union failed}

EachChangeCostsOneGranule ==
  /\ ~malformed =>
       /\ job = "archiving" => Cardinality(stayed \ ToSet(found)) <= changes
       /\ job = "returned" => Cardinality(stayed \ Reported) <= changes
  /\ Len(found) - Cardinality(ToSet(found)) <= changes

\* Why it does, as an inductive invariant: Ahead is what the next pages reach as
\* the catalogue stands, and a change moves one granule into it or out of it.
Beyond(s, o) == {s[k] : k \in {j \in DOMAIN s : j > o}}
Ahead        == Beyond(catalogue, (page - 1) * Limit)

ChangeCostInv ==
  /\ job \in {"idle", "paging"} =>
       /\ ~malformed
       /\ Cardinality(stayed \ (ToSet(found) \union Ahead)) <= changes
       /\ Len(found) + Cardinality(Ahead \intersect ToSet(found))
            <= Cardinality(ToSet(found)) + changes
  /\ (job \in {"archiving", "returned"} /\ ~malformed) =>
       Cardinality(stayed \ ToSet(found)) <= changes
  /\ Len(found) - Cardinality(ToSet(found)) <= changes

\* No granule is fetched so often that its occurrences outnumber the requests
\* the model has for it; the pool has started what is before `next`, each once;
\* and the report of a job that returned is about the list.
ReportInv ==
  /\ Tasks \subseteq Requests
  /\ job \in {"idle", "paging"} => next = 1
  /\ {r \in Requests : pc[r] # "new"} = {Task(k) : k \in 1..(next - 1)}
  /\ \A r \in successful \union failed : pc[r] \in Settled
  /\ job = "returned" => successful \union failed = Tasks

\* What holds at every moment between the first page and the report.
PagingInv == PageInv /\ ChangeCostInv /\ ReportInv

\* "These match what docker_entrypoint/__main__.py expects": a job that was
\* asked for by its proper name and returned does not end as an invalid argument.
ExitTellsOutcome == exit = "error" => job = "raised"
=============================================================================
