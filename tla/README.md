# Formal model of unity-data-services (Catalia archiving)

TLA+ models, TLC configurations and TLAPS proofs for the part of this
repository that archives granules at a DAAC: a user (or the catalogue trigger)
asks the UDS API to archive a STAC item, the API authorises the request and
hands out operation ids, an asynchronous Lambda stages the assets and sends one
cloud notification message (CNM) per file to the DAAC's SNS topic, the DAAC
answers on a topic of ours, and a response Lambda records the answer.

Paths below are relative to `src/cumulus_lambda_functions/`.

## 1. The system

| component | code | state it keeps | operations |
|---|---|---|---|
| granule archive API | `catalya_uds_api/granules_archive_api.py` | none (requests) | `archive`, `verbose_archive`, its `/actual` second half, collection archive, report, status query |
| DAAC archiver | `daac_archiver/daac_archiver_catalia_2.py` | `sending_uuids`, agreements, the STAC item, all per instance | select files, generate identifiers, stage, send loop, collection job |
| staging | `daac_archiver/services/staging_svc.py`; `extract_files` of the archiver | staging bucket, the item's hrefs, the file blocks of the messages | select and convert files, `stage_files` |
| CNM plugins | `daac_archiver/cnm_plugins/`, `raw_cnm_storage/` | raw CNM bucket | status update, raw copy |
| status update service | `daac_archiver/services/status_update_svc.py` | result files beside the item | `update_status`, `update_status_wrapper` |
| status table | `daac_archiver/sql_mws/catalia_status_db.py` | rows, UNIQUE (identifier, datetime) | `add`, `get`/`search`, `count_by_status` |
| traces table | `daac_archiver/ddb_mws/catalia_archiving_traces.py` | identifier -> item URL | `add`, `get` |
| response Lambda | `daac_archiver/lambda_function.py`, `daac_receiver.py`; queue in `tf-module/sqs--sns-lambda-connector` | SQS queue and dead-letter queue | `receive_from_daac` |
| authorisation | `ddb_mws/catalia_auth_db.py`, `catalia_daac_handshakes_db.py`, `lib/uds_fast_api/internal_ddb_connector.py`, `catalya_uds_api/auth_admin_api.py`, `daac_archive_config_api.py` | auth rows, DAAC agreements | decision, mappings (administrators), agreements (users) |
| catalogue trigger | `catalya_archive_trigger/` | SQS queue of catalogue events | walk a catalogue, request every item |
| collection job | `archive_collection`, `archive_granules`, `docker_entrypoint/` | a thread pool | page through a collection, archive each granule |
| catalogue client | `services/sfa_client_mw.py` | STAC FastAPI (external) | read items, update status |
| mock DAAC | `mock_daac/mock_daac_logic.py` | none | check the object behind a message's uri, answer |
| legacy | `lib/uds_db`, `lib/authorization`, `lib/cql_parser.py`, `ddb_mws/catalia_status_db.py`, `update_stac_uds` | Elasticsearch | not reached by the Catalia handlers |

The API process and the Lambdas share nothing but the stores, the topics and
the queue; every hard behaviour comes from that: a DAAC that answers before the
sender has recorded its submission, Lambda retries of an asynchronous event,
SQS redelivery of a response whose handler failed half way, two handlers on one
identifier, inserts that arrive out of the order of their datetimes, and one
failing service in the middle of a sequence of effects, originals whose owner
may change them before or after they are copied, administrators who change the
tables between two reads of one decision. `PROJECT.json` lists
these as hazards, each at its line.

Interaction, from a request to its answer:

```
 S3 event --SQS--> catalogue trigger --HTTP--> UDS API --async event--> archiver Lambda
                                                  |  \                     |  (stage, trace, publish,
 administrators --> auth rows, agreements --read--+   +--Fargate--> job    |   insert, raw copy)
                                                                    |      v
                                                 stores <-----------+--- SNS --> DAAC
                                                   ^                              |
                                       response Lambda <----SQS (redrive) <-- SNS-+
```

## 2. Modules

Five specifications, each closed, the first two over shared building blocks.

| module | models | state | actions |
|---|---|---|---|
| `CataliaStores` | status table, traces table, result files, raw copies, clock | `rows`, `traces`, `results`, `raw`, `now` | `AddRow`, `AddRowRaises`, `StoreRaw`, `Tick`; `Get`, `Earliest` are the lookups |
| `DaacSender` | API acceptance, the asynchronous second half, `DaacArchiverCatalia` up to the raw copy of each message | `sending` (`sending_uuids`), `pc`, `pos` per request; `status`, `stamp`, `attempts`, `published`, `authorised` | `Accept`, `Reject`, `Invoke`, `Stage`, `Trace`, `Publish`, `StampSubmit`, `InsertSubmit`, `StoreSubmit`, `Crash`, `Administer` |
| `DaacReceiver` | response queue, response Lambda, its plugins | `mpc`, `mid`, `outcome`, `receives`, `subject`, `mstamp`, `failed` per message | `Enqueue`, `Receive`, `Redrive`, `Lookup`, `StampReceive`, `InsertReceive`, `WriteResult`, `StoreReceive`, `HandlerCrash` |
| `DaacDelivery` | both sides over the shared stores, with a DAAC that answers what it was sent, how and as often as it likes | all of the above | `DaacAnswers` and the actions above |
| `DeliveryLedger` | what delivery promises, without queues, Lambdas, clock or retries | `issued`, `sent`, `answers`, `ledger` | `Issue`, `Send`, `Answer`, `RecordSubmit`, `RecordAnswer` |
| `DaacDeliveryInv` | the inductive invariant of `DaacDelivery` | | |
| `StatusReport` | the report and the status query over `DaacDelivery`'s rows | none: both only read | `CountByStatus`, `Summary`, `StatusList` |
| `CollectionArchive` | the collection job: pages, thread pool, container; `DaacSender` in container mode for each granule | `catalogue`, `page`, `found`, `next`, `successful`, `failed`, `job`, `exit` | `Launch`, `FetchPage`, `FetchPageFails`, `StartTask`, `Work`, `Collect`, `Summarise`, `Exit`, `CatalogueChanges`, `ContainerLost` |
| `ArchiveTrigger` | the catalogue trigger and its queue | `stored`, `event`, `receives`, `met`, `unwalked`, `found`, `unvalidated`, `pending`, `requested` | `Receive`, `Redrive`, `ReadMetadata`, `FollowLink`, `LinksFollowed`, `ValidateItem`, `Authenticate`, `RequestItem`, `Return`, `TimeOut`, `Upload` |
| `AssetStaging` | the files of one item: selection, file blocks, the copies, the sends, a DAAC that follows the uris, the owner of the originals | `types`, `objects`, `altered`, `hrefs`, `blocks`, `step`, `run`, `next`, `unsent`, `sent`, `answers` | `Extract`, `Invoke`, `StageAsset`, `PassOver`, `StagingRaises`, `Staged`, `SendBlock`, `Finish`, `Crash`, `DaacAnswers`, `OwnerRemoves`, `OwnerRewrites` |
| `CataliaAuth` | authorisation rows, agreements, the decision over them and what a granted request does to an agreement | `table`, `agreements`, `kind`, `asked`, `step`, `phase`, `configs`, `unread`, `results`, `allowed`, `live` | `Request`, `Search`, `ReadGroup`, `Decide`, `Configure`, `AddMapping`, `DeleteMapping`, `ChangeAgreement` |
| `MC*` | instances for TLC | | |
| `*_proofs` | theorems | | |

`DaacSender` is the shared component: `DaacDelivery` puts it beside the
receiver, `CollectionArchive` runs many of them on a pool, and both are shown to
implement the same `DeliveryLedger`. `DaacSender` keeps staging as one step that
may raise and file selection as the constant `FilesOf`; `AssetStaging` opens
both up for one item. What `DaacSender` takes from `CataliaAuth` is the set `authorised`, which `Administer` changes at any moment.

Granularity. A step is what one process does between two accesses of shared
state; each service call that can fail is a step with its failures as further
disjuncts, in the order of the code. Some correspondences worth knowing:

* `update_status` takes the datetime before it inserts: `StampSubmit` and
  `InsertSubmit` (and the receiver's pair) are two steps, so rows may reach the
  table out of the order of their datetimes.
* The insert can raise for a lost database or for UNIQUE (identifier, datetime)
  at the clock's resolution; `update_status` remembers that error, goes on and
  raises last. On the sender's side there is nothing between (a submit status
  writes no result file), so `InsertSubmit` is one step; on the receiver's side
  `failed` carries the error across `WriteResult`.
* An exception of `publish` only chooses the status `cnm-submit-failed`; the
  third disjunct of `Publish` is a publish SNS accepted whose reply was lost.
  An exception before `cnm_msg` is set makes the constructor of the first plugin
  raise, which leaves the send loop (`aborted`): nothing is recorded for that
  identifier or the ones after it.
* FastAPI turns exceptions of the second half into responses, so only a lost or
  timed-out invocation makes Lambda retry the asynchronous event (`Crash`), with
  the identifiers of the first attempt.
* `Lookup` refuses an identifier without rows by raising; SQS then delivers the
  response again, which is how an answer that overtook the sender's insert is
  handled.
* The plugin order is `STATUS_UPDATE,STORAGE`, the default of
  `CNM_PLUG_IN_NAMES`; the status mechanism is `CATALYA`, as in the terraform.
* Raw copies are keyed by the second, result files by the datetime: `raw` and
  `results` are sets of such keys, a later object replaces an earlier one.
* In the trigger, a link whose file is missing is skipped, an item or asset that
  is missing raises; the items behind a collection are not looked for before
  they are read. `ReadMetadata` returns from the first round of its loop.
* In the collection job a page response without `features` ends the pagination
  with what there is (`malformed`). A granule counts as successful when its
  archiver did not raise; its rows may all be `cnm-submit-failed`.
* In `AssetStaging` the archiving types become a dictionary, so a later entry of
  a data type replaces an earlier one (`Entry`); every asset of a listed type is
  converted, and may raise, before its extension is looked at (`Converted`). The
  blocks are made in the request and travel with the event; each invocation
  starts from the item of the event again and stages under a prefix of its own
  time. A copy is keyed by its file name only. `archiving_types` may be an empty
  list, which selects everything, or `NoTypes`, the `None` the configuration API
  stores by default, on which `extract_files` raises (`Raises`). The DAAC is the
  repository's mock: it compares the size behind the uri with the one in the
  message, and nothing else, so a file with other bytes may pass; a file that is
  there may still be `UNREADABLE`, since any exception of the read is reported
  (an outage, a denied access). What the metadata describe need not be what was
  there to begin with (`altered`).
* `Trace` is what `__send_daac_sns` does before the message is put together. It
  may raise for any request, because the agreement lacks a key of the message
  (failure `"agreement"`), and for traced ones because of the traces table.
* The statuses the report looks for are stage and result looked up in
  `archival_status_schema` (`FindStatus`), not the strings the Lambdas write.
* In `CataliaAuth` an agreement is added, deleted or read after a decision of
  its own for the one DAAC collection the request names; an exception of the
  write is a 500 whether or not the write took effect. Whoever calls the
  administration API without an administrator's group changes nothing.
* In `CataliaAuth` regular expressions and prefix lengths are constants; the
  list order of the rows, by which `min` breaks ties, is `Position`. Rows are
  read group by group and agreements anew for each evaluation, so a decision
  may match no single state of the tables.

Definitions named "faulty variant" are not part of any specification: each is
a plausible bug in the operation it stands beside, and shows that the property
`PROJECT.json` pairs it with can be violated by the code.

## 3. Runs

| run | question | properties |
|---|---|---|
| `delivery_retries` | does a crash, a failed or half-failed publish or a retry leave a gap or an invented status, do rows stay with their owner while authorisation changes, how often is an identifier published, and is the pipeline a ledger? | `SendLoopLeavesNoGap`, `StatusesAreTrue`, `RowsNameTheirOwner`, `SendsBoundedByRuns`, `ImplementsLedger` |
| `delivery_responses` | what do concurrent, failing, redelivered response handlers leave behind, and what do the report and the status query show meanwhile? | `TypeOK`, `DeliveryInv`, `AnswerFollowsSubmission`, `DeletedMeansRecorded`, `SummaryCountsEveryRow`, `AnswersComeWithSubmissions`, `FirstRowStands`, `ClosedWindowsStand` |
| `delivery_liveness` | does every response leave the queue and every accepted request end, whatever fails? | `ResponsesDrain`, `RequestsSettle` |
| `delivery_faultless` | is everything delivered when nothing fails? | `Delivers` |
| `trigger_requests` | validation before requests, completeness, repetition and termination of the trigger | `TypeOK`, `TriggerInv`, `RequestsAfterValidation`, `DeletedMeansRequested`, `WholeCatalogueRequested`, `RequestsBoundedByReceives`, `EventLeavesQueue` |
| `trigger_metadata` | does the schema hold of the metadata that is used? | `MetadataIsValid` (violated) |
| `collection_pages` | is the collection fetched whole, and what does a change cost? | `CollectionTypeOK`, `PagingInv`, `EachChangeCostsOneGranule` |
| `collection_pool` | are granules isolated from each other's failures, can the pool get stuck, does the job end, and is a pool of archivers still a ledger? | `SuccessMeansRecorded`, `PoolMovesOn`, `JobEnds`, `JobImplementsLedger` |
| `collection_exit` | does the task's exit tell the outcome? | `ExitTellsOutcome` (violated) |
| `auth_decision` | does the decision follow the closest-match rule, what does it rest on while the tables change, and what do the writes rest on that follow it? | `TypeOK`, `UndisturbedDecisionFollowsRule`, `GrantRestsOnLiveRows`, `AgreementsChangeByRight` |
| `staging_copies` | what is behind the hrefs, the messages and the DAAC's complaints when copies fail, invocations die and owners interfere? | `TypeOK`, `CopiesBehindHrefs`, `SentAfterStaging`, `MismatchHasCause`, `SelectionFollowsHandshake`, `StagedCopiesStand` |
| `staging_message` | do the messages name what was staged? | `MessageNamesStagedCopy` (violated) |

Bounds, and why they are enough:

* Delivery. Identifiers interact only through the stores, where every lookup is
  by identifier, and through the order of one send loop: two identifiers show
  both (a predecessor in the loop, a row of somebody else). Two messages show
  two answers to one identifier and two concurrent handlers. `MaxTime` 1 gives
  equal and different datetimes, hence the UNIQUE collision and both orders of a
  stamp and an insert; `SecondLength` 1 or 2 puts them in different or equal
  seconds. Two attempts and two receives show a retry after every partial
  effect; more repeat the same steps on stores that already hold their effects.
  The cost is spread over the runs, each with the failures its question needs;
  every kind of failure occurs in at least one.
* Trigger. Three items: linked directly, linked twice, linked through the
  collection only, one of them without a collection id; two assets, one shared;
  any subset of the files uploaded at the start and later; three receives, so
  that a retry is itself retried.
* Collection. `Limit` 2 and up to four granules: empty, short, exactly full and
  twice full. Two changes anywhere before the last page. On the pool, up to three
  granules on two threads, so that one waits for a thread; the gap a send loop of
  several files could leave is the matter of `delivery_retries`.
* Authorisation. Two overlapping patterns on either side, so that matching rows
  of every relative closeness compete; three rows are what it takes for a
  candidate that is closest on one side and not on the other to interfere; two
  user groups, one of them also the algorithm's; all five kinds of request; one concurrent
  change at any point of the reads, or between a decision and its write.
* Report. Every window over the clock's two instants, open or closed at either
  end, over all the rows `delivery_responses` reaches.
* Staging. Four assets: a data file and its metadata under one file name, a file
  that is not on S3, one without a checksum; agreements without a list, with an empty one, with one
  type, with an extension, with two types, with a type nothing has, and with one
  type listed twice; two invocations, so that a retry finds the copies of the
  first; every original other than described from the start, and removed or
  rewritten at any moment.

What the results rest on, beside the code:

* One clock. The response Lambda's datetimes are compared with the archiver's
  (`AnswerFollowsSubmission`, `FirstRowStands`, `ClosedWindowsStand`), each taken
  from the clock of the machine it runs on. The models have one clock; with
  clocks apart by more than the DAAC's turnaround the order of rows is not
  assured.
* Reads that see every write completed before them. `GrantRestsOnLiveRows` and
  `AgreementsChangeByRight` say that a revocation completed before the request is
  not overlooked; with eventually consistent reads of DynamoDB a recent one may be.
* A catalogue that keeps the order of its items between two pages except for
  what is added and removed (`EachChangeCostsOneGranule`). The client asks for
  offsets and sorts nothing itself.
* A call of publish is one message. `SendsBoundedByRuns` counts the calls SNS took;
  the retries inside the SNS client and the repetitions SNS allows itself in
  delivery come on top. Repeated answers are modelled (`DaacAnswers`).

What some properties leave open:

* `Delivers` is checked without failures. That an exception of a plugin costs the
  identifiers after it is seen by `SendLoopLeavesNoGap`, which says that nothing
  after the gap is sent, not that it ever will be.
* `RowsNameTheirOwner` does not judge a partial revocation between the two halves
  of a request: the second half sends all forwarded identifiers as long as
  anything is still authorised.
* `CopiesBehindHrefs` admits what the staging key does to two assets of one file
  name: the later copy is behind both hrefs.
* `AgreementsChangeByRight` admits the write that is overtaken: a row revoked
  between the decision and the write still lets it through.
* `MismatchHasCause` speaks of the size a DAAC finds, not of reads that fail.

Deadlock checking is off everywhere: these systems stop when requests, events
and responses are used up.

Fairness. `FairSpec` of `DaacDelivery` and `ArchiveTrigger` assumes that Lambda
goes on invoking queued events, SQS goes on delivering visible messages (its
event source mapping polls for ever) and a handler that was started takes its
next step or fails. `FairSpec` of `CollectionArchive` assumes the threads of a
live container run. Nothing is assumed of the DAAC, the administrators, the
callers, the uploader, the clock or of any service succeeding. `Delivers` is
checked in the configuration without failures only: there it also needs that a
submission never collides with a row of its own identifier, which the run shows.

## 4. What the runs disagree with

* `collection_exit`: the branch `CATALYA_COLLECTION_ARCHIVE` of
  `docker_entrypoint/__main__.py` has no `return`; a job that archived its
  collection ends with `ValueError('invalid argument')`, and the Fargate task is
  reported as failed.
* `trigger_metadata`: `retrieve_user_n_alg_name_version` notes a failed schema
  check and then returns the values it has just refused.
* `staging_message`: the docstring of `archive_granule_json` copies to the
  staging bucket and then sends, and its log keeps the original location for the
  case that staging is skipped. `generate_sending_ids_dict` makes the file
  blocks in the request, before the invocation stages anything, and staging
  rewrites the hrefs of the item, not the blocks: the DAAC is sent the location
  of the originals, which the owner may have changed by then.

Seen while reading, without a run:

* `handshake-daac.md` says of `archiving_types` at line 26 "If it's empty,
  everything will be archived", and the comment in `extract_files` (line 249) "If
  no archiving types specified, include all assets". The configuration API's
  default is `None` (`daac_archive_config_api.py:29`), which is stored as it is,
  and `len(None)` raises at `daac_archiver_catalia_2.py:250`: such an agreement
  makes every request fail that its DAAC collection is part of. Only an explicitly empty list
  archives everything. `SelectionFollowsHandshake` states both.
* Steps 1 to 3 of the docstring of `stage_files` (`staging_svc.py:33-35`) check the
  directory `<collection-id>/<item-id>` of the staging bucket, warn when it is
  not empty, and empty it. None of that is done: the prefix goes one level deeper,
  to the time of the invocation, and nothing is looked at, warned about or
  removed. `StagedCopiesStand` holds of the code for that reason; what the
  docstring describes would remove the copies of an earlier invocation, and the
  staging bucket grows by a copy of the item with every retry.
* `archive` of one granule in Lambda mode serialises a pystac item with
  `json.dumps`, which raises, so only its container mode works;
  `PUT /{collection}/archive/actual` is shadowed by
  `/{collection}/archive/{granule_id}`; `update_stac_uds` imports a module the
  repository no longer has.
* The last narrowing of `CataliaAuthDb.authorize` starts again from all matching
  rows; only tests call it. `get_authorized_daac`, which the API uses, follows
  the rule of its docstring (`auth_decision`).
* The docstring of the report allows epoch milliseconds; a string of digits
  makes `fromisoformat` raise.
* `cnm-authorized-*` and `cnm-staged-*` are never written: an operation whose
  staging failed has no row, and its status query is a 404.
* `update_sfa_item_status` returns before it updates anything, although
  `update_status` says it does.
* Two data types of one name in an agreement: the later replaces the earlier.
  Two assets of one file name: the later copy replaces the earlier.
* `build_status_table` tests for the table and then creates it; two first
  requests at once may both try.
* `mock_daac_logic.py` reads its failure rate from the variable of its silence
  rate.

## 5. Proofs

TLAPS proves the following for all values of the constants, from the named
assumptions `StoresAssumption`, `SenderAssumption`, `ReceiverAssumption`,
`TriggerAssumption`, `CollectionAssumption`, `StagingAssumption` and
`AuthAssumption` (typing of the constants, finite sets where a cardinality is
taken, bounds at least one); TLC evaluates them in the runs.

| theorem | module | states |
|---|---|---|
| `TypeCorrect` | `DaacDelivery_proofs` | `TypeOK` |
| `DeliveryInvariant` | `DaacDeliverySafety_proofs` | `DeliveryInv` |
| `AnswersFollowSubmissions`, `RowsBelongToTheirIdentifier`, `FirstRowsStand`, `RecordedStatusesAreTrue`, `SendLoopIsGapless`, `SendsAreBounded`, `DeletedResponsesAreRecorded` | `DaacDeliverySafety_proofs` | the safety properties of the delivery |
| `DeliveryImplementsLedger` | `DaacDeliverySafety_proofs` | `ImplementsLedger` |
| `SummaryIsComplete`, `AnswersAreShownWithSubmissions`, `ClosedWindowsAreFinal` | `StatusReport_proofs` | `SummaryCountsEveryRow`, `AnswersComeWithSubmissions`, `ClosedWindowsStand` |
| `TriggerTypes`, `TriggerInvariant`, `DeletedEventsWereRequested`, `CompleteCataloguesAreRequested`, `RequestsAreBounded`, `RequestsFollowValidation` | `ArchiveTrigger_proofs` | the safety properties of the trigger |
| `CollectionTypes`, `PagesAccountForCatalogue`, `PaginationIsComplete`, `ChangesCostOneGranuleEach` | `CollectionArchive_proofs` | `CollectionTypeOK`, `PagingInv`, `PagesCoverCatalogue`, `EachChangeCostsOneGranule` |
| `SuccessesAreRecorded`, `JobSendsOnce`, `PoolIsNeverStuck`, `JobImplementsTheLedger` | `CollectionArchive_proofs` | `SuccessMeansRecorded`, `SendsBoundedByRuns`, `PoolMovesOn`, `JobImplementsLedger` |
| `StagingTypes`, `CopiesAreBehindHrefs`, `MessagesFollowStaging`, `MismatchesHaveACause`, `FilesFollowTheHandshake`, `CopiesStand` | `AssetStaging_proofs` | every property of `staging_copies` |
| `AuthTypes`, `DecisionsFollowTheRule`, `GrantsRestOnLiveRows`, `AgreementsNeedARight` | `CataliaAuth_proofs` | every property of `auth_decision` |

`DaacSender_proofs` holds what `DaacDelivery` and `CollectionArchive` share: the
types of the request side, freshness of the identifiers, how often one is sent,
and what an acceptance, a publish and an insert are to the ledger.

**Delivery.** None of the properties is inductive alone. The argument runs:

1. `TypeInv`: types, and `pos` names an identifier while the loop runs.
2. `OwnerInv`: identifiers are issued once (uuid4 never repeats), so an
   identifier determines its request; a handler past its lookup holds the
   subject of an existing row. Hence rows name their owner.
3. `OrderInv`: no stamp lies in the future, UNIQUE gives one row per datetime,
   and a handler past its lookup has a submission no younger than its stamp;
   with UNIQUE that makes the answer's row strictly younger.
4. `InsertsTheLatest`: a submission about to be inserted is no older than the
   submissions of its identifier on record: the loop handles an identifier in one
   place at a time and a retry stamps anew. With `OrderInv` an insert never goes
   before the first row: `FirstRowStands`, an action property.
5. `LoopInv`, `TraceInv`: progress of the send loop; `SendLoopLeavesNoGap` needs
   that what is behind `pos` is on record although a retry restarts `pos`.
6. `AnswersWereAsked`, `HandlerInv`: what a handler has done by each step; at the
   last one it gives `DeletedMeansRecorded`.
7. `RunsInv`: what has been published of an identifier, and the send of it the
   current run still owes (`ToSend`), are within the runs begun so far. An
   invocation begins a run and owes every identifier again, a publish pays one
   off, and freshness (`IdsIssuedOnce`) keeps the requests out of each other's
   count. `SendsBoundedByRuns` follows; in a collection job, which nobody
   retries, it makes every identifier be sent once at most (`JobSendsOnce`).

The types of the sender come from `DaacSender_proofs`. `DaacDelivery_proofs`
proves the rest of the first two and the order of rows one action at a
time, `DaacDeliverySafety_proofs` the rest. The refinement maps `issued` to the
identifiers handed out, `sent` to those published, `answers` to the responses
that reached the queue and `ledger` to the (identifier, status) pairs of the
rows; each step of the pipeline changes at most one of the four, by a step of
the ledger, using `DeliveryInv` for the guards of `RecordSubmit` and
`RecordAnswer`.

**Report.** The report only reads, so its theorems are consequences of
`DeliveryInv` and of lemmas on what the code computes. `FoundAt` and
`StatusesFound` say that the keyword search over the schema's list finds
exactly the four statuses the two Lambdas write (the first match counts, so the
order of the list matters), and `SplitCounts` that counting by them partitions
the rows. The status list exists because a finite set of rows can be put in the
order of their datetimes (`OrderExists`: a smallest set that cannot could be
listed by its earliest row and then the others); it begins with a submission
because an answer has an older submission beside it. `ClosedStays`: whoever is
about to insert into a window that is over would have to hold a stamp from it,
and a retry stamps anew; hence `ClosedWindowsAreFinal`, an action property.

**Trigger.** `TriggerInv` says what each stage of the current receive has
covered: `ValidatedSoFar` (pending is what was validated), `RequestedSoFar` (an
item still pending has been requested in earlier receives only), `WalkedSoFar`
(found and still to walk cover the catalogue).

**Pages.** `PagingInv` has three parts, `PageInv`, `ChangeCostInv` and `ReportInv`.
`PageInv`: while paging, what was fetched is the catalogue's first
`(page - 1) * Limit` granules; `AdjoiningParts` joins the next page to it, and a
page shorter than the limit is the catalogue's end. Its last part is `PagesCoverCatalogue`, what
a collection nobody changes is owed.

**Changing catalogues.** `EachChangeCostsOneGranule` speaks of the list and of the
report made from it. `ChangeCostInv` speaks of every page before, with `Ahead`, the granules
the next pages would reach as the catalogue stands now: at most `changes` of
those that stayed are neither fetched nor ahead, and the granules fetched twice
so far, with those fetched that are ahead again, are at most `changes` too. A
page moves granules from `Ahead` to `found` (`PageSplitsAhead`), which keeps both
counts; a removal or an insertion shifts the place behind which `Ahead` begins,
by which at most one granule leaves or enters it (`RemovingMovesOne`,
`InsertingMovesOne`), and costs one. The bound on repetitions also means that a
granule is fetched `changes + 1` times at most (`RepetitionsCount`), so the
model has a request for every occurrence, `Tasks \subseteq Requests`, and the
`Requests` of `CollectionAssumption` leave out no run of the job
(`TasksHaveRequests`). `ReportInv` carries the cost from the list to the report:
the pool has started exactly what is before `next`, only what has ended is
reported, and a job returns with one result for every occurrence. From the same
invariant `PoolIsNeverStuck`: when no thread is at work and everything that ended
was collected, either the next occurrence is still unstarted, since no two places
of the list share a request (`TasksDiffer`), or all of them are reported. It is
the safety half of `JobEnds`, whose liveness half is left to TLC.

**The job.** `JobInv` adds to the sender's types the progress of each archiver
(what is behind `pos` is on record, a finished one has everything on record) and
that only finished archivers are counted successful. Each archiver owns its
identifiers' places in `sending`, and rows only grow, so a step of one keeps the
progress of the others; the loss of the container stops archivers and touches no
row. For the ledger it takes in addition that a granule the pool has not started
has no identifiers, and that a success an archiver holds was published
(`LedgerInv`). Removing from and inserting into a sequence without repetitions
keeps it so, which is what `CollectionTypeOK` needs of a changing catalogue.

**Staging.** `StagingInv` joins the types with: a block names the place its asset
had at first (`BlocksNameOrigins`), originals that are not `altered` are what was
described (`OriginalsStand`), a size the DAAC finds to differ belongs to an altered
one (`MismatchHasCause`), the assets before `next` have their copies under the
prefix of this run (`StagedSoFar`), and once sending has begun one run has all of
them (`SentWhenStaged`). `CopiesStand` follows because a copy only writes under the
prefix of the run that makes it. `FilesFollowTheHandshake` needs that an entry
chosen from a list without repeated types is the only one, and that a request
gets past `Extract` only with a list.

**Authorisation.** `AuthInv` (`TypeOK`, `LiveSoFar`): what is read are rows of this
evaluation's groups that have been in the table since the request came (`live`),
and whatever the finished evaluations allowed rests on such a row; so does a
grant. `RuleInv` adds, as long as nobody interferes, that what was read and
allowed is what the tables say. The bridge between them is
`DecisionFollowsRule`: a finite set of matching rows has a closest one
(`TargetClosestExists`, `SourceClosestExists`), `min` returns a member
(`FirstIsMember`), so the row that decides is one the rule would let decide.
`DecidedOnAsked` carries a request about an agreement from its decision to its
write, whatever others do between: it was decided on the one DAAC collection it
names, and granted, that one is allowed. Since the API passes over the list the
decision returns and writes what its path names, `AgreementsNeedARight` needs
both that and `LiveSoFar`.

Model-checked only: the liveness properties (`ResponsesDrain`, `RequestsSettle`,
`Delivers`, `EventLeavesQueue`, `JobEnds`), since liveness under fairness is
beyond the prover. Every invariant and every action property of a passing run is
stated by a theorem.

## 6. Not modelled

* The wording of the CNM message and of the answers.
* The check of a caller's token (`keycloak_authorizer`, `maap_api_client`) and the
  parsing of the request context: stateless. What they yield, the groups of the
  requester, is a constant of `CataliaAuth`.
* What `update_sfa_item_status` would do to an item behind its early `return`.
* A second SNS/SQS delivery of one response or event beside redelivery: in the
  delivery two messages with one identifier and outcome stand for it.
* Keys of raw copies and result files that coincide within their resolution
  overwrite each other by design of the key.
* Container modes of other commands (search, download, upload): an external
  library. Legacy modules for Elasticsearch and the earlier DynamoDB status
  table: not called.

## 7. Plan

1. An abstract collection job (fetch, then report on every granule) that
   `CollectionArchive` implements.
2. The trigger's requests composed with `DaacSender`'s acceptance: what a
   redelivered event costs in duplicate deliveries.
