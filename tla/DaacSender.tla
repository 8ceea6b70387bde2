----------------------------- MODULE DaacSender -----------------------------
(***************************************************************************)
(* The request side: PUT verbose_archive/{granule} of the UDS API           *)
(* (catalya_uds_api/granules_archive_api.py) and the DaacArchiverCatalia    *)
(* it drives (daac_archiver/daac_archiver_catalia_2.py).  In Lambda mode    *)
(* the API generates the sending identifiers, hands them to an asynchronous *)
(* Lambda invocation and answers 202; the invocation re-authorises, stages  *)
(* the assets and sends one SNS message per identifier.  In a container     *)
(* (IS_API_IN_DOCKER, and the collection job) the same archiver runs inside *)
(* the request.                                                             *)
(***************************************************************************)
EXTENDS CataliaStores, Sequences, Functions

CONSTANTS
  Requests,       \* archive requests, one per granule sent
  ItemOf,         \* the STAC item of each request
  Files,          \* files an item may contribute
  FilesOf,        \* what extract_files selects for each agreement
  Traced,         \* requests with tracing_s3_url set (verbose_archive)
  Async,          \* requests served through the asynchronous invocation
  SkipStaging,    \* staged_s3_bucket = SKIP_STAGING_STAC_ASSETS
  MaxAttempts     \* Lambda runs one asynchronous event at most this often

ASSUME SenderAssumption ==
  /\ ItemOf \in [Requests -> Items]
  /\ IsFiniteSet(Files)
  /\ FilesOf \in [Targets -> SUBSET Files]
  /\ Traced \subseteq Requests
  /\ Async \subseteq Requests
  /\ SkipStaging \in BOOLEAN
  /\ MaxAttempts \in Nat \ {0}

VARIABLES
  authorised,  \* agreements the user's groups and the algorithm both allow
  sending,     \* sending_uuids: request -> sequence of prerequisites
  pc,          \* where the archiver working for the request is
  pos,         \* position in the send loop of archive_granule_json
  status,      \* status_msg of the identifier being processed
  stamp,       \* datetime taken by update_status for that status
  attempts,    \* invocations of the event so far
  published    \* messages accepted by SNS, per identifier

senderVars == <<authorised, sending, pc, pos, status, stamp, attempts, published>>

PreReq == [id: Ids, target: Targets, file: Files]

Running == {"staging", "trace", "publish", "stamp", "insert", "store"}
Settled == {"rejected", "denied", "aborted", "dropped", "finished"}

SenderTypeOK ==
  /\ authorised \subseteq Targets
  /\ sending \in [Requests -> Seq(PreReq)]
  /\ pc \in [Requests -> {"new", "queued"} \union Running \union Settled]
  /\ pos \in [Requests -> Nat \ {0}]
  /\ status \in [Requests -> SubmitStatuses]
  /\ stamp \in [Requests -> 0..MaxTime]
  /\ attempts \in [Requests -> 0..MaxAttempts]
  /\ published \in [Ids -> Nat]

\* Places in the send loop, where pos[r] names an identifier.
InLoop == {"trace", "publish", "stamp", "insert", "store"}

PosNamesAnIdentifier ==
  \A r \in Requests : pc[r] \in InLoop => pos[r] \in DOMAIN sending[r]

SenderInit ==
  /\ authorised \in SUBSET Targets
  /\ sending = [r \in Requests |-> << >>]
  /\ pc = [r \in Requests |-> "new"]
  /\ pos = [r \in Requests |-> 1]
  /\ status = [r \in Requests |-> "cnm-submit-failed"]
  /\ stamp = [r \in Requests |-> 0]
  /\ attempts = [r \in Requests |-> 0]
  /\ published = [i \in Ids |-> 0]

-----------------------------------------------------------------------------
(***************************************************************************)
(* Acceptance: verbose_archive_single_granule.                              *)
(***************************************************************************)

Issued(i) == \E r \in Requests : \E k \in DOMAIN sending[r] : sending[r][k].id = i

\* One (agreement, file) pair per message generate_sending_ids_dict prepares.
Wanted == {w \in authorised \X Files : w[2] \in FilesOf[w[1]]}

\* A uuid4 per pair; the dictionary keeps the order they were generated in.
SendingIdsDict ==
  LET n == Cardinality(Wanted)
      fresh == {i \in Ids : ~Issued(i)}
  IN  {[k \in 1..n |-> [id |-> ids[k], target |-> order[k][1], file |-> order[k][2]]] :
         order \in Injection(1..n, Wanted), ids \in Injection(1..n, fresh)}

\* The caller gets its operation ids; the work is queued as an asynchronous
\* event, or starts at once in a container.
Accept(r) ==
  /\ pc[r] = "new"
  /\ authorised # {}
  /\ \E s \in SendingIdsDict : sending' = [sending EXCEPT ![r] = s]
  /\ pc' = [pc EXCEPT ![r] = IF r \in Async THEN "queued" ELSE "staging"]
  /\ UNCHANGED <<storeVars, authorised, pos, status, stamp, attempts, published>>

\* 403 when nothing is authorised; any exception before the hand-over (an
\* asset without size or checksum, a failed invocation) is a 500.
Reject(r) ==
  /\ pc[r] = "new"
  /\ pc' = [pc EXCEPT ![r] = "rejected"]
  /\ UNCHANGED <<storeVars, authorised, sending, pos, status, stamp, attempts, published>>

(***************************************************************************)
(* The invocation: verbose_archive_single_granule_actual.  It authorises    *)
(* again, but afterwards sends the whole forwarded sending_uuids.           *)
(***************************************************************************)
Invoke(r) ==
  /\ pc[r] = "queued"
  /\ attempts[r] < MaxAttempts
  /\ attempts' = [attempts EXCEPT ![r] = @ + 1]
  /\ pos' = [pos EXCEPT ![r] = 1]
  /\ pc' = [pc EXCEPT ![r] = IF authorised = {} THEN "denied" ELSE "staging"]
  /\ UNCHANGED <<storeVars, authorised, sending, status, stamp, published>>

\* Faulty variant of LoopFrom: off by one.
LoopFromOneShort(r, k) == IF k < Len(sending[r]) THEN "trace" ELSE "finished"

\* The send loop runs over the whole dictionary.
LoopFrom(r, k) == IF k <= Len(sending[r]) THEN "trace" ELSE "finished"

\* archive_granule_json up to the loop: StagingSvc.stage_files may raise.
Stage(r) ==
  /\ pc[r] = "staging"
  /\ \/ pc' = [pc EXCEPT ![r] = LoopFrom(r, pos[r])]
     \/ /\ ~SkipStaging
        /\ "staging" \in Failures
        /\ pc' = [pc EXCEPT ![r] = "aborted"]
  /\ UNCHANGED <<storeVars, authorised, sending, pos, status, stamp, attempts, published>>

-----------------------------------------------------------------------------
(***************************************************************************)
(* __send_daac_sns for the identifier at pos[r].  An exception of publish   *)
(* only chooses the status.  An exception before it leaves cnm_msg unset,   *)
(* so the constructor of the first plugin raises; like an exception of a    *)
(* running plugin, that leaves the loop and the request.                    *)
(***************************************************************************)
Current(r) == sending[r][pos[r]].id

\* The traces once a sending id of r is noted, which only traced requests are.
Noted(r) == IF r \in Traced THEN traces \union {Current(r)} ELSE traces

\* Before the message is put together: the topic is set and a traced id noted.
\* Besides the traces table the agreement may raise, before or after the note,
\* when it lacks a key the message needs.
Trace(r) ==
  /\ pc[r] = "trace"
  /\ \/ /\ pc' = [pc EXCEPT ![r] = "publish"]
        /\ traces' = Noted(r)
     \/ /\ "agreement" \in Failures \/ (r \in Traced /\ "traces" \in Failures)
        /\ pc' = [pc EXCEPT ![r] = "aborted"]
        /\ traces' \in {traces, Noted(r)}
  /\ UNCHANGED <<now, rows, results, raw, authorised, sending, pos, status, stamp,
                 attempts, published>>

\* Faulty variant of Publish: success is noted before the call that may fail.
PublishNotedEarly(r) ==
  /\ pc[r] = "publish"
  /\ status' = [status EXCEPT ![r] = "cnm-submit-success"]
  /\ \/ published' = [published EXCEPT ![Current(r)] = @ + 1]
     \/ "sns" \in Failures /\ UNCHANGED published
  /\ pc' = [pc EXCEPT ![r] = "stamp"]
  /\ UNCHANGED <<storeVars, authorised, sending, pos, stamp, attempts>>

\* Faulty variant of Publish: a lost reply is answered by publishing again.
PublishUntilReply(r) ==
  /\ pc[r] = "publish"
  /\ \/ /\ published' = [published EXCEPT ![Current(r)] = @ + 1]
        /\ status' = [status EXCEPT ![r] = "cnm-submit-success"]
        /\ pc' = [pc EXCEPT ![r] = "stamp"]
     \/ /\ "sns" \in Failures
        /\ status' = [status EXCEPT ![r] = "cnm-submit-failed"]
        /\ pc' = [pc EXCEPT ![r] = "stamp"]
        /\ UNCHANGED published
     \/ /\ "sns-reply" \in Failures
        /\ published' = [published EXCEPT ![Current(r)] = @ + 1]
        /\ UNCHANGED <<status, pc>>
  /\ UNCHANGED <<storeVars, authorised, sending, pos, stamp, attempts>>

\* The last case is a publish that SNS accepted but whose reply was lost.
Publish(r) ==
  /\ pc[r] = "publish"
  /\ \/ /\ published' = [published EXCEPT ![Current(r)] = @ + 1]
        /\ status' = [status EXCEPT ![r] = "cnm-submit-success"]
     \/ /\ "sns" \in Failures
        /\ status' = [status EXCEPT ![r] = "cnm-submit-failed"]
        /\ UNCHANGED published
     \/ /\ "sns-reply" \in Failures
        /\ published' = [published EXCEPT ![Current(r)] = @ + 1]
        /\ status' = [status EXCEPT ![r] = "cnm-submit-failed"]
  /\ pc' = [pc EXCEPT ![r] = "stamp"]
  /\ UNCHANGED <<storeVars, authorised, sending, pos, stamp, attempts>>

\* CnmStatusUpdatePlugin, first half: update_status stamps the status.
StampSubmit(r) ==
  /\ pc[r] = "stamp"
  /\ stamp' = [stamp EXCEPT ![r] = now]
  /\ pc' = [pc EXCEPT ![r] = "insert"]
  /\ UNCHANGED <<storeVars, authorised, sending, pos, status, attempts, published>>

\* Faulty variant of SubmitRow: the status of the attempt is not passed on.
SubmitRowOptimistic(r) ==
  [identifier |-> Current(r), datetime |-> stamp[r],
   subject |-> <<ItemOf[r], sending[r][pos[r]].target>>, status |-> "cnm-submit-success"]

SubmitRow(r) ==
  [identifier |-> Current(r), datetime |-> stamp[r],
   subject |-> <<ItemOf[r], sending[r][pos[r]].target>>, status |-> status[r]]

\* Faulty variant of InsertSubmit: a raised update is tried again at once.
InsertSubmitRetries(r) ==
  /\ pc[r] = "insert"
  /\ \/ /\ AddRow(SubmitRow(r))
        /\ pc' = [pc EXCEPT ![r] = "store"]
     \/ /\ AddRow(SubmitRow(r))
        /\ "sfa" \in Failures
        /\ pc' = [pc EXCEPT ![r] = "stamp"]
     \/ /\ AddRowRaises(SubmitRow(r))
        /\ pc' = [pc EXCEPT ![r] = "stamp"]
  /\ UNCHANGED <<now, traces, results, raw, authorised, sending, pos, status, stamp,
                 attempts, published>>

\* Faulty variant of InsertSubmit: an insert that raised is logged and passed.
InsertSubmitIgnores(r) ==
  /\ pc[r] = "insert"
  /\ AddRow(SubmitRow(r)) \/ AddRowRaises(SubmitRow(r))
  /\ pc' = [pc EXCEPT ![r] = "store"]
  /\ UNCHANGED <<now, traces, results, raw, authorised, sending, pos, status, stamp,
                 attempts, published>>

\* Second half: the insert, then the catalog client, which changes no item but
\* may raise when UPDATE_STATUS_TO_SFA is set.  The result file is skipped for a
\* submit status, so an error of either is what update_status raises.
InsertSubmit(r) ==
  /\ pc[r] = "insert"
  /\ \/ /\ AddRow(SubmitRow(r))
        /\ pc' = [pc EXCEPT ![r] = "store"]
     \/ /\ AddRow(SubmitRow(r))
        /\ "sfa" \in Failures
        /\ pc' = [pc EXCEPT ![r] = "aborted"]
     \/ /\ AddRowRaises(SubmitRow(r))
        /\ pc' = [pc EXCEPT ![r] = "aborted"]
  /\ UNCHANGED <<now, traces, results, raw, authorised, sending, pos, status, stamp,
                 attempts, published>>

\* CnmStoragePlugin, then the next identifier of the loop.
StoreSubmit(r) ==
  /\ pc[r] = "store"
  /\ \/ /\ StoreRaw(Current(r))
        /\ pos' = [pos EXCEPT ![r] = @ + 1]
        /\ pc' = [pc EXCEPT ![r] = LoopFrom(r, pos[r] + 1)]
     \/ /\ "storage" \in Failures
        /\ pc' = [pc EXCEPT ![r] = "aborted"]
        /\ UNCHANGED <<raw, pos>>
  /\ UNCHANGED <<now, rows, traces, results, authorised, sending, status, stamp,
                 attempts, published>>

-----------------------------------------------------------------------------
\* The Lambda runs out of time or dies: the asynchronous event is retried
\* until MaxAttempts; a container loses the request.
Crash(r) ==
  /\ "lambda" \in Failures
  /\ pc[r] \in Running
  /\ pc' = [pc EXCEPT ![r] =
              IF r \in Async /\ attempts[r] < MaxAttempts THEN "queued" ELSE "dropped"]
  /\ UNCHANGED <<storeVars, authorised, sending, pos, status, stamp, attempts, published>>

\* An administrator changes what the requester's groups may archive.
Administer ==
  /\ authorised' \in SUBSET Targets
  /\ authorised' # authorised
  /\ UNCHANGED <<storeVars, sending, pc, pos, status, stamp, attempts, published>>

\* A step of the archiver working for r, crashes aside.
ArchiverStep(r) ==
  \/ Invoke(r) \/ Stage(r) \/ Trace(r) \/ Publish(r)
  \/ StampSubmit(r) \/ InsertSubmit(r) \/ StoreSubmit(r)

SenderNext ==
  \/ \E r \in Requests : Accept(r) \/ Reject(r) \/ ArchiverStep(r) \/ Crash(r)
  \/ Administer

-----------------------------------------------------------------------------
\* Submitted(i): a submission of i is on record.
Submitted(i) == \E r \in Get(i) : r.status \in SubmitStatuses

\* The send loop leaves no gap: when an identifier has been published, every
\* earlier identifier of the request has its submission on record, whatever
\* failed, crashed or was retried in between; and a request that ran to the
\* end has all of them on record.
SendLoopLeavesNoGap ==
  \A r \in Requests : \A k \in DOMAIN sending[r] :
    \/ published[sending[r][k].id] > 0
    \/ pc[r] = "finished"
    => /\ \A j \in 1..(k - 1) : Submitted(sending[r][j].id)
       /\ pc[r] = "finished" => Submitted(sending[r][k].id)

\* uuid4 is never reused, nothing is issued before acceptance, and nothing is
\* published that was not issued.
IdsIssuedOnce ==
  /\ \A r, q \in Requests : \A j \in DOMAIN sending[r], k \in DOMAIN sending[q] :
       sending[r][j].id = sending[q][k].id => r = q /\ j = k
  /\ \A r \in Requests : pc[r] = "new" => sending[r] = << >>
  /\ \A i \in Ids : published[i] > 0 => Issued(i)

\* The runs of the archiver for a request: one per invocation of its event, or
\* the one inside the request.
Runs(r) == IF r \in Async THEN attempts[r] ELSE 1

\* An identifier is published once per run at most: a retried event sends its
\* identifiers again from the first, but no run calls publish for one twice,
\* whether SNS took the message, refused it, or took it and the reply was lost.
SendsBoundedByRuns ==
  \A r \in Requests : \A k \in DOMAIN sending[r] : published[sending[r][k].id] <= Runs(r)
=============================================================================
